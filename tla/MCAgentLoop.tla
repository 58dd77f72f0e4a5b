----------------------------- MODULE MCAgentLoop -----------------------------
(* A small instance of AgentLoop. *)
EXTENDS AgentLoop, TLC

FastAndStandard == "fast" :> 0 @@ "standard" :> 1

(* As shipped; with the knowledge base read only when the decision says    *)
(* so; and with nothing read beforehand and nothing taken away.            *)
SomeSettings ==
  {[prefetch |-> TRUE, always |-> TRUE, force |-> TRUE, exclude |-> TRUE],
   [prefetch |-> TRUE, always |-> FALSE, force |-> TRUE, exclude |-> TRUE],
   [prefetch |-> FALSE, always |-> FALSE, force |-> FALSE, exclude |-> FALSE]}
=============================================================================
