------------------------------ MODULE AsrChain ------------------------------
(***************************************************************************)
(* Batch speech recognition: requests on one event loop try the configured *)
(* engines in turn under a common deadline.  What an engine's failures     *)
(* mean is kept twice: in the breaker, and in the table _unreachable_until *)
(* that the chain consults.  Background probes change both.                *)
(***************************************************************************)
EXTENDS UpstreamBreaker, Sequences

CONSTANTS
  Engines,       \* the configured engines
  Orders,        \* the orders in which a request may try them
  Requests,
  NodeSeconds,   \* asr_node_seconds of the clip
  ChainSeconds,  \* asr_chain_seconds of the clip
  MinSeconds     \* worth_trying: less than this is not worth a hop

ASSUME AsrAssumption ==
  /\ Orders \subseteq Seq(Engines) \ {<<>>}
  /\ {NodeSeconds, ChainSeconds, MinSeconds} \subseteq Nat \ {0}
  /\ MinSeconds <= Smaller(NodeSeconds, ChainSeconds)

VARIABLES
  node,    \* node[n]: ASR_BREAKER
  pause,   \* pause[n]: time left in _unreachable_until, 0 for no entry
  req      \* req[q]: a request: see Reqs

vars == <<node, pause, req>>

-----------------------------------------------------------------------------
(* phase: ready while the clip is measured, running between two awaits.    *)
(* chain: the engines ahead, of which those in skip are passed over; left: *)
(* of the deadline; hop: of the call under way; tried: the engines called. *)
Reqs == [phase : {"idle", "ready", "running", "calling", "answered", "failed"},
         chain : Seq(Engines), skip : SUBSET Engines, left : Nat, hop : Nat,
         tried : SUBSET Engines]

NoReq == [phase |-> "idle", chain |-> <<>>, skip |-> {}, left |-> 0, hop |-> 0,
          tried |-> {}]

TypeOK ==
  /\ node \in [Engines -> NodeStates]
  /\ pause \in [Engines -> 0..CoolDown]
  /\ req \in [Requests -> Reqs]

Init ==
  /\ node = [n \in Engines |-> Fresh]
  /\ pause = [n \in Engines |-> 0]
  /\ req = [q \in Requests |-> NoReq]

CoolingDown(n) == node[n].probe > 0 \/ pause[n] > 0

(* _skip_unreachable: if every engine is paused none is skipped.           *)
In(order) == {order[i] : i \in DOMAIN order}
Skipped_strict(order) == {n \in In(order) : CoolingDown(n)}
Skipped(order) ==
  {n \in In(order) : CoolingDown(n) /\ \E m \in In(order) : ~CoolingDown(m)}

(* One event loop: nothing happens while a request is between two awaits.  *)
AllAwait == \A q \in Requests : req[q].phase # "running"

(* What to skip is fixed first, then the clip is measured in a thread, then   *)
(* the deadline starts.                                                    *)
Start(q) ==
  /\ AllAwait
  /\ req[q].phase \in {"idle", "answered", "failed"}
  /\ \E order \in Orders :
       req' = [req EXCEPT ![q] = [NoReq EXCEPT !.phase = "ready",
                                               !.chain = order,
                                               !.skip = Skipped(order)]]
  /\ UNCHANGED <<node, pause>>

Begin(q) ==
  /\ AllAwait
  /\ req[q].phase = "ready"
  /\ req' = [req EXCEPT ![q].phase = "running", ![q].left = ChainSeconds]
  /\ UNCHANGED <<node, pause>>

HopSeconds_own(q) == NodeSeconds
HopSeconds(q) == Smaller(NodeSeconds, req[q].left)

WorthTrying(seconds) == seconds >= MinSeconds

Engine(q) == Head(req[q].chain)

(* What is left to try after the current engine. *)
Rest_retried(q) == req[q].chain
Rest(q) == Tail(req[q].chain)

(* The next engine that is not paused. *)
HasHop(q) ==
  req[q].phase = "running" /\ req[q].chain # <<>> /\ Engine(q) \notin req[q].skip

SkipPaused(q) ==
  /\ req[q].phase = "running"
  /\ req[q].chain # <<>>
  /\ Engine(q) \in req[q].skip
  /\ req' = [req EXCEPT ![q].chain = Tail(@)]
  /\ UNCHANGED <<node, pause>>

Call(q) ==
  /\ HasHop(q)
  /\ WorthTrying(HopSeconds(q))
  /\ req' = [req EXCEPT ![q].phase = "calling", ![q].hop = HopSeconds(q),
                        ![q].tried = @ \cup {Engine(q)}]
  /\ UNCHANGED <<node, pause>>

SkipLate(q) ==
  /\ HasHop(q)
  /\ ~WorthTrying(HopSeconds(q))
  /\ req' = [req EXCEPT ![q].chain = Rest(q)]
  /\ UNCHANGED <<node, pause>>

GiveUp(q) ==
  /\ req[q].phase = "running"
  /\ req[q].chain = <<>>
  /\ req' = [req EXCEPT ![q].phase = "failed", ![q].left = 0,
                        ![q].skip = {}]
  /\ UNCHANGED <<node, pause>>

Succeeds(q) ==
  /\ AllAwait
  /\ req[q].phase = "calling"
  /\ node' = [node EXCEPT ![Engine(q)] = AfterSuccess(@)]
  /\ pause' = [pause EXCEPT ![Engine(q)] = 0]
  /\ req' = [req EXCEPT ![q] = [NoReq EXCEPT !.phase = "answered"]]

(* A failure is entered in the second table when it opens the breaker.     *)
Fails(q, failure) ==
  /\ AllAwait
  /\ req[q].phase = "calling"
  /\ node' = [node EXCEPT ![Engine(q)] = AfterFailure(@, failure)]
  /\ pause' = IF Opens(node[Engine(q)], failure)
              THEN [pause EXCEPT ![Engine(q)] = CoolDown] ELSE pause
  /\ req' = [req EXCEPT ![q].phase = "running", ![q].chain = Rest(q), ![q].hop = 0]

(* A background probe has come back. *)
Probe(n, up) ==
  /\ AllAwait
  /\ node' = [node EXCEPT ![n] = AfterProbe(@, up)]
  /\ pause' = IF up /\ Lifts(node[n]) THEN [pause EXCEPT ![n] = 0] ELSE pause
  /\ UNCHANGED req

(* Time passes while every request awaits something; wait_for ends a call  *)
(* whose budget is used up (Fails with "slow").                            *)
Tick ==
  /\ AllAwait
  /\ \A q \in Requests : req[q].phase = "calling" => req[q].hop > 0
  /\ node' = [n \in Engines |-> Aged(node[n])]
  /\ pause' = [n \in Engines |-> Less(pause[n])]
  /\ req' = [q \in Requests |->
               [req[q] EXCEPT !.left = Less(@), !.hop = Less(@)]]

Step(q) ==
  \/ Begin(q) \/ SkipPaused(q) \/ Call(q) \/ SkipLate(q) \/ GiveUp(q)
  \/ req[q].hop = 0 /\ Fails(q, "slow")

Next ==
  \/ Tick
  \/ \E q \in Requests :
       Start(q) \/ Step(q) \/ Succeeds(q) \/ \E f \in Failures : Fails(q, f)
  \/ \E n \in Engines, up \in BOOLEAN : Probe(n, up)

(* Time goes on between awaits, and the event loop gets to every request.  *)
Fairness == SF_vars(Tick) /\ \A q \in Requests : SF_vars(Step(q))

Spec     == Init /\ [][Next]_vars
FairSpec == Spec /\ Fairness

-----------------------------------------------------------------------------
(* Properties.                                                             *)

(* A request ends within its deadline (transcribe): no call is given more  *)
(* than is left of it.                                                     *)
WithinDeadline == \A q \in Requests : req[q].hop <= req[q].left

(* A transcription is only given up after an engine was called, even when  *)
(* all of them are paused: the failure text would reach the model as if    *)
(* the user had said it.                                                   *)
TriedBeforeFailing ==
  \A q \in Requests : req[q].phase = "failed" => req[q].tried # {}

(* An engine is not skipped for ever: once it stops failing (and whether   *)
(* or not probes go on), it is one day available, from then on.            *)
Trouble(n) ==
  \/ \E q \in Requests, f \in Failures : Fails(q, f) /\ Counts(f) /\ Engine(q) = n
  \/ Probe(n, FALSE)
RecoversByItself ==
  \A n \in Engines : <>[][~Trouble(n)]_vars => <>[]~CoolingDown(n)

(* Every request ends. *)
RequestsEnd ==
  \A q \in Requests :
    req[q].phase = "ready" ~> req[q].phase \in {"answered", "failed"}

(* The inductive invariant behind the safety properties. *)

(* A request that has not called any engine has all of its deadline, and   *)
(* an engine ahead that it will not skip.                                  *)
NotSkipped(q) == \E i \in DOMAIN req[q].chain : req[q].chain[i] \notin req[q].skip
TriedOrAhead ==
  \A q \in Requests :
    /\ req[q].phase = "ready" => NotSkipped(q)
    /\ req[q].phase = "running" =>
         req[q].tried # {} \/ (req[q].left = ChainSeconds /\ NotSkipped(q))
    /\ req[q].phase \in {"calling", "failed"} => req[q].tried # {}

CallsAreOpen ==
  \A q \in Requests :
    /\ req[q].phase = "calling" => req[q].chain # <<>>
    /\ req[q].phase # "calling" => req[q].hop = 0

Inv == TypeOK /\ WithinDeadline /\ TriedOrAhead /\ CallsAreOpen
=============================================================================
