------------------------------ MODULE TtsChain ------------------------------
(***************************************************************************)
(* Speech synthesis: requests, each in a thread of its own, go through a   *)
(* chain of engines under one deadline and share the breaker TTS_BREAKER   *)
(* with the background probes.  A request of its own accord leaves out the *)
(* engines that are cooling down; an engine that was named is tried all    *)
(* the same, then its partners, then Edge, for which a tail of the         *)
(* deadline is kept.                                                       *)
(***************************************************************************)
EXTENDS UpstreamBreaker, Sequences

CONSTANTS
  Engines,
  Edge,          \* the last resort
  Chains,        \* the orders of engines for a request that names none
  Named,         \* the engines that are named
  PartnerLists,  \* the partners of a named engine: sequences of engines
  Requests,
  NodeSeconds,   \* tts_node_seconds of the text
  EdgeSeconds,   \* tts_edge_seconds of the text
  HopsSeconds,   \* tts_chain_seconds of the text, without Edge's tail
  MinSeconds,    \* worth_trying: less than this is not worth a hop
  Ends           \* deadlines: the chain's own, or what /tts/stream has left

ASSUME TtsAssumption ==
  /\ Edge \in Engines
  /\ Named \subseteq Engines
  /\ Chains \subseteq Seq(Engines) \ {<<>>}
  /\ PartnerLists \subseteq Seq(Engines)
  /\ {NodeSeconds, EdgeSeconds, HopsSeconds, MinSeconds} \subseteq Nat \ {0}
  /\ Ends \subseteq 0..(HopsSeconds + EdgeSeconds)
  /\ MinSeconds <= Smaller(EdgeSeconds, NodeSeconds)

VARIABLES
  node,     \* node[n]: TTS_BREAKER
  req       \* req[q]: a request: see Reqs

vars == <<node, req>>

-----------------------------------------------------------------------------
(* plan: the hops ahead, with the engines tried although they are cooling; *)
(* left: of the deadline, tail: its part kept for Edge; hop: of the call   *)
(* under way; tried: the engines called; edge: a named request with Edge   *)
(* at its end.                                                             *)
Hops == [target : Engines, explicit : BOOLEAN]
Reqs == [phase : {"idle", "running", "calling", "answered", "failed"},
         plan : Seq(Hops), left : Nat, tail : Nat, hop : Nat,
         tried : SUBSET Engines, edge : BOOLEAN]

NoReq == [phase |-> "idle", plan |-> <<>>, left |-> 0, tail |-> 0, hop |-> 0,
          tried |-> {}, edge |-> FALSE]

TypeOK ==
  /\ node \in [Engines -> NodeStates]
  /\ req \in [Requests -> Reqs]

Init ==
  /\ node = [n \in Engines |-> Fresh]
  /\ req = [q \in Requests |-> NoReq]

HopsOf(engines, explicit) ==
  [i \in DOMAIN engines |-> [target |-> engines[i], explicit |-> explicit]]

(* _synthesize_chain: when all engines are cooling, all are tried.         *)
AutoPlan(chain) ==
  HopsOf(chain, \A i \in DOMAIN chain : Cooling(node[chain[i]]))

(* _synthesize_targeted, for partners other than n (the code passes over n *)
(* itself in their list).                                                  *)
EdgeHop_polite == HopsOf(<<Edge>>, FALSE)
EdgeHop == HopsOf(<<Edge>>, TRUE)
NamedPlan(n, partners, edge) ==
  HopsOf(<<n>>, TRUE)
    \o HopsOf(partners, FALSE)
    \o (IF edge THEN EdgeHop ELSE <<>>)

Begin(q, plan, edge) ==
  /\ req[q].phase = "idle"
  /\ \E end \in Ends :
       req' = [req EXCEPT ![q] =
                 [NoReq EXCEPT !.phase = "running", !.plan = plan, !.left = end,
                               !.tail = Smaller(EdgeSeconds, end), !.edge = edge]]
  /\ UNCHANGED node

StartAuto(q) == \E chain \in Chains : Begin(q, AutoPlan(chain), FALSE)

StartNamed(q) ==
  \E n \in Named, partners \in PartnerLists, edge \in BOOLEAN :
    /\ \A i \in DOMAIN partners : partners[i] # n
    /\ Begin(q, NamedPlan(n, partners, edge /\ n # Edge), edge /\ n # Edge)

-----------------------------------------------------------------------------
Target(q) == Head(req[q].plan).target

(* _hop. *)
Remaining(q) ==
  IF Target(q) = Edge THEN req[q].left
  ELSE IF req[q].tail <= req[q].left THEN req[q].left - req[q].tail ELSE 0

HopSeconds_own(q) == IF Target(q) = Edge THEN EdgeSeconds ELSE NodeSeconds
HopSeconds(q) ==
  Smaller(IF Target(q) = Edge THEN EdgeSeconds ELSE NodeSeconds, Remaining(q))

WorthTrying(seconds) == seconds >= MinSeconds

MayTry(q) ==
  /\ Cooling(node[Target(q)]) => Head(req[q].plan).explicit
  /\ WorthTrying(HopSeconds(q))

HasHop(q) == req[q].phase = "running" /\ req[q].plan # <<>>

Call(q) ==
  /\ HasHop(q)
  /\ MayTry(q)
  /\ req' = [req EXCEPT ![q].phase = "calling", ![q].hop = HopSeconds(q),
                        ![q].tried = @ \cup {Target(q)}]
  /\ UNCHANGED node

Rest_retried(q) == req[q].plan
Rest(q) == Tail(req[q].plan)

Skip(q) ==
  /\ HasHop(q)
  /\ ~MayTry(q)
  /\ req' = [req EXCEPT ![q].plan = Rest(q)]
  /\ UNCHANGED node

GiveUp(q) ==
  /\ req[q].phase = "running"
  /\ req[q].plan = <<>>
  /\ req' = [req EXCEPT ![q].phase = "failed"]
  /\ UNCHANGED node

Succeeds(q) ==
  /\ req[q].phase = "calling"
  /\ node' = [node EXCEPT ![Target(q)] = AfterSuccess(@)]
  /\ req' = [req EXCEPT ![q].phase = "answered", ![q].hop = 0]

(* A call that is cut off by call_with_deadline goes on in its thread, but *)
(* what comes of it is not looked at.                                      *)
Fails(q, failure) ==
  /\ req[q].phase = "calling"
  /\ node' = [node EXCEPT ![Target(q)] = AfterFailure(@, failure)]
  /\ req' = [req EXCEPT ![q].phase = "running", ![q].plan = Rest(q), ![q].hop = 0]

Probe(n, up) ==
  /\ n # Edge
  /\ node' = [node EXCEPT ![n] = AfterProbe(@, up)]
  /\ UNCHANGED req

(* The code between two calls takes no time, a call no more than its hop;  *)
(* and a request that has ended makes room for another.                    *)
Tick ==
  /\ \A q \in Requests :
       /\ req[q].phase # "running"
       /\ req[q].phase = "calling" => req[q].hop > 0
  /\ node' = [n \in Engines |-> Aged(node[n])]
  /\ req' = [q \in Requests |->
               IF req[q].phase = "calling"
               THEN [req[q] EXCEPT !.left = Less(@), !.hop = Less(@)]
               ELSE NoReq]

Step(q) ==
  \/ Call(q) \/ Skip(q) \/ GiveUp(q)
  \/ req[q].hop = 0 /\ Fails(q, "slow")

Next ==
  \/ Tick
  \/ \E q \in Requests :
       \/ StartAuto(q) \/ StartNamed(q) \/ Step(q) \/ Succeeds(q)
       \/ \E f \in Failures : Fails(q, f)
  \/ \E n \in Engines, up \in BOOLEAN : Probe(n, up)

(* Threads run on, and time goes on once they all wait; no more is asked,  *)
(* because a thread that could run holds the clock back.                   *)
Fairness == WF_vars(Tick \/ \E q \in Requests : Step(q))

Spec     == Init /\ [][Next]_vars
FairSpec == Spec /\ Fairness

-----------------------------------------------------------------------------
(* Properties.                                                             *)

(* No call is given more time than the request has left, so that a request *)
(* ends in time although its hops' own budgets add up to more.             *)
WithinDeadline == \A q \in Requests : req[q].hop <= req[q].left

(* Named engines and their partners cannot use up, by hanging or by        *)
(* cooling down, what the last resort needs: a named request does not fail *)
(* before Edge was called, if its deadline had room for Edge at all.       *)
EdgeIsTried ==
  \A q \in Requests :
    req[q].phase = "failed" /\ req[q].edge /\ req[q].tail >= MinSeconds
      => Edge \in req[q].tried

(* Every request is answered or fails. *)
RequestsEnd ==
  \A q \in Requests :
    req[q].phase = "running" ~> req[q].phase \in {"answered", "failed"}

(* The inductive invariant behind the safety properties. *)

(* The last hop of a named request that may fall back is Edge's, and until *)
(* it is reached the deadline holds Edge's tail beside the call under way. *)
EdgeAhead ==
  \A q \in Requests : req[q].edge /\ Edge \notin req[q].tried =>
    /\ req[q].phase \in {"running", "calling"} =>
         /\ req[q].hop + req[q].tail <= req[q].left
         /\ req[q].tail <= EdgeSeconds
         /\ req[q].plan # <<>> =>
              req[q].plan[Len(req[q].plan)] = [target |-> Edge, explicit |-> TRUE]
    /\ req[q].plan = <<>> => req[q].tail < MinSeconds

CallsAreOpen ==
  \A q \in Requests :
    /\ req[q].phase = "calling" => req[q].plan # <<>> /\ Target(q) \in req[q].tried
    /\ req[q].phase # "calling" => req[q].hop = 0
    /\ req[q].phase = "failed" => req[q].plan = <<>>

Inv == TypeOK /\ WithinDeadline /\ EdgeAhead /\ CallsAreOpen
=============================================================================
