--------------------------- MODULE AsrChainProofs ---------------------------
(***************************************************************************)
(* The safety properties of AsrChain, for every number of engines and      *)
(* requests and for all budgets: Inv is inductive.                         *)
(***************************************************************************)
EXTENDS AsrChain, TLAPS

-----------------------------------------------------------------------------
(* Every operation of the breaker leaves a node in a legal state.          *)
LEMMA FreshType == Fresh \in NodeStates
BY BreakerAssumption DEF Fresh, NodeStates

LEMMA AfterFailureType ==
  ASSUME NEW s \in NodeStates, NEW failure \in Failures
  PROVE  AfterFailure(s, failure) \in NodeStates
<1>1. Smaller(s.failures + 1, Threshold) \in 0..Threshold
  BY BreakerAssumption DEF Smaller, NodeStates
<1>2. CoolDown \in 0..CoolDown
  BY BreakerAssumption
<1>3. CASE Counts(failure)
  BY <1>1, <1>2, <1>3 DEF AfterFailure, NodeStates
<1>4. CASE ~Counts(failure)
  BY <1>4, FreshType DEF AfterFailure, AfterSuccess
<1>5. QED BY <1>3, <1>4

LEMMA AfterProbeType ==
  ASSUME NEW s \in NodeStates, NEW up \in BOOLEAN
  PROVE  AfterProbe(s, up) \in NodeStates
<1>1. /\ [s EXCEPT !.probe = DownFor] \in NodeStates
      /\ [s EXCEPT !.probe = 0] \in NodeStates
  BY BreakerAssumption DEF NodeStates
<1>2. QED BY <1>1, FreshType DEF AfterProbe

(* A time that is left stays within its bound. *)
LEMMA LessType ==
  ASSUME NEW bound \in Nat, NEW n \in 0..bound
  PROVE  Less(n) \in 0..bound
BY DEF Less

LEMMA AgedType ==
  ASSUME NEW s \in NodeStates
  PROVE  Aged(s) \in NodeStates
<1>1. Less(s.open) \in 0..CoolDown /\ Less(s.probe) \in 0..DownFor
  BY BreakerAssumption, LessType DEF NodeStates
<1>2. QED BY <1>1 DEF Aged, NodeStates

-----------------------------------------------------------------------------
(* What the invariant says of one request. *)
Ahead(r) == \E i \in DOMAIN r.chain : r.chain[i] \notin r.skip
Sound(r) ==
  /\ r \in Reqs
  /\ r.hop <= r.left
  /\ r.phase = "ready" => Ahead(r)
  /\ r.phase = "running" => r.tried # {} \/ (r.left = ChainSeconds /\ Ahead(r))
  /\ r.phase \in {"calling", "failed"} => r.tried # {}
  /\ r.phase = "calling" => r.chain # <<>>
  /\ r.phase # "calling" => r.hop = 0

LEMMA InvIsSound ==
  Inv <=> /\ node \in [Engines -> NodeStates]
          /\ pause \in [Engines -> 0..CoolDown]
          /\ req \in [Requests -> Reqs]
          /\ \A q \in Requests : Sound(req[q])
BY DEF Inv, TypeOK, WithinDeadline, TriedOrAhead, NotSkipped, CallsAreOpen, Sound, Ahead

LEMMA NoReqSound ==
  /\ Sound(NoReq) /\ NoReq \in Reqs
  /\ NoReq.hop = 0 /\ NoReq.left = 0 /\ NoReq.tried = {}
BY DEF NoReq, Sound, Reqs

LEMMA InitInv == Init => Inv
BY FreshType, BreakerAssumption, InvIsSound, NoReqSound DEF Init

(* Some engine of a chain is not skipped when a request starts. *)
LEMMA StartAhead ==
  ASSUME NEW order \in Orders
  PROVE  \E i \in DOMAIN order : order[i] \notin Skipped(order)
<1>1. order \in Seq(Engines) /\ order # <<>>
  BY AsrAssumption
<1>2. 1 \in DOMAIN order
  BY <1>1
<1>3. CASE \E m \in In(order) : ~CoolingDown(m)
  BY <1>3 DEF Skipped, In
<1>4. CASE \A m \in In(order) : CoolingDown(m)
  BY <1>2, <1>4 DEF Skipped
<1>5. QED BY <1>3, <1>4

(* Passing over an engine that is skipped leaves the one that is not. *)
LEMMA TailAhead ==
  ASSUME NEW chain \in Seq(Engines), chain # <<>>, NEW skip, Head(chain) \in skip,
         \E i \in DOMAIN chain : chain[i] \notin skip
  PROVE  /\ Tail(chain) \in Seq(Engines)
         /\ \E i \in DOMAIN Tail(chain) : Tail(chain)[i] \notin skip
<1>1. PICK i \in DOMAIN chain : chain[i] \notin skip
  OBVIOUS
<1>2. i # 1
  BY <1>1
<1>3. i - 1 \in DOMAIN Tail(chain) /\ Tail(chain)[i - 1] = chain[i]
  BY <1>1, <1>2
<1>4. QED BY <1>1, <1>3

(* The first hop of a request is always worth trying. *)
LEMMA FirstHop ==
  ASSUME NEW q \in Requests, req[q].left = ChainSeconds
  PROVE  WorthTrying(HopSeconds(q))
BY AsrAssumption DEF WorthTrying, HopSeconds, Smaller

(* A step that changes one request is judged by what it makes of it. *)
LEMMA OneRequest ==
  ASSUME Inv, NEW q \in Requests, NEW r, Sound(r), req' = [req EXCEPT ![q] = r],
         node' \in [Engines -> NodeStates], pause' \in [Engines -> 0..CoolDown]
  PROVE  Inv'
<1>1. r \in Reqs /\ req \in [Requests -> Reqs]
  BY InvIsSound DEF Sound
<1>2. req' \in [Requests -> Reqs]
  BY <1>1
<1>3. \A p \in Requests : Sound(req'[p])
  BY <1>1, InvIsSound
<1>4. /\ TypeOK'
      /\ WithinDeadline'
  BY <1>2, <1>3 DEF TypeOK, WithinDeadline, Sound
<1>5. TriedOrAhead' /\ CallsAreOpen'
  BY <1>3 DEF TriedOrAhead, CallsAreOpen, NotSkipped, Sound, Ahead
<1>6. QED BY <1>4, <1>5 DEF Inv

(* No step leaves the invariant. *)
LEMMA NextInv == Inv /\ [Next]_vars => Inv'
<1> SUFFICES ASSUME Inv, [Next]_vars PROVE Inv'
  OBVIOUS
<1>0. /\ node \in [Engines -> NodeStates]
      /\ pause \in [Engines -> 0..CoolDown]
      /\ req \in [Requests -> Reqs]
      /\ \A q \in Requests : Sound(req[q])
  BY InvIsSound
<1>1. CASE UNCHANGED vars
  BY <1>1 DEF vars, Inv, TypeOK, WithinDeadline, TriedOrAhead, NotSkipped, CallsAreOpen
<1>2. CASE Tick
  <2>1. node' \in [Engines -> NodeStates]
    BY <1>0, <1>2, AgedType DEF Tick
  <2>2. pause' \in [Engines -> 0..CoolDown]
    BY <1>0, <1>2, BreakerAssumption, LessType DEF Tick
  <2>3. ASSUME NEW q \in Requests
        PROVE  Sound(req'[q])
    <3>1. req'[q] = [req[q] EXCEPT !.left = Less(@), !.hop = Less(@)]
      BY <1>2 DEF Tick
    <3>2. /\ req[q].left \in Nat /\ req[q].hop \in Nat /\ req[q].hop <= req[q].left
          /\ req[q].phase # "running"
      BY <1>0, <1>2 DEF Tick, AllAwait, Sound, Reqs
    <3>3. /\ Less(req[q].left) \in Nat /\ Less(req[q].hop) \in Nat
          /\ Less(req[q].hop) <= Less(req[q].left)
          /\ req[q].hop = 0 => Less(req[q].hop) = 0
      BY <3>2 DEF Less
    <3>4. req'[q] \in Reqs
      BY <1>0, <3>1, <3>3 DEF Reqs
    <3>5. /\ req'[q].left = Less(req[q].left)
          /\ req'[q].hop = Less(req[q].hop)
          /\ req'[q].phase = req[q].phase /\ req'[q].tried = req[q].tried
          /\ req'[q].chain = req[q].chain /\ req'[q].skip = req[q].skip
      BY <1>0, <3>1 DEF Reqs
    <3>6. QED BY <1>0, <3>2, <3>3, <3>4, <3>5 DEF Sound, Ahead
  <2>4. req' \in [Requests -> Reqs]
    BY <1>2, <2>3 DEF Tick, Sound
  <2>5. TypeOK' /\ WithinDeadline'
    BY <2>1, <2>2, <2>3, <2>4 DEF TypeOK, WithinDeadline, Sound
  <2>6. TriedOrAhead' /\ CallsAreOpen'
    BY <2>3 DEF TriedOrAhead, CallsAreOpen, NotSkipped, Sound, Ahead
  <2>7. QED BY <2>5, <2>6 DEF Inv
<1>3. ASSUME NEW q \in Requests, Start(q) PROVE Inv'
  <2>1. PICK order \in Orders :
          req' = [req EXCEPT ![q] = [NoReq EXCEPT !.phase = "ready",
                                       !.chain = order, !.skip = Skipped(order)]]
    BY <1>3 DEF Start
  <2> DEFINE r == [NoReq EXCEPT !.phase = "ready", !.chain = order,
                                !.skip = Skipped(order)]
  <2>2. Skipped(order) \subseteq Engines /\ order \in Seq(Engines)
    BY AsrAssumption DEF Skipped, In
  <2>3. \E i \in DOMAIN order : order[i] \notin Skipped(order)
    BY StartAhead
  <2>4. r \in Reqs
    BY <2>2, NoReqSound DEF Reqs
  <2>5. /\ r.phase = "ready" /\ r.chain = order /\ r.skip = Skipped(order)
        /\ r.left = 0 /\ r.hop = 0
    BY NoReqSound DEF Reqs
  <2>6. Sound(r)
    BY <2>3, <2>4, <2>5 DEF Sound, Ahead
  <2>7. QED BY <1>0, <1>3, <2>1, <2>6, OneRequest DEF Start
<1>4. ASSUME NEW q \in Requests, Begin(q) PROVE Inv'
  <2> DEFINE r == [req[q] EXCEPT !.phase = "running", !.left = ChainSeconds]
  <2>1. req' = [req EXCEPT ![q] = r]
    BY <1>4 DEF Begin
  <2>2. r \in Reqs
    BY <1>0, AsrAssumption DEF Reqs
  <2>3. Sound(r)
    BY <1>0, <1>4, <2>2, AsrAssumption DEF Begin, Reqs, Sound, Ahead
  <2>4. QED BY <1>0, <1>4, <2>1, <2>3, OneRequest DEF Begin
<1>5. ASSUME NEW q \in Requests, SkipPaused(q) PROVE Inv'
  <2> DEFINE r == [req[q] EXCEPT !.chain = Tail(@)]
  <2>1. req' = [req EXCEPT ![q] = r]
    BY <1>5 DEF SkipPaused
  <2>2. req[q].chain \in Seq(Engines) /\ Tail(req[q].chain) \in Seq(Engines)
    BY <1>0, <1>5 DEF SkipPaused, Reqs
  <2>3. r \in Reqs
    BY <1>0, <2>2 DEF Reqs
  <2>4. Ahead(req[q]) =>
          \E i \in DOMAIN Tail(req[q].chain) : Tail(req[q].chain)[i] \notin req[q].skip
    BY <1>5, <2>2, TailAhead DEF SkipPaused, Engine, Ahead
  <2>5. Ahead(req[q]) => Ahead(r)
    BY <1>0, <2>4 DEF Ahead, Reqs
  <2>6. /\ r.phase = "running" /\ r.left = req[q].left
        /\ r.hop = req[q].hop /\ r.tried = req[q].tried
    BY <1>0, <1>5 DEF SkipPaused, Reqs
  <2>7. Sound(r)
    BY <1>0, <1>5, <2>3, <2>5, <2>6 DEF SkipPaused, Sound
  <2>8. QED BY <1>0, <1>5, <2>1, <2>7, OneRequest DEF SkipPaused
<1>6. ASSUME NEW q \in Requests, Call(q) PROVE Inv'
  <2> DEFINE r == [req[q] EXCEPT !.phase = "calling", !.hop = HopSeconds(q),
                                 !.tried = @ \cup {Engine(q)}]
  <2>1. req' = [req EXCEPT ![q] = r]
    BY <1>6 DEF Call
  <2>2. /\ Engine(q) \in Engines
        /\ HopSeconds(q) \in Nat /\ HopSeconds(q) <= req[q].left
    BY <1>0, <1>6, AsrAssumption DEF Call, HasHop, Engine, HopSeconds, Smaller, Reqs
  <2>3. r \in Reqs
    BY <1>0, <2>2 DEF Reqs
  <2>4. Sound(r)
    BY <1>0, <1>6, <2>2, <2>3 DEF Call, HasHop, Sound, Reqs
  <2>5. QED BY <1>0, <1>6, <2>1, <2>4, OneRequest DEF Call
<1>7. ASSUME NEW q \in Requests, SkipLate(q) PROVE Inv'
  <2> DEFINE r == [req[q] EXCEPT !.chain = Rest(q)]
  <2>1. req' = [req EXCEPT ![q] = r]
    BY <1>7 DEF SkipLate
  <2>2. req[q].phase = "running" /\ req[q].tried # {}
    BY <1>0, <1>7, FirstHop DEF SkipLate, HasHop, Sound
  <2>3. Rest(q) \in Seq(Engines)
    BY <1>0, <1>7 DEF SkipLate, HasHop, Rest, Reqs
  <2>4. r \in Reqs
    BY <1>0, <2>3 DEF Reqs
  <2>5. Sound(r)
    BY <1>0, <2>2, <2>4 DEF Sound, Reqs
  <2>6. QED BY <1>0, <1>7, <2>1, <2>5, OneRequest DEF SkipLate
<1>8. ASSUME NEW q \in Requests, GiveUp(q) PROVE Inv'
  <2> DEFINE r == [req[q] EXCEPT !.phase = "failed", !.left = 0, !.skip = {}]
  <2>1. req' = [req EXCEPT ![q] = r]
    BY <1>8 DEF GiveUp
  <2>2. req[q].tried # {} /\ req[q].hop = 0
    BY <1>0, <1>8 DEF GiveUp, Sound, Ahead
  <2>3. r \in Reqs
    BY <1>0 DEF Reqs
  <2>4. Sound(r)
    BY <1>0, <2>2, <2>3 DEF Sound, Reqs
  <2>5. QED BY <1>0, <1>8, <2>1, <2>4, OneRequest DEF GiveUp
<1>9. ASSUME NEW q \in Requests, Succeeds(q) PROVE Inv'
  <2> DEFINE r == [NoReq EXCEPT !.phase = "answered"]
  <2>0. r \in Reqs /\ r.phase = "answered" /\ r.left = 0 /\ r.hop = 0
    BY NoReqSound DEF Reqs
  <2>1. Sound(r)
    BY <2>0 DEF Sound
  <2>2. node' \in [Engines -> NodeStates]
    BY <1>0, <1>9, FreshType DEF Succeeds, AfterSuccess
  <2>3. pause' \in [Engines -> 0..CoolDown]
    <3>1. 0 \in 0..CoolDown
      BY BreakerAssumption
    <3>2. QED BY <1>0, <1>9, <3>1 DEF Succeeds
  <2>4. QED BY <1>9, <2>1, <2>2, <2>3, OneRequest DEF Succeeds
<1>10. ASSUME NEW q \in Requests, NEW f \in Failures, Fails(q, f) PROVE Inv'
  <2> DEFINE r == [req[q] EXCEPT !.phase = "running", !.chain = Rest(q), !.hop = 0]
  <2>1. req' = [req EXCEPT ![q] = r]
    BY <1>10 DEF Fails
  <2>2. req[q].tried # {} /\ req[q].chain # <<>>
    BY <1>0, <1>10 DEF Fails, Sound
  <2>3. Rest(q) \in Seq(Engines) /\ Engine(q) \in Engines
    BY <1>0, <2>2 DEF Rest, Engine, Reqs
  <2>4. r \in Reqs
    BY <1>0, <2>3 DEF Reqs
  <2>5. Sound(r)
    BY <1>0, <2>2, <2>4 DEF Sound, Reqs
  <2>6. AfterFailure(node[Engine(q)], f) \in NodeStates
    BY <1>0, <2>3, AfterFailureType
  <2>7. node' \in [Engines -> NodeStates]
    BY <1>0, <1>10, <2>3, <2>6 DEF Fails
  <2>8. CoolDown \in 0..CoolDown
    BY BreakerAssumption
  <2>9. pause' \in [Engines -> 0..CoolDown]
    BY <1>0, <1>10, <2>8 DEF Fails
  <2>10. QED BY <2>1, <2>5, <2>7, <2>9, OneRequest
<1>11. ASSUME NEW n \in Engines, NEW up \in BOOLEAN, Probe(n, up) PROVE Inv'
  <2>1. node' \in [Engines -> NodeStates]
    BY <1>0, <1>11, AfterProbeType DEF Probe
  <2>2. pause' \in [Engines -> 0..CoolDown]
    BY <1>0, <1>11, BreakerAssumption DEF Probe
  <2>3. QED
    BY <1>11, <2>1, <2>2
       DEF Probe, Inv, TypeOK, WithinDeadline, TriedOrAhead, NotSkipped, CallsAreOpen
<1>12. ASSUME NEW q \in Requests, Step(q) PROVE Inv'
  <2>1. "slow" \in Failures
    BY DEF Failures
  <2>2. QED BY <1>4, <1>5, <1>6, <1>7, <1>8, <1>10, <1>12, <2>1 DEF Step
<1>13. QED
  BY <1>1, <1>2, <1>3, <1>9, <1>10, <1>11, <1>12 DEF Next

(* The chain's inductive invariant holds in every reachable state. *)
THEOREM Invariance == Spec => []Inv
BY InitInv, NextInv, PTL DEF Spec

(* Node states, pauses and requests keep their types. *)
THEOREM TypeCorrect == Spec => []TypeOK
<1>1. Inv => TypeOK
  BY DEF Inv
<1>2. QED BY Invariance, <1>1, PTL

(* A transcription's calls end within its deadline. *)
THEOREM DeadlineKept == Spec => []WithinDeadline
<1>1. Inv => WithinDeadline
  BY DEF Inv
<1>2. QED BY Invariance, <1>1, PTL

(* A transcription is not given up without a call, even if every engine is *)
(* paused.                                                                 *)
THEOREM NeverUntried == Spec => []TriedBeforeFailing
<1>1. Inv => TriedBeforeFailing
  BY DEF Inv, TriedOrAhead, TriedBeforeFailing
<1>2. QED BY Invariance, <1>1, PTL
=============================================================================
