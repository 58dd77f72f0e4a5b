--------------------------- MODULE TtsChainProofs ---------------------------
(***************************************************************************)
(* The safety properties of TtsChain, for every set of engines, chains,    *)
(* partners and requests and for all budgets: Inv is inductive.            *)
(***************************************************************************)
EXTENDS TtsChain, SequenceTheorems, TLAPS

-----------------------------------------------------------------------------
(* Every operation of the breaker leaves a node in a legal state.          *)
LEMMA FreshType == Fresh \in NodeStates
BY BreakerAssumption DEF Fresh, NodeStates

LEMMA AfterFailureType ==
  ASSUME NEW s \in NodeStates, NEW failure \in Failures
  PROVE  AfterFailure(s, failure) \in NodeStates
<1>1. Smaller(s.failures + 1, Threshold) \in 0..Threshold
  BY BreakerAssumption DEF Smaller, NodeStates
<1>2. CoolDown \in 0..CoolDown
  BY BreakerAssumption
<1>3. CASE Counts(failure)
  BY <1>1, <1>2, <1>3 DEF AfterFailure, NodeStates
<1>4. CASE ~Counts(failure)
  BY <1>4, FreshType DEF AfterFailure, AfterSuccess
<1>5. QED BY <1>3, <1>4

LEMMA AfterProbeType ==
  ASSUME NEW s \in NodeStates, NEW up \in BOOLEAN
  PROVE  AfterProbe(s, up) \in NodeStates
<1>1. /\ [s EXCEPT !.probe = DownFor] \in NodeStates
      /\ [s EXCEPT !.probe = 0] \in NodeStates
  BY BreakerAssumption DEF NodeStates
<1>2. QED BY <1>1, FreshType DEF AfterProbe

(* A time that is left stays within its bound. *)
LEMMA LessType ==
  ASSUME NEW bound \in Nat, NEW n \in 0..bound
  PROVE  Less(n) \in 0..bound
BY DEF Less

LEMMA AgedType ==
  ASSUME NEW s \in NodeStates
  PROVE  Aged(s) \in NodeStates
<1>1. Less(s.open) \in 0..CoolDown /\ Less(s.probe) \in 0..DownFor
  BY BreakerAssumption, LessType DEF NodeStates
<1>2. QED BY <1>1 DEF Aged, NodeStates

-----------------------------------------------------------------------------
(* What the invariant says of one request. *)
Pending(r) == r.edge /\ Edge \notin r.tried
EdgeLast(plan) == plan[Len(plan)] = [target |-> Edge, explicit |-> TRUE]
TailKept(r) == r.hop + r.tail <= r.left /\ r.tail <= EdgeSeconds
Sound(r) ==
  /\ r \in Reqs
  /\ r.hop <= r.left
  /\ Pending(r) /\ r.phase \in {"running", "calling"} =>
       TailKept(r) /\ (r.plan # <<>> => EdgeLast(r.plan))
  /\ Pending(r) /\ r.plan = <<>> => r.tail < MinSeconds
  /\ r.phase = "calling" => r.plan # <<>> /\ Head(r.plan).target \in r.tried
  /\ r.phase # "calling" => r.hop = 0
  /\ r.phase = "failed" => r.plan = <<>>

LEMMA InvIsSound ==
  Inv <=> /\ node \in [Engines -> NodeStates]
          /\ req \in [Requests -> Reqs]
          /\ \A q \in Requests : Sound(req[q])
BY DEF Inv, TypeOK, WithinDeadline, EdgeAhead, CallsAreOpen, Target, Sound, Pending,
       TailKept, EdgeLast

LEMMA NoReqSound ==
  /\ Sound(NoReq) /\ NoReq \in Reqs
  /\ NoReq.hop = 0 /\ NoReq.left = 0 /\ NoReq.tried = {} /\ ~NoReq.edge
BY DEF NoReq, Sound, Reqs, Pending

LEMMA InitInv == Init => Inv
BY FreshType, BreakerAssumption, InvIsSound, NoReqSound DEF Init

-----------------------------------------------------------------------------
(* Plans. *)

LEMMA HopsOfType ==
  ASSUME NEW engines \in Seq(Engines), NEW explicit \in BOOLEAN
  PROVE  HopsOf(engines, explicit) \in Seq(Hops)
<1>1. Len(engines) \in Nat /\ DOMAIN engines = 1..Len(engines)
  BY LenProperties
<1>2. \A i \in 1..Len(engines) : engines[i] \in Engines
  BY ElementOfSeq
<1>3. HopsOf(engines, explicit) \in [1..Len(engines) -> Hops]
  BY <1>1, <1>2 DEF HopsOf, Hops
<1>4. QED BY <1>1, <1>3, SeqDef

LEMMA OneHop ==
  ASSUME NEW n \in Engines
  PROVE  /\ HopsOf(<<n>>, TRUE) \in Seq(Hops)
         /\ Len(HopsOf(<<n>>, TRUE)) = 1
         /\ HopsOf(<<n>>, TRUE)[1] = [target |-> n, explicit |-> TRUE]
<1>1. <<n>> \in Seq(Engines) /\ Len(<<n>>) = 1 /\ <<n>>[1] = n
  OBVIOUS
<1>2. HopsOf(<<n>>, TRUE) \in Seq(Hops)
  BY <1>1, HopsOfType
<1>3. DOMAIN <<n>> = 1..1
  BY <1>1, LenProperties
<1>4. DOMAIN HopsOf(<<n>>, TRUE) = 1..1
  BY <1>3 DEF HopsOf
<1>5. Len(HopsOf(<<n>>, TRUE)) = 1
  <2>1. PICK m \in Nat : Len(HopsOf(<<n>>, TRUE)) = m /\ 1..1 = 1..m
    BY <1>2, <1>4, LenProperties, Zenon
  <2>2. 1 \in 1..1
    OBVIOUS
  <2>3. 1 \in 1..m
    BY <2>1, <2>2, Zenon
  <2>4. m \in 1..m
    BY <2>3
  <2>5. m \in 1..1
    BY <2>1, <2>4, Zenon
  <2>6. m = 1
    BY <2>5
  <2>7. QED BY <2>1, <2>6
<1>6. HopsOf(<<n>>, TRUE)[1] = [target |-> n, explicit |-> TRUE]
  <2>1. 1 \in DOMAIN <<n>>
    BY <1>3
  <2>2. HopsOf(<<n>>, TRUE)[1] = [target |-> <<n>>[1], explicit |-> TRUE]
    BY <2>1, Zenon DEF HopsOf
  <2>3. QED BY <1>1, <2>2
<1>7. QED BY <1>2, <1>5, <1>6

LEMMA EdgeHopIs ==
  /\ EdgeHop \in Seq(Hops) /\ Len(EdgeHop) = 1
  /\ EdgeHop[1] = [target |-> Edge, explicit |-> TRUE]
BY TtsAssumption, OneHop DEF EdgeHop

(* A request of its own accord has a plan that is a plan. *)
LEMMA AutoPlanType ==
  ASSUME NEW chain \in Chains
  PROVE  AutoPlan(chain) \in Seq(Hops)
BY TtsAssumption, HopsOfType DEF AutoPlan

(* A named request's plan ends with Edge, if it may fall back at all. *)
LEMMA NamedPlanEndsWithEdge ==
  ASSUME NEW n \in Named, NEW partners \in PartnerLists, NEW edge \in BOOLEAN
  PROVE  /\ NamedPlan(n, partners, edge) \in Seq(Hops)
         /\ NamedPlan(n, partners, edge) # <<>>
         /\ edge => EdgeLast(NamedPlan(n, partners, edge))
<1> DEFINE first == HopsOf(<<n>>, TRUE)
           rest  == HopsOf(partners, FALSE)
           last  == IF edge THEN EdgeHop ELSE <<>>
<1>1. first \in Seq(Hops) /\ Len(first) = 1
  BY TtsAssumption, OneHop
<1>2. rest \in Seq(Hops)
  BY TtsAssumption, HopsOfType
<1>3. last \in Seq(Hops)
  BY EdgeHopIs
<1>4. NamedPlan(n, partners, edge) = (first \o rest) \o last
  BY DEF NamedPlan
<1> HIDE DEF first, rest, last
<1>5. first \o rest \in Seq(Hops) /\ Len(first \o rest) > 0
  BY <1>1, <1>2
<1>6. (first \o rest) \o last \in Seq(Hops) /\ (first \o rest) \o last # <<>>
  BY <1>3, <1>5
<1>7. ASSUME edge PROVE EdgeLast((first \o rest) \o last)
  <2>1. Len(last) = 1 /\ last[1] = [target |-> Edge, explicit |-> TRUE]
    BY <1>7, EdgeHopIs DEF last
  <2> DEFINE front == first \o rest
  <2>2. /\ front \in Seq(Hops) /\ Len(front) \in Nat
    BY <1>5, LenProperties
  <2> HIDE DEF front
  <2>3. /\ Len(front \o last) = Len(front) + 1
        /\ (front \o last)[Len(front) + 1] = last[1]
    <3>1. /\ Len(front \o last) = Len(front) + Len(last)
          /\ \A i \in 1..Len(front) + Len(last) : (front \o last)[i] =
               IF i <= Len(front) THEN front[i] ELSE last[i - Len(front)]
      BY <1>3, <2>2, ConcatProperties
    <3>2. Len(front) + 1 \in 1..Len(front) + Len(last)
      BY <2>1, <2>2
    <3>3. /\ ~(Len(front) + 1 <= Len(front))
          /\ Len(front) + 1 - Len(front) = 1
      BY <2>2
    <3>4. (front \o last)[Len(front) + 1] = last[Len(front) + 1 - Len(front)]
      BY <3>1, <3>2, <3>3
    <3>5. (front \o last)[Len(front) + 1] = last[1]
      BY <3>3, <3>4, Zenon
    <3>6. QED BY <2>1, <3>1, <3>5, Zenon
  <2>4. EdgeLast(front \o last)
    BY <2>1, <2>3 DEF EdgeLast
  <2>5. QED BY <2>4 DEF front
<1>8. QED BY <1>4, <1>6, <1>7

LEMMA TailOfPlan ==
  ASSUME NEW plan \in Seq(Hops), plan # <<>>
  PROVE  /\ Tail(plan) \in Seq(Hops)
         /\ Head(plan) \in Hops
         /\ Tail(plan) # <<>> /\ EdgeLast(plan) => EdgeLast(Tail(plan))
         /\ Tail(plan) = <<>> /\ EdgeLast(plan) =>
              Head(plan) = [target |-> Edge, explicit |-> TRUE]
<1>1. Tail(plan) \in Seq(Hops) /\ Head(plan) \in Hops
  BY HeadTailProperties
<1>2. /\ Len(plan) \in Nat \ {0} /\ Head(plan) = plan[1]
      /\ Len(Tail(plan)) = Len(plan) - 1
      /\ \A i \in 1..(Len(plan) - 1) : Tail(plan)[i] = plan[i + 1]
  OBVIOUS
<1>3. ASSUME Tail(plan) # <<>>, EdgeLast(plan) PROVE EdgeLast(Tail(plan))
  <2>1. Len(Tail(plan)) \in Nat \ {0}
    BY <1>1, <1>3, EmptySeq
  <2>2. Tail(plan)[Len(plan) - 1] = plan[Len(plan)]
    BY <1>2, <2>1
  <2>3. QED BY <1>2, <1>3, <2>2 DEF EdgeLast
<1>4. ASSUME Tail(plan) = <<>>, EdgeLast(plan)
      PROVE  Head(plan) = [target |-> Edge, explicit |-> TRUE]
  <2>1. Len(Tail(plan)) = 0
    BY <1>4, EmptySeq
  <2>2. Len(plan) \in Nat /\ Len(plan) - 1 = 0
    BY <1>2, <2>1, Zenon
  <2>3. Len(plan) = 1
    BY <2>2
  <2>4. QED BY <1>2, <1>4, <2>3 DEF EdgeLast
<1>5. QED BY <1>1, <1>3, <1>4

-----------------------------------------------------------------------------
(* A step that changes one request is judged by what it makes of it. *)
LEMMA OneRequest ==
  ASSUME Inv, NEW q \in Requests, NEW r, Sound(r), req' = [req EXCEPT ![q] = r],
         node' \in [Engines -> NodeStates]
  PROVE  Inv'
<1>1. r \in Reqs /\ req \in [Requests -> Reqs]
  BY InvIsSound DEF Sound
<1>2. req' \in [Requests -> Reqs]
  BY <1>1
<1>3. \A p \in Requests : Sound(req'[p])
  BY <1>1, InvIsSound
<1>4. /\ TypeOK'
      /\ WithinDeadline'
  BY <1>2, <1>3 DEF TypeOK, WithinDeadline, Sound
<1>5. EdgeAhead' /\ CallsAreOpen'
  BY <1>3 DEF EdgeAhead, CallsAreOpen, Target, Sound, Pending, TailKept, EdgeLast
<1>6. QED BY <1>4, <1>5 DEF Inv

(* What a call may use, and what it leaves for Edge. *)
LEMMA HopFits ==
  ASSUME NEW q \in Requests, Sound(req[q]), Target(q) \in Engines
  PROVE  /\ HopSeconds(q) \in Nat /\ HopSeconds(q) <= req[q].left
         /\ Target(q) # Edge /\ req[q].tail <= req[q].left =>
              HopSeconds(q) + req[q].tail <= req[q].left
         /\ Target(q) = Edge /\ TailKept(req[q]) => HopSeconds(q) >= req[q].tail
<1>1. req[q].left \in Nat /\ req[q].tail \in Nat /\ req[q].hop \in Nat
  BY DEF Sound, Reqs
<1>2. /\ Remaining(q) \in Nat /\ Remaining(q) <= req[q].left
      /\ Target(q) # Edge /\ req[q].tail <= req[q].left =>
           Remaining(q) + req[q].tail = req[q].left
      /\ Target(q) = Edge => Remaining(q) = req[q].left
  BY <1>1 DEF Remaining
<1>3. NodeSeconds \in Nat /\ EdgeSeconds \in Nat
  BY TtsAssumption
<1>4. QED BY <1>1, <1>2, <1>3 DEF HopSeconds, Smaller, TailKept

(* No step leaves the invariant. *)
LEMMA NextInv == Inv /\ [Next]_vars => Inv'
<1> SUFFICES ASSUME Inv, [Next]_vars PROVE Inv'
  OBVIOUS
<1>0. /\ node \in [Engines -> NodeStates]
      /\ req \in [Requests -> Reqs]
      /\ \A q \in Requests : Sound(req[q])
  BY InvIsSound
<1>1. CASE UNCHANGED vars
  BY <1>1 DEF vars, Inv, TypeOK, WithinDeadline, EdgeAhead, CallsAreOpen, Target
<1>2. CASE Tick
  <2>1. node' \in [Engines -> NodeStates]
    BY <1>0, <1>2, AgedType DEF Tick
  <2>3. ASSUME NEW q \in Requests
        PROVE  Sound(req'[q])
    <3>1. CASE req[q].phase # "calling"
      BY <1>2, <3>1, NoReqSound DEF Tick
    <3>2. CASE req[q].phase = "calling"
      <4> DEFINE r == [req[q] EXCEPT !.left = Less(@), !.hop = Less(@)]
      <4>1. req'[q] = r
        BY <1>2, <3>2 DEF Tick
      <4>2. /\ req[q].left \in Nat /\ req[q].hop \in Nat /\ req[q].tail \in Nat
            /\ req[q].hop <= req[q].left /\ req[q].hop > 0
        BY <1>0, <1>2, <3>2 DEF Tick, Sound, Reqs
      <4>3. /\ Less(req[q].left) = req[q].left - 1 /\ Less(req[q].left) \in Nat
            /\ Less(req[q].hop) = req[q].hop - 1 /\ Less(req[q].hop) \in Nat
        BY <4>2 DEF Less
      <4>4. r \in Reqs
        BY <1>0, <4>3 DEF Reqs
      <4>5. /\ r.left = req[q].left - 1 /\ r.hop = req[q].hop - 1
            /\ r.phase = req[q].phase /\ r.plan = req[q].plan /\ r.tail = req[q].tail
            /\ r.tried = req[q].tried /\ r.edge = req[q].edge
        BY <1>0, <4>3 DEF Reqs
      <4>6. TailKept(req[q]) => TailKept(r)
        BY <4>2, <4>5 DEF TailKept
      <4> HIDE DEF r
      <4>7. Sound(r)
        BY <1>0, <3>2, <4>2, <4>4, <4>5, <4>6 DEF Sound, Pending
      <4>8. QED BY <4>1, <4>7
    <3>3. QED BY <3>1, <3>2
  <2>4. req' \in [Requests -> Reqs]
    BY <1>2, <2>3 DEF Tick, Sound
  <2>5. TypeOK' /\ WithinDeadline'
    BY <2>1, <2>3, <2>4 DEF TypeOK, WithinDeadline, Sound
  <2>6. EdgeAhead' /\ CallsAreOpen'
    BY <2>3 DEF EdgeAhead, CallsAreOpen, Target, Sound, Pending, TailKept, EdgeLast
  <2>7. QED BY <2>5, <2>6 DEF Inv
<1>3. ASSUME NEW q \in Requests, NEW plan \in Seq(Hops), NEW edge \in BOOLEAN,
             edge => plan # <<>> /\ EdgeLast(plan), Begin(q, plan, edge)
      PROVE  Inv'
  <2>1. PICK end \in Ends :
          req' = [req EXCEPT ![q] =
                   [NoReq EXCEPT !.phase = "running", !.plan = plan, !.left = end,
                                 !.tail = Smaller(EdgeSeconds, end), !.edge = edge]]
    BY <1>3 DEF Begin
  <2> DEFINE r == [NoReq EXCEPT !.phase = "running", !.plan = plan, !.left = end,
                                !.tail = Smaller(EdgeSeconds, end), !.edge = edge]
  <2>2. /\ end \in Nat /\ EdgeSeconds \in Nat
        /\ Smaller(EdgeSeconds, end) \in Nat
        /\ Smaller(EdgeSeconds, end) <= EdgeSeconds
        /\ Smaller(EdgeSeconds, end) <= end
    BY TtsAssumption DEF Smaller
  <2>3. r \in Reqs
    BY <2>2, NoReqSound DEF Reqs
  <2>4. /\ r.phase = "running" /\ r.plan = plan /\ r.left = end /\ r.edge = edge
        /\ r.tail = Smaller(EdgeSeconds, end) /\ r.hop = 0
    BY NoReqSound DEF Reqs
  <2> HIDE DEF r
  <2>5. Sound(r)
    BY <1>3, <2>2, <2>3, <2>4 DEF Sound, Pending, TailKept
  <2>6. req' = [req EXCEPT ![q] = r]
    BY <2>1 DEF r
  <2>7. QED BY <1>0, <1>3, <2>5, <2>6, OneRequest DEF Begin
<1>4. ASSUME NEW q \in Requests, StartAuto(q) PROVE Inv'
  BY <1>3, <1>4, AutoPlanType DEF StartAuto
<1>5. ASSUME NEW q \in Requests, StartNamed(q) PROVE Inv'
  BY <1>3, <1>5, NamedPlanEndsWithEdge DEF StartNamed
<1>6. ASSUME NEW q \in Requests, Call(q) PROVE Inv'
  <2> DEFINE r == [req[q] EXCEPT !.phase = "calling", !.hop = HopSeconds(q),
                                 !.tried = @ \cup {Target(q)}]
  <2>1. req' = [req EXCEPT ![q] = r]
    BY <1>6 DEF Call
  <2>2. req[q] \in Reqs /\ Sound(req[q]) /\ req[q].plan # <<>> /\ req[q].phase = "running"
    BY <1>0, <1>6 DEF Call, HasHop
  <2>3. Target(q) \in Engines
    BY <2>2, TailOfPlan DEF Target, Reqs, Hops
  <2>4. HopSeconds(q) \in Nat
    BY <2>2, <2>3, HopFits
  <2>5. r \in Reqs
    BY <2>2, <2>3, <2>4 DEF Reqs
  <2>6. /\ r.phase = "calling" /\ r.hop = HopSeconds(q) /\ r.plan = req[q].plan
        /\ r.tried = req[q].tried \cup {Target(q)} /\ r.left = req[q].left
        /\ r.tail = req[q].tail /\ r.edge = req[q].edge
    BY <2>2 DEF Reqs
  <2> HIDE DEF r
  <2>7. Pending(r) => Pending(req[q]) /\ Target(q) # Edge
    BY <2>6 DEF Pending
  <2>8. Pending(r) => TailKept(r)
    <3>1. SUFFICES ASSUME Pending(r) PROVE TailKept(r)
      OBVIOUS
    <3>2. TailKept(req[q]) /\ Target(q) # Edge /\ req[q].hop = 0
      BY <2>2, <2>7, <3>1 DEF Sound
    <3>3. req[q].tail <= req[q].left
      BY <2>2, <3>2 DEF TailKept, Reqs
    <3>4. QED BY <2>2, <2>3, <2>6, <3>2, <3>3, HopFits DEF TailKept
  <2>9. Sound(r)
    BY <2>2, <2>3, <2>5, <2>6, <2>7, <2>8, HopFits DEF Sound, Target
  <2>10. QED BY <1>0, <1>6, <2>1, <2>9, OneRequest DEF Call
<1>7. ASSUME NEW q \in Requests, Skip(q) PROVE Inv'
  <2> DEFINE r == [req[q] EXCEPT !.plan = Rest(q)]
  <2>1. req' = [req EXCEPT ![q] = r]
    BY <1>7 DEF Skip
  <2>2. /\ req[q] \in Reqs /\ Sound(req[q])
        /\ req[q].plan # <<>> /\ req[q].plan \in Seq(Hops) /\ req[q].phase = "running"
    BY <1>0, <1>7 DEF Skip, HasHop, Reqs
  <2>3. Rest(q) \in Seq(Hops) /\ Target(q) \in Engines
    BY <2>2, TailOfPlan DEF Rest, Target, Hops
  <2>4. r \in Reqs
    BY <2>2, <2>3 DEF Reqs
  <2>5. /\ r.phase = "running" /\ r.hop = req[q].hop /\ r.plan = Rest(q)
        /\ r.tried = req[q].tried /\ r.left = req[q].left
        /\ r.tail = req[q].tail /\ r.edge = req[q].edge
    BY <2>2 DEF Reqs
  <2> HIDE DEF r
  <2>6. ASSUME Pending(r), Rest(q) = <<>> PROVE r.tail < MinSeconds
    <3>1. TailKept(req[q]) /\ EdgeLast(req[q].plan)
      BY <2>2, <2>5, <2>6 DEF Sound, Pending
    <3>2. Head(req[q].plan) = [target |-> Edge, explicit |-> TRUE]
      BY <2>2, <2>6, <3>1, TailOfPlan DEF Rest
    <3>3. HopSeconds(q) >= req[q].tail /\ HopSeconds(q) \in Nat
      BY <2>2, <2>3, <3>1, <3>2, HopFits DEF Target
    <3>4. ~WorthTrying(HopSeconds(q))
      BY <1>7, <3>2 DEF Skip, MayTry
    <3>5. MinSeconds \in Nat /\ req[q].tail \in Nat
      BY <2>2, TtsAssumption DEF Reqs
    <3>6. QED BY <2>5, <3>3, <3>4, <3>5 DEF WorthTrying
  <2>7. ASSUME Pending(r), Rest(q) # <<>> PROVE EdgeLast(r.plan)
    BY <2>2, <2>5, <2>7, TailOfPlan DEF Sound, Pending, Rest
  <2>8. Sound(r)
    BY <2>2, <2>4, <2>5, <2>6, <2>7 DEF Sound, Pending, TailKept
  <2>9. QED BY <1>0, <1>7, <2>1, <2>8, OneRequest DEF Skip
<1>8. ASSUME NEW q \in Requests, GiveUp(q) PROVE Inv'
  <2> DEFINE r == [req[q] EXCEPT !.phase = "failed"]
  <2>1. req' = [req EXCEPT ![q] = r]
    BY <1>8 DEF GiveUp
  <2>2. r \in Reqs
    BY <1>0 DEF Reqs
  <2>3. Sound(r)
    BY <1>0, <1>8, <2>2 DEF GiveUp, Sound, Pending, Reqs
  <2>4. QED BY <1>0, <1>8, <2>1, <2>3, OneRequest DEF GiveUp
<1>9. ASSUME NEW q \in Requests, Succeeds(q) PROVE Inv'
  <2> DEFINE r == [req[q] EXCEPT !.phase = "answered", !.hop = 0]
  <2>1. req' = [req EXCEPT ![q] = r]
    BY <1>9 DEF Succeeds
  <2>2. r \in Reqs
    BY <1>0 DEF Reqs
  <2>3. Sound(r)
    BY <1>0, <1>9, <2>2 DEF Succeeds, Sound, Pending, Reqs
  <2>4. node' \in [Engines -> NodeStates]
    BY <1>0, <1>9, FreshType DEF Succeeds, AfterSuccess
  <2>5. QED BY <2>1, <2>3, <2>4, OneRequest
<1>10. ASSUME NEW q \in Requests, NEW f \in Failures, Fails(q, f) PROVE Inv'
  <2> DEFINE r == [req[q] EXCEPT !.phase = "running", !.plan = Rest(q), !.hop = 0]
  <2>1. req' = [req EXCEPT ![q] = r]
    BY <1>10 DEF Fails
  <2>2. /\ req[q] \in Reqs /\ Sound(req[q]) /\ req[q].phase = "calling"
        /\ req[q].plan # <<>> /\ req[q].plan \in Seq(Hops)
        /\ Target(q) \in req[q].tried
    BY <1>0, <1>10 DEF Fails, Sound, Reqs, Target
  <2>3. Rest(q) \in Seq(Hops) /\ Target(q) \in Engines
    BY <2>2, TailOfPlan DEF Rest, Target, Hops
  <2>4. r \in Reqs
    BY <2>2, <2>3 DEF Reqs
  <2>5. /\ r.phase = "running" /\ r.hop = 0 /\ r.plan = Rest(q)
        /\ r.tried = req[q].tried /\ r.left = req[q].left
        /\ r.tail = req[q].tail /\ r.edge = req[q].edge
    BY <2>2 DEF Reqs
  <2> HIDE DEF r
  <2>6. ASSUME Pending(r)
        PROVE  TailKept(r) /\ Rest(q) # <<>> /\ EdgeLast(r.plan)
    <3>1. Pending(req[q]) /\ TailKept(req[q]) /\ EdgeLast(req[q].plan)
      BY <2>2, <2>5, <2>6 DEF Sound, Pending
    <3>2. TailKept(r)
      BY <2>2, <2>5, <3>1 DEF TailKept, Reqs
    <3>3. Target(q) # Edge
      BY <2>2, <3>1 DEF Pending
    <3>4. Rest(q) # <<>>
      BY <2>2, <3>1, <3>3, TailOfPlan DEF Rest, Target
    <3>5. QED BY <2>2, <2>5, <3>1, <3>2, <3>4, TailOfPlan DEF Rest
  <2>7. Sound(r)
    BY <2>2, <2>4, <2>5, <2>6 DEF Sound, Reqs
  <2>8. node' \in [Engines -> NodeStates]
    <3>1. AfterFailure(node[Target(q)], f) \in NodeStates
      BY <1>0, <2>3, AfterFailureType
    <3>2. QED BY <1>0, <1>10, <2>3, <3>1 DEF Fails
  <2>9. QED BY <2>1, <2>7, <2>8, OneRequest
<1>11. ASSUME NEW n \in Engines, NEW up \in BOOLEAN, Probe(n, up) PROVE Inv'
  <2>1. node' \in [Engines -> NodeStates]
    BY <1>0, <1>11, AfterProbeType DEF Probe
  <2>2. QED
    BY <1>11, <2>1
       DEF Probe, Inv, TypeOK, WithinDeadline, EdgeAhead, CallsAreOpen, Target
<1>12. ASSUME NEW q \in Requests, Step(q) PROVE Inv'
  <2>1. "slow" \in Failures
    BY DEF Failures
  <2>2. QED BY <1>6, <1>7, <1>8, <1>10, <1>12, <2>1 DEF Step
<1>13. QED
  BY <1>1, <1>2, <1>4, <1>5, <1>9, <1>10, <1>11, <1>12 DEF Next

(* The chain's inductive invariant holds in every reachable state. *)
THEOREM Invariance == Spec => []Inv
BY InitInv, NextInv, PTL DEF Spec

(* Node states and requests keep their types. *)
THEOREM TypeCorrect == Spec => []TypeOK
<1>1. Inv => TypeOK
  BY DEF Inv
<1>2. QED BY Invariance, <1>1, PTL

(* A request's calls end within its deadline. *)
THEOREM DeadlineKept == Spec => []WithinDeadline
<1>1. Inv => WithinDeadline
  BY DEF Inv
<1>2. QED BY Invariance, <1>1, PTL

(* Whatever the named engine and its partners do with the time, Edge was   *)
(* called before a request with room for it fails.                         *)
THEOREM EdgeGetsItsTurn == Spec => []EdgeIsTried
<1>1. Inv => EdgeIsTried
  <2>1. ASSUME Inv, NEW q \in Requests, req[q].phase = "failed", req[q].edge,
               req[q].tail >= MinSeconds, Edge \notin req[q].tried
        PROVE  FALSE
    <3>1. Sound(req[q]) /\ Pending(req[q])
      BY <2>1, InvIsSound DEF Pending
    <3>2. req[q].tail < MinSeconds
      BY <2>1, <3>1 DEF Sound
    <3>3. req[q].tail \in Nat /\ MinSeconds \in Nat
      BY <3>1, TtsAssumption DEF Sound, Reqs
    <3>4. QED BY <2>1, <3>2, <3>3
  <2>2. QED BY <2>1 DEF EdgeIsTried
<1>2. QED BY Invariance, <1>1, PTL
=============================================================================
