----------------------------- MODULE TwoMdProofs -----------------------------
(***************************************************************************)
(* The safety properties of TwoMd, for any processes, threads, operations  *)
(* and endpoints and for all times: Inv is inductive.                      *)
(***************************************************************************)
EXTENDS TwoMd, TLAPS

(* A thread has made at most one attempt for each base it has passed, and  *)
(* calls one that exists.                                                  *)
AttemptsCounted ==
  \A t \in Threads :
    /\ thread[t].tries <= thread[t].at
    /\ thread[t].phase = "calling" => thread[t].at <= Len(Bases)
    /\ thread[t].phase # "calling" => thread[t].tries < thread[t].at

(* Who waits, waits for the leader of a flight that is under way.          *)
FlightsExist ==
  \A t \in Threads :
    thread[t].phase = "waiting" =>
      Proc(thread[t].leader) = Proc(t) /\ Leads(thread[t].leader, thread[t].op)

(* While a probe is under way, its endpoint is claimed, or shut for longer *)
(* than the probe can take, or in order.                                   *)
Guarded(t) ==
  LET p == Proc(t)
      e == Base(t)
  IN \/ ~circuit[p][e].open
     \/ e \in claimed[p]
     \/ circuit[p][e].left > thread[t].due
Probing(t) == thread[t].phase = "calling" /\ thread[t].probe
ProbesGuarded == CoolDown > CallTime => \A t \in Threads : Probing(t) => Guarded(t)

Inv == TypeOK /\ AttemptsCounted /\ OneFlight /\ FlightsExist /\ SoleProbe /\ ProbesGuarded

-----------------------------------------------------------------------------
LEMMA Constants ==
  /\ ProcessOf \in [Threads -> Processes]
  /\ Len(Bases) \in Nat
  /\ MaxAttempts \in Nat /\ Budget \in Nat /\ CoolDown \in Nat /\ CallTime \in Nat
  /\ \A i \in 1..Len(Bases) : Bases[i] \in Endpoints
BY TwoMdAssumption DEF Endpoints

LEMMA LessType == ASSUME NEW n \in Nat, NEW m \in Nat, n <= m PROVE Less(n) \in 0..m
BY DEF Less

LEMMA IdleType ==
  ASSUME NEW t \in Threads
  PROVE  Idle(t) \in ThreadStates /\ Idle(t).phase = "idle" /\ Idle(t).at = 1 /\ Idle(t).tries = 0
<1>1. 1 \in 1..(Len(Bases) + 1) /\ 0 \in 0..Len(Bases) /\ 0 \in 0..Budget /\ 0 \in 0..CallTime
  BY Constants
<1>2. QED BY <1>1 DEF Idle, ThreadStates

LEMMA InitInv == Init => Inv
<1>1. SUFFICES ASSUME Init PROVE Inv
  OBVIOUS
<1>2. \A t \in Threads : thread[t] = Idle(t)
  BY <1>1 DEF Init
<1>3. TypeOK
  <2>1. Shut \in [open : BOOLEAN, left : 0..CoolDown]
    BY Constants DEF Shut
  <2>2. QED BY <1>1, <2>1, IdleType DEF Init, TypeOK
<1>4. AttemptsCounted
  BY <1>2, IdleType DEF AttemptsCounted
<1>5. OneFlight /\ FlightsExist
  BY <1>2, IdleType DEF OneFlight, FlightsExist, Leads
<1>6. SoleProbe /\ ProbesGuarded
  BY <1>2, IdleType DEF SoleProbe, Probes, ProbesGuarded, Probing
<1>7. QED BY <1>3, <1>4, <1>5, <1>6 DEF Inv

-----------------------------------------------------------------------------
(* What a step may do to the threads. *)

(* A leader that goes on. *)
LEMMA LeaderGoesOn ==
  ASSUME Inv, NEW t \in Threads, NEW r \in ThreadStates,
         thread' = [thread EXCEPT ![t] = r],
         thread[t].phase \notin {"idle", "waiting"}, r.phase \notin {"idle", "waiting"},
         r.op = thread[t].op,
         r.tries <= r.at,
         r.phase = "calling" => r.at <= Len(Bases),
         r.phase # "calling" => r.tries < r.at
  PROVE  /\ thread' \in [Threads -> ThreadStates]
         /\ AttemptsCounted' /\ OneFlight' /\ FlightsExist'
<1>1. thread' \in [Threads -> ThreadStates] /\ thread \in [Threads -> ThreadStates]
  BY DEF Inv, TypeOK
<1>2. thread'[t] = r /\ \A u \in Threads : u # t => thread'[u] = thread[u]
  BY <1>1
<1>3. AttemptsCounted'
  BY <1>2 DEF Inv, AttemptsCounted
<1>4. \A op : \A u \in Threads : Leads(u, op)' <=> Leads(u, op)
  BY <1>2 DEF Leads
<1>5. OneFlight'
  BY <1>4 DEF Inv, OneFlight, Proc
<1>6. \A u \in Threads : thread[u].leader \in Threads
  BY <1>1 DEF ThreadStates
<1>7. FlightsExist'
  BY <1>2, <1>4, <1>6 DEF Inv, FlightsExist, Proc
<1>8. QED BY <1>1, <1>3, <1>5, <1>7

(* A leader that ends, with those who wait for it. *)
LEMMA LeaderEnds ==
  ASSUME Inv, NEW t \in Threads, Finish(t)
  PROVE  /\ thread' \in [Threads -> ThreadStates]
         /\ AttemptsCounted' /\ OneFlight' /\ FlightsExist'
         /\ \A u \in Threads : Probing(u)' => u # t /\ thread'[u] = thread[u]
<1>1. \A u \in Threads : thread'[u] = IF u = t \/ u \in Woken(t) THEN Idle(u) ELSE thread[u]
  BY DEF Finish
<1>2. thread \in [Threads -> ThreadStates]
  BY DEF Inv, TypeOK
<1>3. thread' \in [Threads -> ThreadStates]
  BY <1>2, IdleType DEF Finish
<1>4. AttemptsCounted'
  BY <1>1, IdleType DEF Inv, AttemptsCounted
<1>5. \A op : \A u \in Threads : Leads(u, op)' => Leads(u, op)
  BY <1>1, IdleType DEF Leads
<1>6. OneFlight'
  BY <1>5 DEF Inv, OneFlight, Proc
<1>7. FlightsExist'
  <2>1. SUFFICES ASSUME NEW u \in Threads, thread'[u].phase = "waiting"
                 PROVE  /\ Proc(thread'[u].leader) = Proc(u)
                        /\ thread'[thread'[u].leader].op = thread'[u].op
                        /\ thread'[thread'[u].leader].phase \notin {"idle", "waiting"}
    BY DEF FlightsExist, Proc, Leads
  <2>2. thread'[u] = thread[u] /\ u # t /\ u \notin Woken(t)
    BY <1>1, <2>1, IdleType
  <2>3. thread[u].leader \in Threads /\ thread[u].leader # t
    BY <1>2, <2>1, <2>2 DEF Woken, ThreadStates
  <2>4. Proc(thread[u].leader) = Proc(u) /\ Leads(thread[u].leader, thread[u].op)
    BY <2>1, <2>2 DEF Inv, FlightsExist
  <2>5. thread'[thread[u].leader] = thread[thread[u].leader]
    BY <1>1, <2>3, <2>4 DEF Leads, Woken
  <2>6. QED BY <2>2, <2>4, <2>5 DEF Leads
<1>8. \A u \in Threads : Probing(u)' => u # t /\ thread'[u] = thread[u]
  BY <1>1, IdleType DEF Probing
<1>9. QED BY <1>3, <1>4, <1>6, <1>7, <1>8

-----------------------------------------------------------------------------
(* What a step may do to the circuits. *)

LEMMA ProbeIn ==
  ASSUME Inv, NEW u \in Threads, Probing(u)
  PROVE  Proc(u) \in Processes /\ Base(u) \in Endpoints
<1>1. thread[u].at \in 1..(Len(Bases) + 1) /\ thread[u].at <= Len(Bases)
  BY DEF Inv, TypeOK, AttemptsCounted, Probing, ThreadStates
<1>2. thread[u].at \in 1..Len(Bases)
  BY <1>1, Constants
<1>3. QED BY <1>2, Constants DEF Base, Proc

LEMMA CircuitsKept ==
  ASSUME Inv, UNCHANGED <<circuit, claimed>>,
         \A u \in Threads : Probing(u)' => thread'[u] = thread[u]
  PROVE  SoleProbe' /\ ProbesGuarded'
<1>1. \A u \in Threads : Probing(u)' => Probing(u) /\ Base(u)' = Base(u)
  BY DEF Probing, Base
<1>2. SoleProbe'
  BY <1>1 DEF Inv, SoleProbe, Probes, Probing, Proc, Base
<1>3. ProbesGuarded'
  BY <1>1 DEF Inv, ProbesGuarded, Guarded, Proc, Base
<1>4. QED BY <1>2, <1>3

(* note_success and note_failure leave every probe guarded, even one of    *)
(* the endpoint they speak of.                                             *)
LEMMA CircuitNoted ==
  ASSUME Inv, NEW t \in Threads, NEW s \in {Shut, [open |-> TRUE, left |-> CoolDown]},
         thread[t].phase = "calling", Noted(t, s),
         \A u \in Threads : Probing(u)' => thread'[u] = thread[u]
  PROVE  /\ circuit' \in [Processes -> [Endpoints -> [open : BOOLEAN, left : 0..CoolDown]]]
         /\ claimed' \in [Processes -> SUBSET Endpoints]
         /\ SoleProbe' /\ ProbesGuarded'
<1> DEFINE p == Proc(t)
           e == Base(t)
<1>1. /\ circuit \in [Processes -> [Endpoints -> [open : BOOLEAN, left : 0..CoolDown]]]
      /\ claimed \in [Processes -> SUBSET Endpoints]
      /\ thread \in [Threads -> ThreadStates]
      /\ thread[t].at <= Len(Bases)
  BY DEF Inv, TypeOK, AttemptsCounted
<1>2. \A u \in Threads : Proc(u) \in Processes
  BY Constants DEF Proc
<1>3. \A u \in Threads : Probing(u) => Base(u) \in Endpoints
  BY ProbeIn
<1>4. e \in Endpoints
  BY <1>1, Constants DEF Base, ThreadStates
<1>5. s \in [open : BOOLEAN, left : 0..CoolDown] /\ (s.open => s.left = CoolDown)
  <2>1. CASE s = Shut
    BY <2>1, Constants DEF Shut
  <2>2. CASE s = [open |-> TRUE, left |-> CoolDown]
    BY <2>2, Constants
  <2>3. QED BY <2>1, <2>2
<1>6. /\ circuit' = [circuit EXCEPT ![p] = [@ EXCEPT ![e] = s]]
      /\ claimed' = [claimed EXCEPT ![p] = @ \ {e}]
  BY DEF Noted
<1>7. /\ circuit' \in [Processes -> [Endpoints -> [open : BOOLEAN, left : 0..CoolDown]]]
      /\ claimed' \in [Processes -> SUBSET Endpoints]
  BY <1>1, <1>2, <1>4, <1>5, <1>6
<1>8. \A u \in Threads : Probing(u)' => Probing(u) /\ Base(u)' = Base(u)
  BY DEF Probing, Base
<1>9. SoleProbe'
  BY <1>8 DEF Inv, SoleProbe, Probes, Probing, Proc, Base
<1>10. ASSUME CoolDown > CallTime, NEW u \in Threads, Probing(u)' PROVE Guarded(u)'
  <2>1. /\ Probing(u) /\ Guarded(u) /\ Base(u)' = Base(u) /\ thread'[u].due = thread[u].due
        /\ Proc(u) \in Processes /\ Base(u) \in Endpoints /\ thread[u].due \in 0..CallTime
    BY <1>1, <1>2, <1>3, <1>8, <1>10 DEF Inv, ProbesGuarded, ThreadStates
  <2>2. CASE Proc(u) = p /\ Base(u) = e
    <3>1. circuit'[p][e] = s
      BY <1>1, <1>2, <1>4, <1>6
    <3>2. s.open => s.left > thread[u].due
      BY <1>5, <1>10, <2>1, Constants
    <3>3. QED BY <2>1, <2>2, <3>1, <3>2 DEF Guarded, Proc
  <2>3. CASE ~(Proc(u) = p /\ Base(u) = e)
    <3>1. /\ circuit'[Proc(u)][Base(u)] = circuit[Proc(u)][Base(u)]
          /\ Base(u) \in claimed'[Proc(u)] <=> Base(u) \in claimed[Proc(u)]
      BY <1>1, <1>2, <1>4, <1>6, <2>1, <2>3
    <3>2. QED BY <2>1, <3>1 DEF Guarded, Proc
  <2>4. QED BY <2>2, <2>3
<1>11. ProbesGuarded'
  BY <1>10 DEF ProbesGuarded
<1>12. QED BY <1>7, <1>9, <1>11

-----------------------------------------------------------------------------
(* The steps. *)

LEMMA ThreadFacts ==
  ASSUME Inv, NEW t \in Threads
  PROVE  /\ thread \in [Threads -> ThreadStates] /\ thread[t] \in ThreadStates
         /\ thread[t].at \in 1..(Len(Bases) + 1) /\ thread[t].tries \in 0..Len(Bases)
         /\ thread[t].left \in 0..Budget /\ thread[t].due \in 0..CallTime
         /\ thread[t].op \in Operations \cup {NoOp} /\ thread[t].leader \in Threads
         /\ thread[t].probe \in BOOLEAN
         /\ thread[t].phase \in {"idle", "waiting", "next", "calling", "backoff"}
BY DEF Inv, TypeOK, ThreadStates

(* A step of one thread that leaves the circuits alone. *)
LEMMA Quiet ==
  ASSUME Inv, UNCHANGED <<circuit, claimed>>,
         thread' \in [Threads -> ThreadStates], AttemptsCounted', OneFlight', FlightsExist',
         \A u \in Threads : Probing(u)' => thread'[u] = thread[u]
  PROVE  Inv'
BY CircuitsKept DEF Inv, TypeOK

LEMMA StartKeeps == ASSUME Inv, NEW t \in Threads, Start(t) PROVE Inv'
<1>1. thread[t].phase = "idle" /\ UNCHANGED <<circuit, claimed>>
  BY DEF Start
<1>2. PICK op \in Operations :
        \/ /\ Leaders(t, op) = {}
           /\ thread' = [thread EXCEPT ![t] =
                [Idle(t) EXCEPT !.phase = "next", !.op = op, !.left = Budget]]
        \/ \E u \in Leaders(t, op) :
             thread' = [thread EXCEPT ![t] =
               [Idle(t) EXCEPT !.phase = "waiting", !.op = op, !.left = Budget, !.leader = u]]
  BY DEF Start
<1>3. \A w \in Threads : thread[w].phase = "waiting" => thread[w].leader \in Threads \ {t}
  BY <1>1, ThreadFacts DEF Inv, FlightsExist, Leads
<1>4. Budget \in 0..Budget
  BY Constants
<1>5. CASE /\ Leaders(t, op) = {}
           /\ thread' = [thread EXCEPT ![t] =
                [Idle(t) EXCEPT !.phase = "next", !.op = op, !.left = Budget]]
  <2> DEFINE r == [Idle(t) EXCEPT !.phase = "next", !.op = op, !.left = Budget]
  <2>1. r \in ThreadStates /\ r.phase = "next" /\ r.op = op /\ r.at = 1 /\ r.tries = 0
    BY <1>4, IdleType DEF Idle, ThreadStates
  <2>2. thread'[t] = r /\ \A u \in Threads : u # t => thread'[u] = thread[u]
    BY <1>5, ThreadFacts
  <2>3. thread' \in [Threads -> ThreadStates]
    BY <1>5, <2>1, ThreadFacts
  <2> HIDE DEF r
  <2>4. AttemptsCounted'
    BY <2>1, <2>2 DEF Inv, AttemptsCounted
  <2>5. \A o : \A u \in Threads : Leads(u, o)' <=> (Leads(u, o) \/ (u = t /\ o = op))
    BY <1>1, <2>1, <2>2 DEF Leads
  <2>6. OneFlight'
    BY <1>5, <2>5 DEF Inv, OneFlight, Leaders, Proc
  <2>7. FlightsExist'
    BY <1>3, <2>1, <2>2, <2>5 DEF Inv, FlightsExist, Proc
  <2>8. \A u \in Threads : Probing(u)' => thread'[u] = thread[u]
    BY <2>1, <2>2 DEF Probing
  <2>9. QED BY <1>1, <2>3, <2>4, <2>6, <2>7, <2>8, Quiet
<1>6. ASSUME NEW v \in Leaders(t, op),
             thread' = [thread EXCEPT ![t] =
               [Idle(t) EXCEPT !.phase = "waiting", !.op = op, !.left = Budget, !.leader = v]]
      PROVE  Inv'
  <2> DEFINE r == [Idle(t) EXCEPT !.phase = "waiting", !.op = op, !.left = Budget,
                                  !.leader = v]
  <2>1. v \in Threads /\ Proc(v) = Proc(t) /\ Leads(v, op)
    BY <1>6 DEF Leaders
  <2>2. /\ r \in ThreadStates /\ r.phase = "waiting" /\ r.op = op /\ r.at = 1
        /\ r.tries = 0 /\ r.leader = v
    BY <1>4, <2>1, IdleType DEF Idle, ThreadStates
  <2>3. thread'[t] = r /\ \A u \in Threads : u # t => thread'[u] = thread[u]
    BY <1>6, ThreadFacts
  <2>4. thread' \in [Threads -> ThreadStates]
    BY <1>6, <2>2, ThreadFacts
  <2> HIDE DEF r
  <2>5. AttemptsCounted'
    BY <2>2, <2>3 DEF Inv, AttemptsCounted
  <2>6. \A o : \A u \in Threads : Leads(u, o)' <=> Leads(u, o)
    BY <1>1, <2>2, <2>3 DEF Leads
  <2>7. OneFlight'
    BY <2>6 DEF Inv, OneFlight, Proc
  <2>8. FlightsExist'
    BY <1>3, <2>1, <2>2, <2>3, <2>6 DEF Inv, FlightsExist, Proc
  <2>9. \A u \in Threads : Probing(u)' => thread'[u] = thread[u]
    BY <2>2, <2>3 DEF Probing
  <2>10. QED BY <1>1, <2>4, <2>5, <2>7, <2>8, <2>9, Quiet
<1>7. QED BY <1>2, <1>5, <1>6

LEMMA WaitTimesOutKeeps == ASSUME Inv, NEW t \in Threads, WaitTimesOut(t) PROVE Inv'
<1>1. /\ thread[t].phase = "waiting" /\ UNCHANGED <<circuit, claimed>>
      /\ thread' = [thread EXCEPT ![t] = Idle(t)]
  BY DEF WaitTimesOut
<1>2. thread'[t] = Idle(t) /\ \A u \in Threads : u # t => thread'[u] = thread[u]
  BY <1>1, ThreadFacts
<1>3. thread' \in [Threads -> ThreadStates]
  BY <1>1, ThreadFacts, IdleType
<1>4. AttemptsCounted'
  BY <1>2, IdleType DEF Inv, AttemptsCounted
<1>5. \A o : \A u \in Threads : Leads(u, o)' <=> Leads(u, o)
  BY <1>1, <1>2, IdleType DEF Leads
<1>6. OneFlight'
  BY <1>5 DEF Inv, OneFlight, Proc
<1>7. FlightsExist'
  BY <1>2, <1>5, IdleType, ThreadFacts DEF Inv, FlightsExist, Proc
<1>8. \A u \in Threads : Probing(u)' => thread'[u] = thread[u]
  BY <1>2, IdleType DEF Probing
<1>9. QED BY <1>1, <1>3, <1>4, <1>6, <1>7, <1>8, Quiet

LEMMA FinishKeeps ==
  ASSUME Inv, NEW t \in Threads, Finish(t), UNCHANGED <<circuit, claimed>>
  PROVE  Inv'
BY LeaderEnds, Quiet

LEMMA SkipEndpointKeeps == ASSUME Inv, NEW t \in Threads, SkipEndpoint(t) PROVE Inv'
<1> DEFINE r == [thread[t] EXCEPT !.at = @ + 1]
<1>1. /\ thread[t].phase = "next" /\ HasNext(t) /\ UNCHANGED <<circuit, claimed>>
      /\ thread' = [thread EXCEPT ![t] = r]
  BY DEF SkipEndpoint
<1>2. thread[t].at \in Nat /\ thread[t].tries \in Nat /\ thread[t].tries < thread[t].at
  BY <1>1, ThreadFacts, Constants DEF Inv, AttemptsCounted
<1>3. thread[t].at + 1 \in 1..(Len(Bases) + 1)
  BY <1>1, <1>2, Constants DEF HasNext
<1>4. /\ r \in ThreadStates /\ r.phase = "next" /\ r.op = thread[t].op
      /\ r.at = thread[t].at + 1 /\ r.tries = thread[t].tries
  BY <1>1, <1>3, ThreadFacts DEF ThreadStates
<1> HIDE DEF r
<1>5. /\ thread' \in [Threads -> ThreadStates]
      /\ AttemptsCounted' /\ OneFlight' /\ FlightsExist'
  <2>1. r.tries <= r.at /\ r.tries < r.at
    BY <1>2, <1>4
  <2>2. thread[t].phase \notin {"idle", "waiting"} /\ r.phase \notin {"idle", "waiting"}
    BY <1>1, <1>4
  <2>3. r.phase # "calling"
    BY <1>4
  <2>4. QED BY <1>1, <1>4, <2>1, <2>2, <2>3, LeaderGoesOn
<1>6. \A u \in Threads : Probing(u)' => thread'[u] = thread[u]
  BY <1>1, <1>4, ThreadFacts DEF Probing
<1>7. QED BY <1>1, <1>5, <1>6, Quiet

LEMMA BackOffKeeps == ASSUME Inv, NEW t \in Threads, BackOff(t) PROVE Inv'
<1>1. thread[t].phase = "backoff" /\ UNCHANGED <<circuit, claimed>>
  BY DEF BackOff
<1>2. CASE Finish(t)
  BY <1>1, <1>2, FinishKeeps
<1>3. CASE thread' = [thread EXCEPT ![t].phase = "next"]
  <2> DEFINE r == [thread[t] EXCEPT !.phase = "next"]
  <2>1. thread[t].at \in Nat /\ thread[t].tries \in Nat /\ thread[t].tries < thread[t].at
    BY <1>1, ThreadFacts, Constants DEF Inv, AttemptsCounted
  <2>2. /\ r.phase = "next" /\ r.op = thread[t].op
        /\ r.at = thread[t].at /\ r.tries = thread[t].tries
        /\ r \in ThreadStates
    <3>1. thread[t] \in ThreadStates
      BY ThreadFacts
    <3>2. QED BY <3>1 DEF ThreadStates
  <2>3. thread' = [thread EXCEPT ![t] = r]
    BY <1>3
  <2> HIDE DEF r
  <2>4. /\ thread' \in [Threads -> ThreadStates]
        /\ AttemptsCounted' /\ OneFlight' /\ FlightsExist'
    <3>1. r.tries <= r.at /\ r.tries < r.at
      BY <2>1, <2>2
    <3>2. thread[t].phase \notin {"idle", "waiting"} /\ r.phase \notin {"idle", "waiting"}
      BY <1>1, <2>2
    <3>3. r.phase # "calling"
      BY <2>2
    <3>4. QED BY <2>2, <2>3, <3>1, <3>2, <3>3, LeaderGoesOn
  <2>5. \A u \in Threads : Probing(u)' => thread'[u] = thread[u]
    BY <2>2, <2>3, ThreadFacts DEF Probing
  <2>6. QED BY <1>1, <2>4, <2>5, Quiet
<1>4. QED BY <1>2, <1>3 DEF BackOff

(* A claim is the only step that begins a probe: its endpoint has cooled   *)
(* down and is unclaimed, so no other probe of it is guarded.              *)
LEMMA ClaimKeeps == ASSUME Inv, NEW t \in Threads, Claim(t) PROVE Inv'
<1> DEFINE p == Proc(t)
           e == Base(t)
           r == [thread[t] EXCEPT !.phase = "calling", !.tries = @ + 1,
                                  !.probe = circuit[p][e].open, !.due = CallTime]
<1>1. /\ thread[t].phase = "next" /\ HasNext(t) /\ UNCHANGED circuit
      /\ circuit[p][e].left = 0 /\ (circuit[p][e].open => e \notin claimed[p])
      /\ claimed' = [claimed EXCEPT ![p] = IF circuit[p][e].open THEN @ \cup {e} ELSE @]
      /\ Finish(t) \/ thread' = [thread EXCEPT ![t] = r]
  BY DEF Claim, MayUse
<1>2. /\ circuit \in [Processes -> [Endpoints -> [open : BOOLEAN, left : 0..CoolDown]]]
      /\ claimed \in [Processes -> SUBSET Endpoints]
  BY DEF Inv, TypeOK
<1>3. \A u \in Threads : Proc(u) \in Processes
  BY Constants DEF Proc
<1>4. thread[t].at \in 1..Len(Bases)
  BY <1>1, ThreadFacts, Constants DEF HasNext
<1>5. e \in Endpoints
  BY <1>4, Constants DEF Base
<1>6. /\ claimed' \in [Processes -> SUBSET Endpoints]
      /\ circuit[p][e].open => e \in claimed'[p]
      /\ \A q \in Processes : claimed[q] \subseteq claimed'[q]
  BY <1>1, <1>2, <1>3, <1>5
<1>7. ASSUME CoolDown > CallTime, NEW u \in Threads, Probing(u)
      PROVE  Guarded(u) /\ (~circuit[p][e].open \/ Proc(u) # p \/ Base(u) # e)
  <2>1. Guarded(u)
    BY <1>7 DEF Inv, ProbesGuarded
  <2>2. thread[u].due \in 0..CallTime
    BY ThreadFacts
  <2>3. 0 > thread[u].due <=> FALSE
    BY <2>2, Constants
  <2>4. QED BY <1>1, <2>1, <2>3 DEF Guarded
<1>8. ASSUME CoolDown > CallTime, NEW u \in Threads, Probing(u), thread'[u] = thread[u]
      PROVE  Guarded(u)'
  <2>1. Proc(u) \in Processes /\ Base(u)' = Base(u)
    BY <1>3, <1>8 DEF Base
  <2>2. QED BY <1>1, <1>6, <1>7, <1>8, <2>1 DEF Guarded, Proc
<1>9. CASE Finish(t)
  <2>1. \A u \in Threads : Probing(u)' => thread'[u] = thread[u] /\ Probing(u)
    BY <1>9, LeaderEnds DEF Probing
  <2>2. SoleProbe'
    BY <2>1 DEF Inv, SoleProbe, Probes, Probing, Proc, Base
  <2>3. ProbesGuarded'
    BY <1>8, <2>1 DEF ProbesGuarded
  <2>4. TypeOK'
    BY <1>1, <1>2, <1>6, <1>9, LeaderEnds DEF TypeOK
  <2>5. QED BY <1>9, <2>2, <2>3, <2>4, LeaderEnds DEF Inv
<1>10. CASE thread' = [thread EXCEPT ![t] = r]
  <2>1. /\ thread[t].tries \in Nat /\ thread[t].tries < thread[t].at
        /\ thread[t].tries + 1 \in 0..Len(Bases)
    BY <1>1, <1>4, ThreadFacts, Constants DEF Inv, AttemptsCounted
  <2>2. circuit[p][e].open \in BOOLEAN /\ CallTime \in 0..CallTime
    BY <1>2, <1>3, <1>5, Constants
  <2>3. /\ r.phase = "calling" /\ r.op = thread[t].op /\ r.at = thread[t].at
        /\ r.tries = thread[t].tries + 1 /\ r.probe = circuit[p][e].open
        /\ r \in ThreadStates
    <3>1. thread[t] \in ThreadStates
      BY ThreadFacts
    <3>2. QED BY <2>1, <2>2, <3>1 DEF ThreadStates
  <2> HIDE DEF r
  <2>4. r.tries <= r.at /\ r.at <= Len(Bases)
    BY <1>4, <2>1, <2>3, Constants
  <2>5. thread[t].phase \notin {"idle", "waiting"} /\ r.phase \notin {"idle", "waiting"}
    BY <1>1, <2>3
  <2>6. /\ thread' \in [Threads -> ThreadStates]
        /\ AttemptsCounted' /\ OneFlight' /\ FlightsExist'
    BY <1>10, <2>3, <2>4, <2>5, LeaderGoesOn
  <2>7. /\ thread'[t] = r
        /\ \A u \in Threads : u # t => thread'[u] = thread[u]
    BY <1>10, ThreadFacts
  <2>8. /\ Base(t)' = e
        /\ \A u \in Threads : u # t => Base(u)' = Base(u) /\ (Probing(u)' <=> Probing(u))
    BY <2>3, <2>7 DEF Base, Probing
  <2>9. Probing(t)' => circuit[p][e].open
    BY <2>3, <2>7 DEF Probing
  <2>10. ASSUME CoolDown > CallTime, NEW u \in Threads, NEW v \in Threads,
                Probing(u)', Probing(v)', Proc(u) = Proc(v), Base(u)' = Base(v)'
         PROVE  u = v
    <3>1. CASE u # t /\ v # t
      <4>1. Probing(u) /\ Probing(v) /\ Base(u) = Base(v)
        BY <2>8, <2>10, <3>1
      <4>2. Proc(u) \in Processes /\ Base(u) \in Endpoints
        BY <4>1, ProbeIn
      <4>3. QED BY <2>10, <4>1, <4>2 DEF Inv, SoleProbe, Probes, Probing
    <3>2. CASE u = t /\ v # t
      BY <1>7, <2>8, <2>9, <2>10, <3>2
    <3>3. CASE u # t /\ v = t
      BY <1>7, <2>8, <2>9, <2>10, <3>3
    <3>4. QED BY <3>1, <3>2, <3>3
  <2>11. SoleProbe'
    BY <2>10 DEF SoleProbe, Probes, Probing, Proc
  <2>12. ASSUME CoolDown > CallTime, Probing(t)' PROVE Guarded(t)'
    BY <1>6, <2>8, <2>9, <2>12 DEF Guarded, Proc
  <2>13. ProbesGuarded'
    BY <1>8, <2>7, <2>8, <2>12 DEF ProbesGuarded
  <2>14. TypeOK'
    BY <1>1, <1>2, <1>6, <2>6 DEF TypeOK
  <2>15. QED BY <2>6, <2>11, <2>13, <2>14 DEF Inv
<1>11. QED BY <1>1, <1>9, <1>10

LEMMA SucceedsKeeps == ASSUME Inv, NEW t \in Threads, Succeeds(t) PROVE Inv'
<1>1. thread[t].phase = "calling" /\ Noted(t, Shut) /\ Finish(t)
  BY DEF Succeeds
<1>2. \A u \in Threads : Probing(u)' => thread'[u] = thread[u]
  BY <1>1, LeaderEnds
<1>3. QED BY <1>1, <1>2, LeaderEnds, CircuitNoted DEF Inv, TypeOK

LEMMA FailsKeeps == ASSUME Inv, NEW t \in Threads, Fails(t) PROVE Inv'
<1> DEFINE r == [thread[t] EXCEPT !.phase = "backoff", !.at = @ + 1,
                                  !.probe = FALSE, !.due = 0]
<1>1. /\ thread[t].phase = "calling" /\ Noted(t, [open |-> TRUE, left |-> CoolDown])
      /\ Finish(t) \/ thread' = [thread EXCEPT ![t] = r]
  BY DEF Fails
<1>2. CASE Finish(t)
  <2>1. \A u \in Threads : Probing(u)' => thread'[u] = thread[u]
    BY <1>2, LeaderEnds
  <2>2. QED BY <1>1, <1>2, <2>1, LeaderEnds, CircuitNoted DEF Inv, TypeOK
<1>3. CASE thread' = [thread EXCEPT ![t] = r]
  <2>1. /\ thread[t].at \in 1..Len(Bases) /\ thread[t].tries \in Nat
        /\ thread[t].tries <= thread[t].at
    BY <1>1, ThreadFacts, Constants DEF Inv, AttemptsCounted
  <2>2. thread[t].at + 1 \in 1..(Len(Bases) + 1) /\ 0 \in 0..CallTime
    BY <2>1, Constants
  <2>3. /\ r.phase = "backoff" /\ r.op = thread[t].op /\ r.at = thread[t].at + 1
        /\ r.tries = thread[t].tries
        /\ r \in ThreadStates
    <3>1. thread[t] \in ThreadStates
      BY ThreadFacts
    <3>2. QED BY <2>2, <3>1 DEF ThreadStates
  <2> HIDE DEF r
  <2>4. r.tries <= r.at /\ r.tries < r.at
    BY <2>1, <2>3
  <2>5. /\ thread[t].phase \notin {"idle", "waiting"} /\ r.phase \notin {"idle", "waiting"}
        /\ r.phase # "calling"
    BY <1>1, <2>3
  <2>6. /\ thread' \in [Threads -> ThreadStates]
        /\ AttemptsCounted' /\ OneFlight' /\ FlightsExist'
    BY <1>3, <2>3, <2>4, <2>5, LeaderGoesOn
  <2>7. \A u \in Threads : Probing(u)' => thread'[u] = thread[u]
    BY <1>3, <2>5, ThreadFacts DEF Probing
  <2>8. QED BY <1>1, <2>6, <2>7, CircuitNoted DEF Inv, TypeOK
<1>4. QED BY <1>1, <1>2, <1>3

(* Time takes as much from a circuit as from the calls under way.          *)
LEMMA TickKeeps == ASSUME Inv, Tick PROVE Inv'
<1>1. /\ \A t \in Threads : thread[t].phase = "calling" => thread[t].due > 0
      /\ circuit' = [p \in Processes |->
                       [e \in Endpoints |-> [circuit[p][e] EXCEPT !.left = Less(@)]]]
      /\ thread' = [t \in Threads |-> [thread[t] EXCEPT !.left = Less(@), !.due = Less(@)]]
      /\ UNCHANGED claimed
  BY DEF Tick
<1>2. ASSUME NEW t \in Threads
      PROVE  /\ thread'[t] \in ThreadStates
             /\ thread'[t].due = Less(thread[t].due)
             /\ thread'[t].phase = thread[t].phase /\ thread'[t].op = thread[t].op
             /\ thread'[t].leader = thread[t].leader /\ thread'[t].at = thread[t].at
             /\ thread'[t].tries = thread[t].tries /\ thread'[t].probe = thread[t].probe
  <2>1. Less(thread[t].left) \in 0..Budget /\ Less(thread[t].due) \in 0..CallTime
    <3>1. /\ thread[t].left \in Nat /\ thread[t].left <= Budget /\ Budget \in Nat
          /\ thread[t].due \in Nat /\ thread[t].due <= CallTime /\ CallTime \in Nat
      BY ThreadFacts, Constants
    <3>2. QED BY <3>1, LessType
  <2>2. thread'[t] = [thread[t] EXCEPT !.left = Less(thread[t].left),
                                       !.due = Less(thread[t].due)]
    BY <1>1
  <2>3. thread[t] \in ThreadStates
    BY ThreadFacts
  <2>4. QED BY <2>1, <2>2, <2>3 DEF ThreadStates
<1>3. thread' \in [Threads -> ThreadStates]
  BY <1>1, <1>2
<1>4. ASSUME NEW p \in Processes, NEW e \in Endpoints
      PROVE  /\ circuit'[p][e] \in [open : BOOLEAN, left : 0..CoolDown]
             /\ circuit'[p][e].open = circuit[p][e].open
             /\ circuit'[p][e].left = Less(circuit[p][e].left)
             /\ circuit[p][e].left \in Nat
  <2>1. circuit[p][e] \in [open : BOOLEAN, left : 0..CoolDown]
    BY DEF Inv, TypeOK
  <2>2. Less(circuit[p][e].left) \in 0..CoolDown
    BY <2>1, LessType, Constants
  <2>3. circuit'[p][e] = [circuit[p][e] EXCEPT !.left = Less(circuit[p][e].left)]
    BY <1>1
  <2>4. QED BY <2>1, <2>2, <2>3, Constants
<1>5. circuit' \in [Processes -> [Endpoints -> [open : BOOLEAN, left : 0..CoolDown]]]
  BY <1>1, <1>4
<1>6. TypeOK'
  BY <1>1, <1>3, <1>5 DEF Inv, TypeOK
<1>7. AttemptsCounted'
  BY <1>2 DEF Inv, AttemptsCounted
<1>8. \A o : \A u \in Threads : Leads(u, o)' <=> Leads(u, o)
  BY <1>2 DEF Leads
<1>9. OneFlight'
  BY <1>8 DEF Inv, OneFlight, Proc
<1>10. FlightsExist'
  BY <1>2, <1>8, ThreadFacts DEF Inv, FlightsExist, Proc
<1>11. \A u \in Threads : (Probing(u)' <=> Probing(u)) /\ Base(u)' = Base(u)
  BY <1>2 DEF Probing, Base
<1>12. SoleProbe'
  BY <1>11 DEF Inv, SoleProbe, Probes, Probing, Proc
<1>13. ASSUME CoolDown > CallTime, NEW u \in Threads, Probing(u)' PROVE Guarded(u)'
  <2>1. Probing(u) /\ Guarded(u) /\ Base(u)' = Base(u)
    BY <1>11, <1>13 DEF Inv, ProbesGuarded
  <2>2. thread[u].due \in Nat /\ thread[u].due > 0
    <3>1. thread[u].due \in 0..CallTime
      BY ThreadFacts
    <3>2. thread[u].due > 0
      BY <1>1, <2>1 DEF Probing
    <3>3. QED BY <3>1, <3>2, Constants
  <2>3. Proc(u) \in Processes /\ Base(u) \in Endpoints
    BY <2>1, ProbeIn
  <2>4. circuit[Proc(u)][Base(u)].left > thread[u].due
          => circuit'[Proc(u)][Base(u)].left > thread'[u].due
    BY <1>2, <1>4, <2>2, <2>3 DEF Less
  <2>5. QED BY <1>1, <1>4, <2>1, <2>3, <2>4 DEF Guarded, Proc
<1>14. ProbesGuarded'
  BY <1>13 DEF ProbesGuarded
<1>15. QED BY <1>6, <1>7, <1>9, <1>10, <1>12, <1>14 DEF Inv

-----------------------------------------------------------------------------
(* The theorems. *)

LEMMA NextInv == Inv /\ [Next]_vars => Inv'
<1>1. SUFFICES ASSUME Inv, [Next]_vars PROVE Inv'
  OBVIOUS
<1>2. CASE Tick
  BY <1>1, <1>2, TickKeeps
<1>3. ASSUME NEW t \in Threads, Start(t) \/ Step(t) PROVE Inv'
  <2>1. ChainEnds(t) => Inv'
    BY <1>1, FinishKeeps DEF ChainEnds
  <2>2. QED BY <1>1, <1>3, <2>1, StartKeeps, WaitTimesOutKeeps, SkipEndpointKeeps, ClaimKeeps,
               SucceedsKeeps, FailsKeeps, BackOffKeeps DEF Step
<1>4. CASE UNCHANGED vars
  BY <1>1, <1>4 DEF vars, Inv, TypeOK, AttemptsCounted, OneFlight, FlightsExist, SoleProbe,
                    ProbesGuarded, Leads, Probes, Probing, Guarded, Proc, Base
<1>5. QED BY <1>1, <1>2, <1>3, <1>4 DEF Next

(* Every state that calls and the passing of time can lead to is in Inv.   *)
THEOREM Invariance == Spec => []Inv
<1>1. QED BY InitInv, NextInv, PTL DEF Spec

(* Circuits, claims and threads stay in their types; the index of the next *)
(* base, in particular, never runs past the end of the list.               *)
THEOREM TypeCorrect == Spec => []TypeOK
<1>1. Inv => TypeOK
  BY DEF Inv
<1>2. QED BY <1>1, Invariance, PTL

(* However threads start, wait, time out and end, two threads of a process *)
(* never lead the same operation at once (SingleFlight.run).               *)
THEOREM FlightsAreSingle == Spec => []OneFlight
<1>1. Inv => OneFlight
  BY DEF Inv
<1>2. QED BY <1>1, Invariance, PTL

(* Nobody waits for a flight that has ended: the leader of a waiting       *)
(* thread runs the same operation in the same process (SingleFlight.run).  *)
THEOREM WaitersHaveLeaders == Spec => []FlightsExist
<1>1. Inv => FlightsExist
  BY DEF Inv
<1>2. QED BY <1>1, Invariance, PTL

(* An endpoint that has cooled down gets one probe of a process at a time, *)
(* provided that a circuit stays open for longer than a call can take      *)
(* (claim_endpoint, note_failure).                                         *)
THEOREM ProbesAreSingle == Spec => []SoleProbe
<1>1. Inv => SoleProbe
  BY DEF Inv
<1>2. QED BY <1>1, Invariance, PTL
=============================================================================
