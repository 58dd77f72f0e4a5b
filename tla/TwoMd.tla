-------------------------------- MODULE TwoMd --------------------------------
(***************************************************************************)
(* Web search and page reading through the 2MD endpoints: tool threads of  *)
(* the Brain processes coalesce equal operations (SingleFlight), try the   *)
(* endpoints in turn under a common budget, and keep out of those that     *)
(* failed, by a circuit with one half-open probe.                          *)
(***************************************************************************)
EXTENDS Naturals, FiniteSets, Sequences

CONSTANTS
  Processes, Threads,
  ProcessOf,    \* the process of a thread
  Operations,   \* operation keys
  Bases,        \* url2md_base_urls, in order
  MaxAttempts,  \* url2md_max_attempts
  Budget,       \* url2md_total_budget_s
  CoolDown,     \* url2md_circuit_cooldown_s
  CallTime      \* the longest request to an endpoint

Endpoints == {Bases[i] : i \in DOMAIN Bases}

ASSUME TwoMdAssumption ==
  /\ ProcessOf \in [Threads -> Processes]
  /\ Bases \in Seq(Endpoints) /\ Cardinality(Endpoints) = Len(Bases)
  /\ {MaxAttempts, Budget, CoolDown, CallTime} \subseteq Nat \ {0}

VARIABLES
  circuit,  \* circuit[p][e]: is e in _circuit_opened_at, and how long it still cools
  claimed,  \* claimed[p]: _circuit_probe_claimed
  thread    \* thread[t]: see ThreadStates

vars == <<circuit, claimed, thread>>

-----------------------------------------------------------------------------
Less(n) == IF n = 0 THEN 0 ELSE n - 1
Shut    == [open |-> FALSE, left |-> 0]
NoOp    == "none"

(* phase: waiting for the leader of a flight or, as a leader, looking for  *)
(* an endpoint, calling it, or backing off.  at: the next base; tries:     *)
(* attempts made; left: of the budget; probe: it claimed its endpoint;     *)
(* due: how long its call can still take.                                  *)
ThreadStates == [phase : {"idle", "waiting", "next", "calling", "backoff"},
                 op : Operations \cup {NoOp}, leader : Threads,
                 at : 1..(Len(Bases) + 1), tries : 0..Len(Bases), left : 0..Budget,
                 probe : BOOLEAN, due : 0..CallTime]

Idle(t) == [phase |-> "idle", op |-> NoOp, leader |-> t, at |-> 1, tries |-> 0,
            left |-> 0, probe |-> FALSE, due |-> 0]

TypeOK ==
  /\ circuit \in [Processes -> [Endpoints -> [open : BOOLEAN, left : 0..CoolDown]]]
  /\ claimed \in [Processes -> SUBSET Endpoints]
  /\ thread \in [Threads -> ThreadStates]

Init ==
  /\ circuit = [p \in Processes |-> [e \in Endpoints |-> Shut]]
  /\ claimed = [p \in Processes |-> {}]
  /\ thread = [t \in Threads |-> Idle(t)]

Proc(t) == ProcessOf[t]
Base(t) == Bases[thread[t].at]

(* The flights of SingleFlight: who leads one with this key in a process.  *)
Leads(t, op) == thread[t].op = op /\ thread[t].phase \notin {"idle", "waiting"}
Leaders_none(t, op) == {}
Leaders(t, op) == {u \in Threads : Proc(u) = Proc(t) /\ Leads(u, op)}

(* SingleFlight.run: lead a new flight or wait for the one under way, as   *)
(* long as one's own budget.                                               *)
Start(t) ==
  /\ thread[t].phase = "idle"
  /\ \E op \in Operations :
       \/ /\ Leaders(t, op) = {}
          /\ thread' = [thread EXCEPT ![t] =
               [Idle(t) EXCEPT !.phase = "next", !.op = op, !.left = Budget]]
       \/ \E u \in Leaders(t, op) :
            thread' = [thread EXCEPT ![t] =
              [Idle(t) EXCEPT !.phase = "waiting", !.op = op, !.left = Budget, !.leader = u]]
  /\ UNCHANGED <<circuit, claimed>>

WaitTimesOut(t) ==
  /\ thread[t].phase = "waiting"
  /\ thread[t].left = 0
  /\ thread' = [thread EXCEPT ![t] = Idle(t)]
  /\ UNCHANGED <<circuit, claimed>>

(* The operation returns or raises, and its followers with it.             *)
Woken(t) == {u \in Threads : thread[u].phase = "waiting" /\ thread[u].leader = t}
Finish(t) ==
  thread' = [u \in Threads |-> IF u = t \/ u \in Woken(t) THEN Idle(u) ELSE thread[u]]

(* iter_endpoints: out of attempts or out of bases.                        *)
HasNext(t) == thread[t].at <= Len(Bases) /\ thread[t].tries < MaxAttempts
AtEnd_attempts(t) == thread[t].tries >= MaxAttempts
AtEnd(t) == thread[t].at > Len(Bases) \/ thread[t].tries >= MaxAttempts
ChainEnds(t) ==
  /\ thread[t].phase = "next"
  /\ AtEnd(t)
  /\ Finish(t)
  /\ UNCHANGED <<circuit, claimed>>

(* claim_endpoint: an endpoint with an open circuit may be used once       *)
(* cooled down, by who claims it.                                          *)
MayUse_unclaimed(p, e) == circuit[p][e].left = 0
MayUse(p, e) == circuit[p][e].left = 0 /\ (circuit[p][e].open => e \notin claimed[p])

(* The shared circuit in Redis refuses nothing and learns nothing: a       *)
(* RedisCoordination made from a URL, as get_coordination makes it, never  *)
(* sets _available, so that it is not configured.                          *)
Configured == FALSE
EndpointAllowed == ~Configured

SkipEndpoint(t) ==
  /\ thread[t].phase = "next"
  /\ HasNext(t)
  /\ ~(MayUse(Proc(t), Base(t)) /\ EndpointAllowed)
  /\ thread' = [thread EXCEPT ![t].at = @ + 1]
  /\ UNCHANGED <<circuit, claimed>>

(* The claim, then a look at the budget: either the endpoint is called, or *)
(* the generator returns, whatever it has claimed.                         *)
Claim(t) ==
  /\ thread[t].phase = "next"
  /\ HasNext(t)
  /\ MayUse(Proc(t), Base(t)) /\ EndpointAllowed
  /\ claimed' = [claimed EXCEPT ![Proc(t)] =
                   IF circuit[Proc(t)][Base(t)].open THEN @ \cup {Base(t)} ELSE @]
  /\ IF thread[t].left = 0
     THEN Finish(t)
     ELSE thread' = [thread EXCEPT ![t].phase = "calling", ![t].tries = @ + 1,
                                   ![t].probe = circuit[Proc(t)][Base(t)].open,
                                   ![t].due = CallTime]
  /\ UNCHANGED circuit

(* note_success and note_failure.                                          *)
Noted(t, state) ==
  /\ circuit' = [circuit EXCEPT ![Proc(t)][Base(t)] = state]
  /\ claimed' = [claimed EXCEPT ![Proc(t)] = @ \ {Base(t)}]

Succeeds(t) ==
  /\ thread[t].phase = "calling"
  /\ Noted(t, Shut)
  /\ Finish(t)

(* A failure that is not worth a retry, or comes when the budget is used,  *)
(* ends the operation; after any other the thread backs off.               *)
Fails(t) ==
  /\ thread[t].phase = "calling"
  /\ Noted(t, [open |-> TRUE, left |-> CoolDown])
  /\ \/ Finish(t)
     \/ /\ thread[t].left > 0
        /\ thread' = [thread EXCEPT ![t].phase = "backoff", ![t].at = @ + 1,
                                    ![t].probe = FALSE, ![t].due = 0]

(* wait_before_fallback sleeps until the budget ends at most, and looks at *)
(* it once more afterwards.                                                *)
BackOff(t) ==
  /\ thread[t].phase = "backoff"
  /\ \/ thread[t].left > 0 /\ thread' = [thread EXCEPT ![t].phase = "next"]
     \/ thread[t].left = 0 /\ Finish(t)
  /\ UNCHANGED <<circuit, claimed>>

(* Time passes, but not past the end of a call.                            *)
Tick ==
  /\ \A t \in Threads : thread[t].phase = "calling" => thread[t].due > 0
  /\ circuit' = [p \in Processes |->
                   [e \in Endpoints |-> [circuit[p][e] EXCEPT !.left = Less(@)]]]
  /\ thread' = [t \in Threads |-> [thread[t] EXCEPT !.left = Less(@), !.due = Less(@)]]
  /\ UNCHANGED claimed

Step(t) ==
  \/ WaitTimesOut(t) \/ ChainEnds(t) \/ SkipEndpoint(t) \/ Claim(t)
  \/ Succeeds(t) \/ Fails(t) \/ BackOff(t)

Next == Tick \/ \E t \in Threads : Start(t) \/ Step(t)

(* Threads run, requests end, time goes on.                                *)
Fairness == WF_vars(Tick) /\ \A t \in Threads : WF_vars(Step(t))

Spec     == Init /\ [][Next]_vars
FairSpec == Spec /\ Fairness

-----------------------------------------------------------------------------
(* Properties.                                                             *)

(* A cooled-down endpoint gets one probe of a process at a time, whatever  *)
(* older calls report meanwhile (claim_endpoint), provided that a circuit  *)
(* stays open for longer than a request can take.                          *)
Probes(t, p, e) ==
  Proc(t) = p /\ thread[t].phase = "calling" /\ thread[t].probe /\ Base(t) = e
SoleProbe ==
  CoolDown > CallTime =>
    \A t, u \in Threads, p \in Processes, e \in Endpoints :
      Probes(t, p, e) /\ Probes(u, p, e) => t = u

(* Equal operations of a process that overlap are one chain of requests    *)
(* (SingleFlight.run).                                                     *)
OneFlight ==
  \A t, u \in Threads, op \in Operations :
    Proc(t) = Proc(u) /\ Leads(t, op) /\ Leads(u, op) => t = u

(* Every operation ends, those that wait for another one included          *)
(* (iter_endpoints, run_fallback_chain).                                   *)
OperationsEnd == \A t \in Threads : thread[t].phase # "idle" ~> thread[t].phase = "idle"

(* What the repository claims and a run refutes: nobody calls an endpoint  *)
(* while its circuit is open in another process (RedisCoordination).       *)
Calls(t) == thread[t].phase = "next" /\ thread'[t].phase = "calling"
SharedCircuit ==
  [][\A t \in Threads, p \in Processes : Calls(t) => circuit[p][Base(t)].left = 0]_vars
=============================================================================
