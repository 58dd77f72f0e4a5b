--------------------------- MODULE A2ABridgeProofs ---------------------------
(***************************************************************************)
(* The safety properties of A2ABridge and that it implements InboxPromise, *)
(* for every number of instances and events and for all bounds.            *)
(***************************************************************************)
EXTENDS A2ABridge, WellFoundedInduction, TLAPS

-----------------------------------------------------------------------------
(* Finite sets of numbers have a largest element, so Latest is one.        *)

Below == {ss \in Nat \X Nat : ss[1] < ss[2]}

LEMMA BelowWF == IsWellFoundedOn(Below, Nat)
BY NatLessThanWellFounded DEF OpToRel, Below

LEMMA Largest ==
  ASSUME NEW n \in Nat, NEW S \in SUBSET (0..n), S # {}
  PROVE  \E m \in S : \A k \in S : k <= m
<1> DEFINE T == {n - k : k \in S}
<1>1. T \subseteq Nat /\ T # {}
  OBVIOUS
<1>2. PICK x \in T : \A y \in T : <<y, x>> \notin Below
  BY <1>1, BelowWF, WFMin
<1>3. PICK m \in S : x = n - m
  OBVIOUS
<1>4. ASSUME NEW k \in S PROVE k <= m
  <2>1. n - k \in T /\ n - k \in Nat /\ x \in Nat
    BY <1>1
  <2>2. ~(n - k < x)
    BY <1>2, <2>1 DEF Below
  <2>3. QED BY <1>3, <2>2
<1>5. QED BY <1>4

LEMMA EventsAreNumbers ==
  /\ LastEvent \in Nat /\ 0 \notin Events
  /\ 0 \in 0..LastEvent /\ 0 \in 0..LastEvent + 1
  /\ \A e \in Events : e \in 0..LastEvent /\ e + 1 \in 0..LastEvent + 1
BY BridgeAssumption DEF Events

LEMMA CursorType == Cursor \in 0..LastEvent
<1> DEFINE set == {e \in Queued : \A f \in Queued : f <= e => row[f].acked}
<1>1. set \cup {0} \in SUBSET (0..LastEvent) /\ set \cup {0} # {}
  <2>1. \A e \in set : e \in 0..LastEvent
    BY EventsAreNumbers DEF Queued
  <2>2. QED BY <2>1, EventsAreNumbers
<1>2. \E e \in set \cup {0} : \A f \in set \cup {0} : f <= e
  BY <1>1, EventsAreNumbers, Largest
<1>3. Latest(set) \in set \cup {0}
  BY <1>2 DEF Latest
<1>4. QED BY <1>1, <1>3 DEF Cursor

-----------------------------------------------------------------------------
(* Rows. *)

Rows == [status : Statuses, acked : BOOLEAN, ackTries : Nat, attempts : Nat]

LEMMA RowTypes ==
  /\ NoRow \in Rows /\ [NoRow EXCEPT !.status = "RECEIVED"] \in Rows
  /\ \A r \in Rows :
       /\ RowAcked(r) \in Rows /\ RowNotAcked(r) \in Rows /\ AfterFailure(r) \in Rows
       /\ [r EXCEPT !.status = "PROCESSING", !.attempts = @ + 1] \in Rows
       /\ [r EXCEPT !.status = "SUPPRESSED"] \in Rows
       /\ [r EXCEPT !.status = "COMPLETED"] \in Rows
<1>1. NoRow \in Rows /\ [NoRow EXCEPT !.status = "RECEIVED"] \in Rows
  BY DEF NoRow, Rows, Statuses
<1>2. ASSUME NEW r \in Rows
      PROVE  /\ [r EXCEPT !.status = "PROCESSING", !.attempts = @ + 1] \in Rows
             /\ [r EXCEPT !.status = "SUPPRESSED"] \in Rows
             /\ [r EXCEPT !.status = "COMPLETED"] \in Rows
  <2>1. r.attempts + 1 \in Nat
    BY DEF Rows
  <2>2. {"PROCESSING", "SUPPRESSED", "COMPLETED"} \subseteq Statuses
    BY DEF Statuses
  <2>3. QED BY <2>1, <2>2 DEF Rows
<1>3. ASSUME NEW r \in Rows PROVE RowAcked(r) \in Rows
  <2>1. (IF r.status = "RECEIVED" THEN "ACKNOWLEDGED" ELSE r.status) \in Statuses
    BY DEF Rows, Statuses
  <2>2. r.ackTries + 1 \in Nat
    BY DEF Rows
  <2>3. QED BY <2>1, <2>2 DEF Rows, RowAcked
<1>4. ASSUME NEW r \in Rows PROVE RowNotAcked(r) \in Rows
  BY DEF Rows, RowNotAcked
<1>5. ASSUME NEW r \in Rows PROVE AfterFailure(r) \in Rows
  BY DEF Rows, Statuses, AfterFailure
<1>6. QED BY <1>1, <1>2, <1>3, <1>4, <1>5

LEMMA SpendType ==
  ASSUME spent \in [DOMAIN Bounds -> Nat], NEW bound \in DOMAIN Bounds, Spend(bound)
  PROVE  spent' \in [DOMAIN Bounds -> Nat]
BY DEF Spend

LEMMA BoundNames ==
  /\ "errors" \in DOMAIN Bounds /\ "restarts" \in DOMAIN Bounds
  /\ "expiries" \in DOMAIN Bounds /\ "writeErrors" \in DOMAIN Bounds
  /\ "prunes" \in DOMAIN Bounds
BY DEF Bounds

(* What the updates make of the status of a row that is there. *)
LEMMA RowStatus ==
  ASSUME NEW r \in Rows, r.status # "absent"
  PROVE  /\ RowAcked(r).status =
              IF r.status = "RECEIVED" THEN "ACKNOWLEDGED" ELSE r.status
         /\ RowNotAcked(r).status = r.status
         /\ AfterFailure(r).status \in {"FAILED", "ACKNOWLEDGED"}
BY DEF Rows, RowAcked, RowNotAcked, AfterFailure

(* The row of e when the answer to its acknowledgement is in. *)
LEMMA AckRow ==
  ASSUME TypeOK, NEW e \in Events, AckReturns(e) \/ AckUnrecorded(e)
  PROVE  /\ row' \in [Events -> Rows]
         /\ hubAck' \in {hubAck, hubAck \cup {e}}
         /\ spent' \in [DOMAIN Bounds -> Nat]
         /\ \A f \in Events :
              \/ row'[f].status = row[f].status
              \/ row[f].status = "RECEIVED" /\ row'[f].status = "ACKNOWLEDGED"
<1>1. row \in [Events -> Rows] /\ spent \in [DOMAIN Bounds -> Nat]
  BY DEF TypeOK, Rows
<1>2. hubAck' \in {hubAck, hubAck \cup {e}}
  BY DEF AckReturns, AckUnrecorded
<1>3. spent' \in [DOMAIN Bounds -> Nat]
  BY <1>1, SpendType, BoundNames DEF AckReturns, AckUnrecorded
<1>4. PICK new \in {RowAcked(row[e]), RowNotAcked(row[e]), row[e]} :
        row' = [row EXCEPT ![e] = IF e \in Queued THEN new ELSE @]
  <2>1. CASE AckReturns(e)
    BY <2>1 DEF AckReturns
  <2>2. CASE AckUnrecorded(e)
    <3>1. row' = [row EXCEPT ![e] = row[e]]
      BY <1>1, <2>2 DEF AckUnrecorded
    <3>2. QED BY <3>1
  <2>3. QED BY <2>1, <2>2
<1>5. new \in Rows
  BY <1>1, <1>4, RowTypes
<1>6. row' \in [Events -> Rows]
  BY <1>1, <1>4, <1>5
<1>7. e \in Queued => \/ new.status = row[e].status
                      \/ row[e].status = "RECEIVED" /\ new.status = "ACKNOWLEDGED"
  BY <1>1, <1>4, RowStatus DEF Queued
<1>8. ASSUME NEW f \in Events
      PROVE  \/ row'[f].status = row[f].status
             \/ row[f].status = "RECEIVED" /\ row'[f].status = "ACKNOWLEDGED"
  BY <1>1, <1>4, <1>7
<1>9. QED BY <1>2, <1>3, <1>6, <1>8

(* A step of the work on e: what becomes of its job and its row. *)
LEMMA JobRow ==
  ASSUME TypeOK, NEW w \in Workers, NEW e \in Events, NEW next \in Jobs,
         NEW new \in Rows, JobStep(w, e, next, new)
  PROVE  /\ job' \in [Workers -> [Events -> Jobs]]
         /\ row' \in [Events -> Rows]
         /\ \A v \in Workers, f \in Events :
              job'[v][f] = IF v = w /\ f = e THEN next ELSE job[v][f]
         /\ \A f \in Events \ {e} : row'[f] = row[f]
         /\ row'[e] = IF e \in Queued THEN new ELSE row[e]
         /\ UNCHANGED <<lease, leader, acking, batch, hubAck, swept>>
<1>1. job' \in [Workers -> [Events -> Jobs]]
      /\ \A v \in Workers, f \in Events :
           job'[v][f] = IF v = w /\ f = e THEN next ELSE job[v][f]
  BY DEF TypeOK, JobStep
<1>2. /\ row' \in [Events -> Rows]
      /\ \A f \in Events \ {e} : row'[f] = row[f]
      /\ row'[e] = IF e \in Queued THEN new ELSE row[e]
  <2>1. row \in [Events -> Rows]
    BY DEF TypeOK, Rows
  <2>2. row' = [row EXCEPT ![e] = IF e \in Queued THEN new ELSE @]
    BY DEF JobStep
  <2>3. QED BY ONLY <2>1, <2>2, e \in Events, new \in Rows
<1>3. UNCHANGED <<lease, leader, acking, batch, hubAck, swept>>
  BY DEF JobStep
<1>4. QED BY <1>1, <1>2, <1>3

-----------------------------------------------------------------------------
(* Types. *)

LEMMA InitType == Init => TypeOK
<1>1. NoRow \in Rows
  BY RowTypes
<1>2. QED BY <1>1, EventsAreNumbers DEF Init, TypeOK, Rows, Jobs

LEMMA JobStepType ==
  ASSUME TypeOK, NEW w \in Workers, NEW e \in Events,
         JobProgress(w, e) \/ JobFails(w, e)
  PROVE  TypeOK'
<1>0. row[e] \in Rows
  BY DEF TypeOK, Rows
<1>1. PICK next \in Jobs, new \in Rows : JobStep(w, e, next, new)
  BY <1>0, RowTypes
     DEF JobProgress, StartProcessing, BrainSaysNothing, BrainReplies, HubExecutes,
         MarkSent, Complete, JobFails, BrainFails, SendFails, UpdateFails, Jobs
<1>2. /\ job' \in [Workers -> [Events -> Jobs]]
      /\ row' \in [Events -> Rows]
      /\ UNCHANGED <<lease, leader, stream, acking, batch, hubAck, swept>>
  BY <1>1, JobRow DEF JobStep
<1>3. /\ out' \in [Events -> {"absent", "PENDING", "SENT"}]
      /\ hubGot' \in [Events -> Nat]
  <2>1. /\ hubGot[e] + 1 \in Nat
        /\ hubGot \in [Events -> Nat]
        /\ out \in [Events -> {"absent", "PENDING", "SENT"}]
    BY DEF TypeOK
  <2>2. hubGot' \in {hubGot, [hubGot EXCEPT ![e] = @ + 1]}
    BY DEF JobProgress, StartProcessing, BrainSaysNothing, BrainReplies,
           HubExecutes, MarkSent, Complete, JobFails, BrainFails, SendFails, UpdateFails
  <2>3. \/ out' = out
        \/ \E o \in {"PENDING", "SENT"} :
              out' = [out EXCEPT ![e] = IF @ = "absent" THEN o ELSE @]
        \/ out' = [out EXCEPT ![e] = IF @ = "absent" THEN @ ELSE "SENT"]
    BY DEF JobProgress, StartProcessing, BrainSaysNothing, BrainReplies,
           HubExecutes, MarkSent, Complete, JobFails, BrainFails, SendFails, UpdateFails
  <2>4. QED BY <2>1, <2>2, <2>3
<1>4. spent' \in [DOMAIN Bounds -> Nat]
  BY SpendType, BoundNames
     DEF TypeOK, JobProgress, StartProcessing, BrainSaysNothing, BrainReplies,
         HubExecutes, MarkSent, Complete, JobFails, BrainFails, SendFails, UpdateFails
<1>5. QED BY <1>2, <1>3, <1>4 DEF TypeOK, Rows

LEMMA AckStepType ==
  ASSUME TypeOK, NEW w \in Workers,
         StreamAck(w) \/ \E e \in Events : AckWorkerAck(w, e)
  PROVE  TypeOK'
<1>1. PICK e \in Events : (AckReturns(e) \/ AckUnrecorded(e))
  <2>1. ASSUME StreamAck(w) PROVE \E e \in Events : AckReturns(e) \/ AckUnrecorded(e)
    <3>1. acking[w] \in Events
      BY <2>1, EventsAreNumbers DEF StreamAck, TypeOK, Events
    <3>2. QED BY <2>1, <3>1 DEF StreamAck
  <2>2. QED BY <2>1 DEF AckWorkerAck
<1>2. /\ row' \in [Events -> Rows] /\ hubAck' \subseteq Events
      /\ spent' \in [DOMAIN Bounds -> Nat]
  <2>1. hubAck \subseteq Events
    BY DEF TypeOK
  <2>2. /\ row' \in [Events -> Rows] /\ hubAck' \in {hubAck, hubAck \cup {e}}
        /\ spent' \in [DOMAIN Bounds -> Nat]
    BY <1>1, AckRow
  <2>3. QED BY <2>1, <2>2
<1>3. acking' \in [Workers -> 0..LastEvent] /\ batch' \in [Workers -> SUBSET Events]
  <2>1. acking \in [Workers -> 0..LastEvent] /\ batch \in [Workers -> SUBSET Events]
    BY DEF TypeOK
  <2>2. CASE StreamAck(w)
    BY <2>1, <2>2, EventsAreNumbers DEF StreamAck
  <2>3. ASSUME NEW f \in Events, AckWorkerAck(w, f)
        PROVE  /\ acking' = acking
               /\ batch' \in [Workers -> SUBSET Events]
    BY <2>1, <2>3 DEF AckWorkerAck
  <2>4. QED BY <2>1, <2>2, <2>3
<1>4. QED BY <1>2, <1>3 DEF TypeOK, Rows, StreamAck, AckWorkerAck

LEMMA NextType == TypeOK /\ [Next]_vars => TypeOK'
<1> SUFFICES ASSUME TypeOK, [Next]_vars PROVE TypeOK'
  OBVIOUS
<1>1. CASE UNCHANGED vars
  BY <1>1 DEF vars, TypeOK
<1>2. ASSUME NEW w \in Workers, Acquire(w) PROVE TypeOK'
  BY <1>2 DEF Acquire, TypeOK, queueVars, hubVars
<1>3. ASSUME NEW w \in Workers, Abdicate(w) PROVE TypeOK'
  <2>1. /\ job' \in [Workers -> [Events -> Jobs]] /\ acking' \in [Workers -> 0..LastEvent]
        /\ stream' \in [Workers -> 0..LastEvent + 1] /\ batch' \in [Workers -> SUBSET Events]
        /\ leader' \in [Workers -> BOOLEAN] /\ lease' \in Workers \cup {Nobody}
    BY <1>3, EventsAreNumbers DEF Abdicate, TypeOK, Jobs
  <2>2. UNCHANGED <<row, out, swept, hubGot>>
    BY <1>3 DEF Abdicate, queueVars
  <2>3. hubAck' \subseteq Events
    BY <1>3 DEF Abdicate, Cancelled, TypeOK
  <2>4. spent' \in [DOMAIN Bounds -> Nat]
    BY <1>3, SpendType, BoundNames DEF Abdicate, TypeOK
  <2>5. QED BY <2>1, <2>2, <2>3, <2>4 DEF TypeOK
<1>4. ASSUME NEW w \in Workers, Connect(w) PROVE TypeOK'
  <2>1. Cursor + 1 \in 0..LastEvent + 1
    BY CursorType, EventsAreNumbers
  <2>2. QED BY <1>4, <2>1 DEF Connect, TypeOK, queueVars, hubVars
<1>5. ASSUME NEW w \in Workers, Receive(w) PROVE TypeOK'
  <2>1. stream[w] \in 0..LastEvent /\ stream[w] + 1 \in 0..LastEvent + 1
    BY <1>5, EventsAreNumbers DEF Receive
  <2>2. row' \in [Events -> Rows] /\ acking' \in [Workers -> 0..LastEvent]
    <3>1. [NoRow EXCEPT !.status = "RECEIVED"] \in Rows
      BY RowTypes
    <3>2. row \in [Events -> Rows] /\ acking \in [Workers -> 0..LastEvent]
      BY DEF TypeOK, Rows
    <3>3. QED BY <1>5, <2>1, <3>1, <3>2 DEF Receive
  <2>3. QED BY <1>5, <2>1, <2>2 DEF Receive, TypeOK, hubVars, Rows
<1>6. ASSUME NEW w \in Workers, StreamAck(w) \/ \E e \in Events : AckWorkerAck(w, e)
      PROVE  TypeOK'
  BY <1>6, AckStepType
<1>7. ASSUME NEW w \in Workers, AckWorkerReads(w) PROVE TypeOK'
  BY <1>7 DEF AckWorkerReads, PendingAcks, Queued, TypeOK, queueVars, hubVars
<1>8. ASSUME NEW w \in Workers, Fetch(w) PROVE TypeOK'
  BY <1>8 DEF Fetch, TypeOK, queueVars, hubVars, Jobs
<1>9. ASSUME NEW w \in Workers, NEW e \in Events,
             JobProgress(w, e) \/ JobFails(w, e)
      PROVE  TypeOK'
  BY <1>9, JobStepType
<1>10. CASE LeaseLost
  <2>1. spent' \in [DOMAIN Bounds -> Nat]
    BY <1>10, SpendType, BoundNames DEF LeaseLost, TypeOK
  <2>2. QED BY <1>10, <2>1 DEF LeaseLost, TypeOK, queueVars, hubVars
<1>11. ASSUME NEW w \in Workers, Restart(w) PROVE TypeOK'
  <2>1. spent' \in [DOMAIN Bounds -> Nat]
    BY <1>11, SpendType, BoundNames DEF Restart, TypeOK
  <2>2. QED BY <1>11, <2>1, EventsAreNumbers DEF Restart, TypeOK, queueVars, hubVars, Cancelled, Jobs
<1>12. ASSUME NEW w \in Workers, Disconnect(w) PROVE TypeOK'
  <2>1. spent' \in [DOMAIN Bounds -> Nat]
    BY <1>12, SpendType, BoundNames DEF Disconnect, TypeOK
  <2>2. QED BY <1>12, <2>1, EventsAreNumbers DEF Disconnect, TypeOK, queueVars, hubVars
<1>13. ASSUME NEW w \in Workers, EnqueueFails(w) PROVE TypeOK'
  <2>1. spent' \in [DOMAIN Bounds -> Nat]
    BY <1>13, SpendType, BoundNames DEF EnqueueFails, TypeOK
  <2>2. QED BY <1>13, <2>1, EventsAreNumbers DEF EnqueueFails, TypeOK, queueVars, hubVars
<1>14. ASSUME NEW w \in Workers, NEW gone \in SUBSET Events, NEW old \in SUBSET Events,
              Prune(w, gone, old)
       PROVE  TypeOK'
  <2>1. row' \in [Events -> Rows]
    <3>1. NoRow \in Rows /\ row \in [Events -> Rows]
      BY RowTypes DEF TypeOK, Rows
    <3>2. QED BY <1>14, <3>1 DEF Prune
  <2>2. out' \in [Events -> {"absent", "PENDING", "SENT"}] /\ swept' \subseteq Events
    BY <1>14 DEF Prune, TypeOK
  <2>3. spent' \in [DOMAIN Bounds -> Nat]
    BY <1>14, SpendType, BoundNames DEF Prune, TypeOK
  <2>4. QED BY <1>14, <2>1, <2>2, <2>3 DEF Prune, TypeOK, hubVars, Rows
<1>15. QED
  BY <1>1, <1>2, <1>3, <1>4, <1>5, <1>6, <1>7, <1>8, <1>9, <1>10, <1>11, <1>12,
     <1>13, <1>14
     DEF Next, WorkerStep, Trouble, StreamStep, AckStep

(* Lease, stream, queue and jobs keep their types. *)
THEOREM TypeCorrect == Spec => []TypeOK
BY InitType, NextType, PTL DEF Spec
-----------------------------------------------------------------------------
(* Acknowledgements and deliveries. *)

LEMMA InitInv == Init => Inv
<1>1. ASSUME Init PROVE AcksAreKnown /\ DeliveriesAreGot
  BY <1>1 DEF Init, AcksAreKnown, DeliveriesAreGot, NoRow
<1>2. QED BY <1>1, InitType DEF Inv

LEMMA JobStepInv ==
  ASSUME Inv, NEW w \in Workers, NEW e \in Events,
         JobProgress(w, e) \/ JobFails(w, e)
  PROVE  AcksAreKnown' /\ DeliveriesAreGot'
<1>0. TypeOK /\ AcksAreKnown /\ DeliveriesAreGot /\ row[e] \in Rows
  BY DEF Inv, TypeOK, Rows
<1>1. PICK next \in Jobs, new \in Rows :
        /\ JobStep(w, e, next, new)
        /\ e \in Queued => new.status # "absent"
        /\ new.status = "COMPLETED" =>
             row[e].status = "COMPLETED" \/ job[w][e] = "sent" \/ out[e] = "SENT"
        /\ next \in {"delivered", "sent"} =>
             hubGot'[e] > 0 \/ job[w][e] = "delivered"
  <2>1. hubGot[e] \in Nat
    BY <1>0 DEF TypeOK
  <2>2. CASE StartProcessing(w, e)
    <3> DEFINE new == [row[e] EXCEPT !.status = "PROCESSING", !.attempts = @ + 1]
    <3>1. JobStep(w, e, "asking", new) /\ new \in Rows /\ new.status = "PROCESSING"
      BY <1>0, <2>2, RowTypes DEF StartProcessing, Rows
    <3>2. QED BY <3>1 DEF Jobs
  <2>3. CASE BrainSaysNothing(w, e)
    <3> DEFINE new == [row[e] EXCEPT !.status = "SUPPRESSED"]
    <3>1. JobStep(w, e, "none", new) /\ new \in Rows /\ new.status = "SUPPRESSED"
      BY <1>0, <2>3, RowTypes DEF BrainSaysNothing, Rows
    <3>2. QED BY <3>1 DEF Jobs
  <2>4. CASE BrainReplies(w, e) /\ MayReserve(out[e])
    <3>1. JobStep(w, e, "sending", row[e])
      BY <2>4 DEF BrainReplies
    <3>2. QED BY <1>0, <3>1 DEF Jobs, Queued
  <2>5. CASE BrainReplies(w, e) /\ ~MayReserve(out[e])
    <3> DEFINE new == [row[e] EXCEPT !.status = "COMPLETED"]
    <3>1. JobStep(w, e, "none", new) /\ new \in Rows /\ new.status = "COMPLETED"
      BY <1>0, <2>5, RowTypes DEF BrainReplies, Rows
    <3>2. out[e] = "SENT"
      BY <2>5 DEF MayReserve
    <3>3. QED BY <3>1, <3>2 DEF Jobs
  <2>6. CASE HubExecutes(w, e)
    <3>1. JobStep(w, e, "delivered", row[e]) /\ hubGot'[e] > 0
      BY <1>0, <2>1, <2>6 DEF HubExecutes, TypeOK
    <3>2. QED BY <1>0, <3>1 DEF Jobs, Queued
  <2>7. CASE MarkSent(w, e)
    <3>1. JobStep(w, e, "sent", row[e]) /\ job[w][e] = "delivered"
      BY <2>7 DEF MarkSent
    <3>2. QED BY <1>0, <3>1 DEF Jobs, Queued
  <2>8. CASE Complete(w, e)
    <3> DEFINE new == [row[e] EXCEPT !.status = "COMPLETED"]
    <3>1. JobStep(w, e, "none", new) /\ new \in Rows /\ new.status = "COMPLETED"
      BY <1>0, <2>8, RowTypes DEF Complete, Rows
    <3>2. job[w][e] = "sent"
      BY <2>8 DEF Complete
    <3>3. QED BY <3>1, <3>2 DEF Jobs
  <2>9. CASE BrainFails(w, e) \/ SendFails(w, e)
    <3>1. JobStep(w, e, "none", AfterFailure(row[e])) /\ AfterFailure(row[e]) \in Rows
      BY <1>0, <2>9, RowTypes DEF BrainFails, SendFails
    <3>2. AfterFailure(row[e]).status \in {"FAILED", "ACKNOWLEDGED"}
      BY <1>0 DEF AfterFailure, Rows
    <3>3. QED BY <3>1, <3>2 DEF Jobs
  <2>10. CASE UpdateFails(w, e)
    <3>1. JobStep(w, e, "none", row[e])
      BY <2>10 DEF UpdateFails
    <3>2. QED BY <1>0, <3>1 DEF Jobs, Queued
  <2>11. QED
    BY <2>2, <2>3, <2>4, <2>5, <2>6, <2>7, <2>8, <2>9, <2>10 DEF JobProgress, JobFails
<1>2. /\ job' \in [Workers -> [Events -> Jobs]]
      /\ row' \in [Events -> Rows]
      /\ \A v \in Workers, f \in Events :
           job'[v][f] = IF v = w /\ f = e THEN next ELSE job[v][f]
      /\ \A f \in Events \ {e} : row'[f] = row[f]
      /\ row'[e] = IF e \in Queued THEN new ELSE row[e]
      /\ UNCHANGED <<acking, batch, hubAck, swept>>
  BY <1>0, <1>1, JobRow
<1>3. Queued \subseteq Queued'
  <2>1. ASSUME NEW f \in Events, row[f].status # "absent"
        PROVE  row'[f].status # "absent"
    <3>1. CASE f # e
      BY <1>2, <2>1, <3>1
    <3>2. CASE f = e
      BY <1>1, <1>2, <2>1, <3>2 DEF Queued
    <3>3. QED BY <3>1, <3>2
  <2>2. QED BY <2>1 DEF Queued
<1>4. AcksAreKnown'
  BY <1>0, <1>2, <1>3 DEF AcksAreKnown, Known
<1>5. /\ \A f \in Events : hubGot[f] > 0 => hubGot'[f] > 0
      /\ out'[e] = "SENT" => out[e] = "SENT" \/ job[w][e] = "delivered"
      /\ \A f \in Events \ {e} : out'[f] = out[f]
  <2>1. hubGot \in [Events -> Nat] /\ out \in [Events -> {"absent", "PENDING", "SENT"}]
    BY <1>0 DEF TypeOK
  <2>2. hubGot' \in {hubGot, [hubGot EXCEPT ![e] = @ + 1]}
    BY DEF JobProgress, StartProcessing, BrainSaysNothing, BrainReplies,
           HubExecutes, MarkSent, Complete, JobFails, BrainFails, SendFails, UpdateFails
  <2>3. \/ out' = out
        \/ out' = [out EXCEPT ![e] = IF @ = "absent" THEN "PENDING" ELSE @]
        \/ /\ job[w][e] = "delivered"
           /\ out' = [out EXCEPT ![e] = IF @ = "absent" THEN @ ELSE "SENT"]
    BY DEF JobProgress, StartProcessing, BrainSaysNothing, BrainReplies,
           HubExecutes, MarkSent, Complete, JobFails, BrainFails, SendFails, UpdateFails
  <2>4. ASSUME NEW f \in Events, hubGot[f] > 0 PROVE hubGot'[f] > 0
    BY <2>1, <2>2, <2>4
  <2>5. out'[e] = "SENT" => out[e] = "SENT" \/ job[w][e] = "delivered"
    BY ONLY <2>1, <2>3, e \in Events
  <2>6. \A f \in Events \ {e} : out'[f] = out[f]
    BY ONLY <2>1, <2>3
  <2>7. QED BY <2>4, <2>5, <2>6
<1>6. ASSUME NEW f \in Events, ~(hubGot'[f] > 0)
      PROVE  /\ out'[f] # "SENT" /\ row'[f].status # "COMPLETED"
             /\ \A v \in Workers : job'[v][f] \notin {"delivered", "sent"}
  <2>1. /\ out[f] # "SENT" /\ row[f].status # "COMPLETED"
        /\ \A v \in Workers : job[v][f] \notin {"delivered", "sent"}
    BY <1>0, <1>5, <1>6 DEF DeliveriesAreGot
  <2>2. CASE f # e
    BY <1>2, <1>5, <2>1, <2>2
  <2>3. CASE f = e
    BY <1>1, <1>2, <1>5, <1>6, <2>1, <2>3
  <2>4. QED BY <2>2, <2>3
<1>7. QED BY <1>4, <1>6 DEF DeliveriesAreGot

LEMMA AckStepInv ==
  ASSUME Inv, NEW w \in Workers,
         StreamAck(w) \/ \E e \in Events : AckWorkerAck(w, e)
  PROVE  AcksAreKnown' /\ DeliveriesAreGot'
<1>0. TypeOK /\ AcksAreKnown /\ DeliveriesAreGot
  BY DEF Inv
<1>1. PICK e \in Events : (AckReturns(e) \/ AckUnrecorded(e)) /\ e \in Known
  <2>1. ASSUME StreamAck(w) PROVE acking[w] \in Events /\ acking[w] \in Known
    BY <1>0, <2>1, EventsAreNumbers DEF StreamAck, TypeOK, Events, AcksAreKnown
  <2>2. ASSUME NEW e \in Events, AckWorkerAck(w, e) PROVE e \in Known
    BY <1>0, <2>2 DEF AckWorkerAck, AcksAreKnown
  <2>3. QED BY <2>1, <2>2 DEF StreamAck, AckWorkerAck
<1>2. /\ hubAck' \in {hubAck, hubAck \cup {e}}
      /\ \A f \in Events :
           \/ row'[f].status = row[f].status
           \/ row[f].status = "RECEIVED" /\ row'[f].status = "ACKNOWLEDGED"
  BY <1>0, <1>1, AckRow
<1>3. UNCHANGED <<job, out, hubGot, swept>>
  BY DEF StreamAck, AckWorkerAck
<1>4. Known \subseteq Known'
  BY <1>2, <1>3 DEF Known, Queued
<1>5. ASSUME NEW v \in Workers
      PROVE  batch'[v] \subseteq batch[v] /\ acking'[v] \in {acking[v], 0}
  BY <1>0 DEF StreamAck, AckWorkerAck, TypeOK
<1>6. AcksAreKnown'
  BY <1>0, <1>1, <1>2, <1>4, <1>5 DEF AcksAreKnown
<1>7. DeliveriesAreGot'
  BY <1>0, <1>2, <1>3 DEF DeliveriesAreGot
<1>8. QED BY <1>6, <1>7

LEMMA NextInv == Inv /\ [Next]_vars => Inv'
<1> SUFFICES ASSUME Inv, [Next]_vars PROVE AcksAreKnown' /\ DeliveriesAreGot'
  BY NextType DEF Inv
<1>0. TypeOK /\ AcksAreKnown /\ DeliveriesAreGot
  BY DEF Inv
<1> USE <1>0
<1>1. CASE UNCHANGED vars
  BY <1>1 DEF vars, AcksAreKnown, DeliveriesAreGot, Known, Queued
<1>2. ASSUME NEW w \in Workers, Acquire(w) \/ Connect(w) \/ Disconnect(w) \/ EnqueueFails(w)
      PROVE  AcksAreKnown' /\ DeliveriesAreGot'
  BY <1>2 DEF Acquire, Connect, Disconnect, EnqueueFails, queueVars, hubVars,
              AcksAreKnown, DeliveriesAreGot, Known, Queued
<1>3. ASSUME NEW w \in Workers, Abdicate(w) PROVE AcksAreKnown' /\ DeliveriesAreGot'
  <2>1. UNCHANGED <<row, out, swept, job, hubGot, batch>>
    BY <1>3 DEF Abdicate, queueVars
  <2>2. Known' = Known
    BY <2>1 DEF Known, Queued
  <2>3. hubAck' \subseteq hubAck \cup ({acking[w]} \ {0})
    BY <1>3, EventsAreNumbers DEF Abdicate, Cancelled
  <2>4. \A v \in Workers : acking'[v] \in {acking[v], 0}
    BY <1>3 DEF Abdicate, TypeOK
  <2>5. AcksAreKnown'
    BY <2>1, <2>2, <2>3, <2>4 DEF AcksAreKnown
  <2>6. QED BY <2>1, <2>5 DEF DeliveriesAreGot
<1>4. ASSUME NEW w \in Workers, Receive(w) PROVE AcksAreKnown' /\ DeliveriesAreGot'
  <2>1. UNCHANGED <<out, swept, job, hubGot, hubAck, batch>>
    BY <1>4 DEF Receive, hubVars
  <2>2. CASE stream[w] \in Queued
    BY <1>4, <2>1, <2>2 DEF Receive, AcksAreKnown, DeliveriesAreGot, Known, Queued
  <2>3. CASE stream[w] \notin Queued
    <3>1. /\ row' = [row EXCEPT ![stream[w]] = [NoRow EXCEPT !.status = "RECEIVED"]]
          /\ acking' = [acking EXCEPT ![w] = stream[w]]
          /\ stream[w] \in Events
      BY <1>4, <2>3 DEF Receive
    <3>2. \A e \in Events :
            row'[e] = IF e = stream[w] THEN [NoRow EXCEPT !.status = "RECEIVED"] ELSE row[e]
      BY <3>1 DEF TypeOK
    <3>3. [NoRow EXCEPT !.status = "RECEIVED"].status = "RECEIVED"
      BY DEF NoRow
    <3>4. Known \subseteq Known' /\ stream[w] \in Known'
      BY <2>1, <3>1, <3>2, <3>3 DEF Known, Queued
    <3>5. \A v \in Workers : acking'[v] \in {acking[v], stream[w]}
      BY <3>1 DEF TypeOK
    <3>6. AcksAreKnown'
      BY <2>1, <3>4, <3>5 DEF AcksAreKnown
    <3>7. DeliveriesAreGot'
      BY <2>1, <3>2, <3>3 DEF DeliveriesAreGot
    <3>8. QED BY <3>6, <3>7
  <2>4. QED BY <2>2, <2>3
<1>5. ASSUME NEW w \in Workers, StreamAck(w) \/ \E e \in Events : AckWorkerAck(w, e)
      PROVE  AcksAreKnown' /\ DeliveriesAreGot'
  BY <1>5, AckStepInv
<1>6. ASSUME NEW w \in Workers, AckWorkerReads(w)
      PROVE  AcksAreKnown' /\ DeliveriesAreGot'
  <2>1. UNCHANGED <<row, out, swept, job, hubGot, hubAck, acking>>
    BY <1>6 DEF AckWorkerReads, queueVars, hubVars
  <2>2. Known' = Known
    BY <2>1 DEF Known, Queued
  <2>3. \A v \in Workers : batch'[v] = batch[v] \/ batch'[v] \subseteq Queued
    BY <1>6 DEF AckWorkerReads, TypeOK, PendingAcks
  <2>4. AcksAreKnown'
    BY <2>1, <2>2, <2>3 DEF AcksAreKnown, Known
  <2>5. QED BY <2>1, <2>4 DEF DeliveriesAreGot
<1>7. ASSUME NEW w \in Workers, Fetch(w) PROVE AcksAreKnown' /\ DeliveriesAreGot'
  <2>1. UNCHANGED <<row, out, swept, hubGot, hubAck, acking, batch>>
    BY <1>7 DEF Fetch, queueVars, hubVars
  <2>2. \A v \in Workers, e \in Events :
          job'[v][e] = job[v][e] \/ job'[v][e] \in {"fetched", "none"}
    BY <1>7 DEF Fetch, TypeOK
  <2>3. QED BY <2>1, <2>2 DEF AcksAreKnown, DeliveriesAreGot, Known, Queued
<1>8. ASSUME NEW w \in Workers, NEW e \in Events,
             JobProgress(w, e) \/ JobFails(w, e)
      PROVE  AcksAreKnown' /\ DeliveriesAreGot'
  BY <1>8, JobStepInv
<1>9. CASE LeaseLost
  BY <1>9 DEF LeaseLost, queueVars, hubVars, AcksAreKnown, DeliveriesAreGot, Known, Queued
<1>10. ASSUME NEW w \in Workers, Restart(w) PROVE AcksAreKnown' /\ DeliveriesAreGot'
  <2>1. UNCHANGED <<row, out, swept, hubGot>>
    BY <1>10 DEF Restart, queueVars
  <2>2. Known' = Known
    BY <2>1 DEF Known, Queued
  <2>3. hubAck' \subseteq hubAck \cup ({acking[w]} \ {0}) \cup batch[w]
    BY <1>10, EventsAreNumbers DEF Restart, Cancelled
  <2>4. /\ \A v \in Workers : acking'[v] \in {acking[v], 0} /\ batch'[v] \in {batch[v], {}}
        /\ \A v \in Workers, e \in Events : job'[v][e] \in {job[v][e], "none"}
    BY <1>10 DEF Restart, TypeOK
  <2>5. AcksAreKnown'
    BY <2>2, <2>3, <2>4 DEF AcksAreKnown
  <2>6. QED BY <2>1, <2>4, <2>5 DEF DeliveriesAreGot
<1>11. ASSUME NEW w \in Workers, NEW gone \in SUBSET Events, NEW old \in SUBSET Events,
              Prune(w, gone, old)
       PROVE  AcksAreKnown' /\ DeliveriesAreGot'
  <2>1. UNCHANGED <<job, hubGot, hubAck, acking, batch>> /\ swept' = swept \cup gone
    BY <1>11 DEF Prune, hubVars
  <2>2. \A e \in Events : /\ row'[e] = IF e \in gone THEN NoRow ELSE row[e]
                          /\ out'[e] = IF e \in old THEN "absent" ELSE out[e]
    BY <1>11 DEF Prune
  <2>3. Known \subseteq Known'
    BY <2>1, <2>2 DEF Known, Queued
  <2>4. AcksAreKnown'
    BY <2>1, <2>3 DEF AcksAreKnown
  <2>5. DeliveriesAreGot'
    BY <2>1, <2>2 DEF DeliveriesAreGot, NoRow
  <2>6. QED BY <2>4, <2>5
<1>12. QED
  BY <1>1, <1>2, <1>3, <1>4, <1>5, <1>6, <1>7, <1>8, <1>9, <1>10, <1>11
     DEF Next, WorkerStep, Trouble, StreamStep, AckStep

(* Acknowledgements stay behind the queue and completions behind           *)
(* deliveries, in every reachable state.                                   *)
THEOREM Invariance == Spec => []Inv
BY InitInv, NextInv, PTL DEF Spec

(* The hub is never told that an event is taken before it is queued.       *)
THEOREM NothingAckedUnqueued == Spec => []AckedIsQueued
<1>1. Inv => AckedIsQueued
  BY DEF Inv, AcksAreKnown, Known, AckedIsQueued
<1>2. QED BY Invariance, <1>1, PTL

(* An event is completed only if the hub has got a reply to it.            *)
THEOREM NothingCompletedUndelivered == Spec => []CompletedWasDelivered
<1>1. Inv => CompletedWasDelivered
  BY DEF Inv, DeliveriesAreGot, CompletedWasDelivered
<1>2. QED BY Invariance, <1>1, PTL

-----------------------------------------------------------------------------
(* While no lease was lost under its holder. *)

LEMMA InitLeader == Init => LeaderInv
<1>1. Init => WorkUnderLease /\ RowFollowsJob
  BY DEF Init, WorkUnderLease, RowFollowsJob
<1>2. QED BY <1>1, InitType DEF LeaderInv

(* A lost lease is never forgotten. *)
LEMMA LeaseWasKept ==
  ASSUME TypeOK, [Next]_vars, LeaseKept'
  PROVE  LeaseKept /\ ~LeaseLost
<1>1. spent \in [DOMAIN Bounds -> Nat] /\ "expiries" \in DOMAIN Bounds
  BY BoundNames DEF TypeOK
<1>2. \/ UNCHANGED spent
      \/ \E b \in {"errors", "restarts", "writeErrors", "prunes"} : Spend(b)
      \/ LeaseLost
  <2> DEFINE Quiet == UNCHANGED spent \/ Spend("errors") \/ Spend("writeErrors")
  <2>1. ASSUME NEW w \in Workers, WorkerStep(w)
        PROVE  Quiet
    <3>1. ASSUME StreamStep(w) PROVE Quiet
      <4>1. CASE Connect(w) \/ Receive(w)
        BY <4>1 DEF Connect, Receive
      <4>2. CASE StreamAck(w)
        <5>1. AckReturns(acking[w]) \/ AckUnrecorded(acking[w])
          BY <4>2 DEF StreamAck
        <5>2. QED BY ONLY <5>1 DEF AckReturns, AckUnrecorded
      <4>3. QED BY <3>1, <4>1, <4>2 DEF StreamStep
    <3>2. ASSUME AckStep(w) PROVE Quiet
      <4>1. CASE AckWorkerReads(w)
        BY <4>1 DEF AckWorkerReads
      <4>2. ASSUME NEW e \in Events, AckWorkerAck(w, e)
            PROVE  Quiet
        <5>1. AckReturns(e) \/ AckUnrecorded(e)
          BY <4>2 DEF AckWorkerAck
        <5>2. QED BY ONLY <5>1 DEF AckReturns, AckUnrecorded
      <4>3. QED BY <3>2, <4>1, <4>2 DEF AckStep
    <3>3. ASSUME NEW e \in Events, JobProgress(w, e) PROVE UNCHANGED spent
      <4>1. CASE StartProcessing(w, e) \/ BrainSaysNothing(w, e) \/ HubExecutes(w, e)
        BY ONLY <4>1 DEF StartProcessing, BrainSaysNothing, HubExecutes
      <4>2. CASE BrainReplies(w, e)
        BY ONLY <4>2 DEF BrainReplies
      <4>3. CASE MarkSent(w, e) \/ Complete(w, e)
        BY ONLY <4>3 DEF MarkSent, Complete
      <4>4. QED BY <3>3, <4>1, <4>2, <4>3 DEF JobProgress
    <3>4. ASSUME Acquire(w) \/ Abdicate(w) \/ Fetch(w)
          PROVE  Quiet
      BY <3>4 DEF Acquire, Abdicate, Fetch
    <3>5. QED BY <2>1, <3>1, <3>2, <3>3, <3>4 DEF WorkerStep
  <2>2. ASSUME Trouble
        PROVE  LeaseLost \/ \E b \in {"errors", "restarts", "writeErrors"} : Spend(b)
    BY <2>2 DEF Trouble, Restart, Disconnect, EnqueueFails, JobFails, BrainFails, SendFails, UpdateFails
  <2>3. ASSUME NEW w \in Workers, NEW gone \in SUBSET Events, NEW old \in SUBSET Events,
               Prune(w, gone, old)
        PROVE  Spend("prunes")
    BY <2>3 DEF Prune
  <2>4. CASE UNCHANGED vars
    BY <2>4 DEF vars
  <2>5. QED BY <2>1, <2>2, <2>3, <2>4 DEF Next
<1>3. ASSUME Spend("expiries") PROVE FALSE
  BY <1>1, <1>3 DEF Spend, LeaseKept
<1>4. ASSUME NEW b \in {"errors", "restarts", "writeErrors", "prunes"}, Spend(b)
      PROVE  spent'["expiries"] = spent["expiries"]
  BY <1>1, <1>4 DEF Spend
<1>5. QED BY <1>2, <1>3, <1>4 DEF LeaseKept, LeaseLost

(* What a step of the work on e makes of its row. *)
LEMMA JobStatus ==
  ASSUME LeaderInv, LeaseKept, NEW w \in Workers, NEW e \in Events,
         JobProgress(w, e) \/ JobFails(w, e)
  PROVE  /\ row[e].status \in {"ACKNOWLEDGED", "PROCESSING"}
         /\ job[w][e] # "none"
         /\ \E next \in Jobs, new \in Rows :
              /\ JobStep(w, e, next, new)
              /\ next \in {"none", "asking", "sending", "delivered", "sent"}
              /\ next # "none" => new.status = "PROCESSING"
              /\ next \in {"sending", "delivered"} => out'[e] = "PENDING"
         /\ \A f \in Events \ {e} : out'[f] = out[f] /\ hubGot'[f] = hubGot[f]
         /\ out[e] = "SENT" => hubGot'[e] = hubGot[e]
<1>0. /\ TypeOK /\ row[e] \in Rows
      /\ job[w][e] = "fetched" => row[e].status = "ACKNOWLEDGED"
      /\ job[w][e] \in {"asking", "sending", "delivered", "sent"} =>
           row[e].status = "PROCESSING"
      /\ job[w][e] \in {"sending", "delivered"} => out[e] = "PENDING"
  BY DEF LeaderInv, TypeOK, Rows, RowFollowsJob
<1>1. out \in [Events -> {"absent", "PENDING", "SENT"}] /\ hubGot \in [Events -> Nat]
  BY <1>0 DEF TypeOK
<1>2. CASE StartProcessing(w, e)
  <2> DEFINE new == [row[e] EXCEPT !.status = "PROCESSING", !.attempts = @ + 1]
  <2>1. JobStep(w, e, "asking", new) /\ new \in Rows /\ new.status = "PROCESSING"
    BY <1>0, <1>2, RowTypes DEF StartProcessing, Rows
  <2>2. QED BY <1>0, <1>2, <2>1 DEF StartProcessing, Jobs
<1>3. CASE BrainSaysNothing(w, e)
  <2>1. JobStep(w, e, "none", [row[e] EXCEPT !.status = "SUPPRESSED"])
    BY <1>3 DEF BrainSaysNothing
  <2>2. QED BY <1>0, <1>3, <2>1, RowTypes DEF BrainSaysNothing, Jobs
<1>4. CASE BrainReplies(w, e) /\ MayReserve(out[e])
  <2>1. JobStep(w, e, "sending", row[e]) /\ job[w][e] = "asking"
    BY <1>4 DEF BrainReplies
  <2>2. out'[e] = "PENDING"
    BY <1>1, <1>4 DEF BrainReplies, MayReserve
  <2>3. QED BY <1>0, <1>1, <1>4, <2>1, <2>2 DEF BrainReplies, Jobs
<1>5. CASE BrainReplies(w, e) /\ ~MayReserve(out[e])
  <2>1. JobStep(w, e, "none", [row[e] EXCEPT !.status = "COMPLETED"])
    BY <1>5 DEF BrainReplies
  <2>2. QED BY <1>0, <1>5, <2>1, RowTypes DEF BrainReplies, Jobs
<1>6. CASE HubExecutes(w, e)
  <2>1. JobStep(w, e, "delivered", row[e]) /\ job[w][e] = "sending"
    BY <1>6 DEF HubExecutes
  <2>2. QED BY <1>0, <1>1, <1>6, <2>1 DEF HubExecutes, Jobs
<1>7. CASE MarkSent(w, e)
  <2>1. JobStep(w, e, "sent", row[e]) /\ job[w][e] = "delivered"
    BY <1>7 DEF MarkSent
  <2>2. QED BY <1>0, <1>1, <1>7, <2>1 DEF MarkSent, Jobs
<1>8. CASE Complete(w, e)
  <2>1. JobStep(w, e, "none", [row[e] EXCEPT !.status = "COMPLETED"])
    BY <1>8 DEF Complete
  <2>2. QED BY <1>0, <1>8, <2>1, RowTypes DEF Complete, Jobs
<1>9. CASE BrainFails(w, e) \/ SendFails(w, e)
  <2>1. JobStep(w, e, "none", AfterFailure(row[e]))
    BY <1>9 DEF BrainFails, SendFails
  <2>2. QED BY <1>0, <1>9, <2>1, RowTypes DEF BrainFails, SendFails, Jobs
<1>10. CASE UpdateFails(w, e)
  <2>1. /\ JobStep(w, e, "none", row[e]) /\ job[w][e] # "none"
        /\ UNCHANGED <<out, hubGot>>
    BY <1>10 DEF UpdateFails
  <2>2. row[e].status \in {"ACKNOWLEDGED", "PROCESSING"}
    BY <1>0, <2>1 DEF TypeOK, Jobs
  <2>3. QED BY <1>0, <2>1, <2>2 DEF Jobs
<1>11. QED
  BY <1>2, <1>3, <1>4, <1>5, <1>6, <1>7, <1>8, <1>9, <1>10 DEF JobProgress, JobFails

LEMMA JobStepLeader ==
  ASSUME LeaderInv, LeaseKept, NEW w \in Workers, NEW e \in Events,
         JobProgress(w, e) \/ JobFails(w, e)
  PROVE  WorkUnderLease' /\ RowFollowsJob'
<1>0. TypeOK /\ WorkUnderLease /\ RowFollowsJob
  BY DEF LeaderInv
<1>1. e \in Queued /\ job[w][e] # "none"
  BY JobStatus DEF Queued
<1>2. PICK next \in Jobs, new \in Rows :
        /\ JobStep(w, e, next, new)
        /\ next \in {"none", "asking", "sending", "delivered", "sent"}
        /\ next # "none" => new.status = "PROCESSING"
        /\ next \in {"sending", "delivered"} => out'[e] = "PENDING"
  BY JobStatus
<1>3. /\ \A v \in Workers, f \in Events :
           job'[v][f] = IF v = w /\ f = e THEN next ELSE job[v][f]
      /\ \A f \in Events \ {e} : row'[f] = row[f]
      /\ row'[e] = new
      /\ UNCHANGED <<lease, leader>>
  BY <1>0, <1>1, <1>2, JobRow
<1>4. \A f \in Events \ {e} : out'[f] = out[f]
  BY JobStatus
<1>5. \A v \in Workers, f \in Events : job[v][f] # "none" => v = w
  <2>1. \A v \in Workers, f \in Events : job[v][f] # "none" => lease = v
    BY <1>0 DEF WorkUnderLease
  <2>2. QED BY <1>1, <2>1
<1>6. ASSUME NEW v \in Workers, NEW f \in Events
      PROVE  /\ job'[v][f] = "fetched" => row'[f].status = "ACKNOWLEDGED"
             /\ job'[v][f] \in {"asking", "sending", "delivered", "sent"} =>
                  row'[f].status = "PROCESSING"
             /\ job'[v][f] \in {"sending", "delivered"} => out'[f] = "PENDING"
  <2>1. CASE v # w
    BY <1>3, <1>5, <2>1
  <2>2. CASE v = w /\ f = e
    BY <1>2, <1>3, <2>2
  <2>3. CASE v = w /\ f # e
    BY <1>0, <1>3, <1>4, <2>3 DEF RowFollowsJob
  <2>4. QED BY <2>1, <2>2, <2>3
<1>7. WorkUnderLease'
  BY <1>0, <1>1, <1>3 DEF WorkUnderLease
<1>8. QED BY <1>6, <1>7 DEF RowFollowsJob

(* A step that is not of the work on an event: jobs only begin or end, and *)
(* rows at work keep their status.                                         *)
LEMMA OtherStep ==
  ASSUME TypeOK, [Next]_vars,
         ~\E w \in Workers, e \in Events :
            JobProgress(w, e) \/ JobFails(w, e)
  PROVE  /\ hubGot' = hubGot
         /\ \A w \in Workers, e \in Events :
              \/ job'[w][e] \in {job[w][e], "none"}
              \/ job'[w][e] = "fetched" /\ row[e].status = "ACKNOWLEDGED" /\ leader[w]
         /\ \A e \in Events :
              \/ row'[e].status = row[e].status
              \/ row[e].status = "absent"
              \/ row[e].status = "RECEIVED" /\ row'[e].status = "ACKNOWLEDGED"
              \/ /\ row[e].status \in Terminal /\ row'[e].status = "absent"
                 /\ \A w \in Workers : job'[w][e] = "none"
         /\ \A e \in Events : out'[e] = out[e] \/ out[e] = "SENT"
<1>1. CASE UNCHANGED vars
  BY <1>1 DEF vars
<1>2. ASSUME NEW w \in Workers,
             \/ Acquire(w) \/ Abdicate(w) \/ Connect(w) \/ AckWorkerReads(w)
             \/ Disconnect(w) \/ EnqueueFails(w)
      PROVE  UNCHANGED <<job, row, out, hubGot>>
  BY <1>2 DEF Acquire, Abdicate, Connect, AckWorkerReads, Disconnect, EnqueueFails,
              queueVars, hubVars
<1>3. ASSUME NEW w \in Workers, Receive(w)
      PROVE  /\ UNCHANGED <<job, out, hubGot>>
             /\ \A e \in Events : row'[e] = row[e] \/ row[e].status = "absent"
  BY <1>3 DEF Receive, hubVars, Queued, TypeOK
<1>4. ASSUME NEW w \in Workers, StreamAck(w) \/ \E e \in Events : AckWorkerAck(w, e)
      PROVE  /\ UNCHANGED <<job, out, hubGot>>
             /\ \A e \in Events :
                  \/ row'[e].status = row[e].status
                  \/ row[e].status = "RECEIVED" /\ row'[e].status = "ACKNOWLEDGED"
  <2>1. PICK e \in Events : (AckReturns(e) \/ AckUnrecorded(e))
    <3>1. ASSUME StreamAck(w) PROVE acking[w] \in Events
      BY <3>1, EventsAreNumbers DEF StreamAck, TypeOK, Events
    <3>2. QED BY <1>4, <3>1 DEF StreamAck, AckWorkerAck
  <2>2. QED BY <1>4, <2>1, AckRow DEF StreamAck, AckWorkerAck
<1>5. ASSUME NEW w \in Workers, Fetch(w)
      PROVE  /\ UNCHANGED <<row, out, hubGot>>
             /\ \A v \in Workers, e \in Events :
                  \/ job'[v][e] \in {job[v][e], "none"}
                  \/ job'[v][e] = "fetched" /\ row[e].status = "ACKNOWLEDGED" /\ leader[v]
  BY <1>5 DEF Fetch, TypeOK, queueVars, hubVars, Unprocessed, MayProcess
<1>6. ASSUME NEW w \in Workers, Restart(w)
      PROVE  /\ UNCHANGED <<row, out, hubGot>>
             /\ \A v \in Workers, e \in Events : job'[v][e] \in {job[v][e], "none"}
  BY <1>6 DEF Restart, TypeOK, queueVars
<1>7. ASSUME NEW w \in Workers, NEW gone \in SUBSET Events, NEW old \in SUBSET Events,
             Prune(w, gone, old)
      PROVE  /\ UNCHANGED <<job, hubGot>>
             /\ \A e \in Events : out'[e] = out[e] \/ out[e] = "SENT"
             /\ \A e \in Events :
                  \/ row'[e].status = row[e].status
                  \/ /\ row[e].status \in Terminal /\ row'[e].status = "absent"
                     /\ \A v \in Workers : job'[v][e] = "none"
  BY <1>7 DEF Prune, hubVars, NoRow, Idle
<1>8. CASE LeaseLost
  BY <1>8 DEF LeaseLost, queueVars, hubVars
<1>9. QED
  BY <1>1, <1>2, <1>3, <1>4, <1>5, <1>6, <1>7, <1>8
     DEF Next, WorkerStep, Trouble, StreamStep, AckStep

(* Who leads, and for whom the lease stands. *)
LEMMA LeaseStep ==
  ASSUME TypeOK, WorkUnderLease, [Next]_vars, ~LeaseLost
  PROVE  \A v \in Workers :
           /\ leader'[v] => lease' = v
           /\ lease = v => lease' = v
                           \/ (~leader'[v] /\ \A e \in Events : job'[v][e] = "none")
<1>1. CASE UNCHANGED <<lease, leader>>
  BY <1>1 DEF WorkUnderLease
<1>2. ASSUME NEW w \in Workers, Acquire(w)
      PROVE  \A v \in Workers : (leader'[v] => lease' = v) /\ (lease = v => lease' = v)
  BY <1>2, BridgeAssumption DEF Acquire, TypeOK, WorkUnderLease
<1>3. ASSUME NEW w \in Workers, Abdicate(w)
      PROVE  \A v \in Workers : (leader'[v] => lease' = v) /\ (lease = v => lease' = v)
  BY <1>3 DEF Abdicate, TypeOK, WorkUnderLease
<1>4. ASSUME NEW w \in Workers, Restart(w)
      PROVE  \A v \in Workers :
               /\ leader'[v] => lease' = v
               /\ lease = v => lease' = v
                               \/ (~leader'[v] /\ \A e \in Events : job'[v][e] = "none")
  BY <1>4 DEF Restart, TypeOK, WorkUnderLease
<1>5. ASSUME NEW w \in Workers, NEW e \in Events,
             JobProgress(w, e) \/ JobFails(w, e)
      PROVE  UNCHANGED <<lease, leader>>
  BY <1>5
     DEF JobProgress, StartProcessing, BrainSaysNothing, BrainReplies, HubExecutes,
         MarkSent, Complete, JobFails, BrainFails, SendFails, UpdateFails, JobStep
<1>6. ASSUME NEW w \in Workers,
             \/ StreamStep(w) \/ AckStep(w) \/ Fetch(w) \/ Disconnect(w) \/ EnqueueFails(w)
             \/ \E gone, old \in SUBSET Events : Prune(w, gone, old)
      PROVE  UNCHANGED <<lease, leader>>
  BY <1>6
     DEF StreamStep, AckStep, Connect, Receive, StreamAck, AckWorkerReads,
         AckWorkerAck, Fetch, Disconnect, EnqueueFails, Prune
<1>7. CASE UNCHANGED vars
  BY <1>1, <1>7 DEF vars
<1>8. QED
  BY <1>1, <1>2, <1>3, <1>4, <1>5, <1>6, <1>7 DEF Next, WorkerStep, Trouble

LEMMA NextLeader ==
  ASSUME LeaderInv, [Next]_vars
  PROVE  LeaderInv'
<1>0. TypeOK /\ TypeOK'
  BY NextType DEF LeaderInv
<1>1. SUFFICES ASSUME LeaseKept' PROVE WorkUnderLease' /\ RowFollowsJob'
  BY <1>0 DEF LeaderInv
<1>2. LeaseKept /\ ~LeaseLost /\ WorkUnderLease /\ RowFollowsJob
  BY <1>0, <1>1, LeaseWasKept DEF LeaderInv
<1>3. CASE \E w \in Workers, e \in Events :
             JobProgress(w, e) \/ JobFails(w, e)
  BY <1>2, <1>3, JobStepLeader
<1>4. CASE ~\E w \in Workers, e \in Events :
              JobProgress(w, e) \/ JobFails(w, e)
  <2>1. ASSUME NEW w \in Workers, NEW e \in Events
        PROVE  /\ job'[w][e] = "fetched" => row'[e].status = "ACKNOWLEDGED"
               /\ job'[w][e] \in {"asking", "sending", "delivered", "sent"} =>
                    row'[e].status = "PROCESSING"
               /\ job'[w][e] \in {"sending", "delivered"} => out'[e] = "PENDING"
    BY <1>0, <1>2, <1>4, OtherStep DEF RowFollowsJob, Terminal
  <2>2. ASSUME NEW w \in Workers, NEW e \in Events, job'[w][e] # "none"
        PROVE  lease' = w
    <3>1. lease = w
      BY <1>0, <1>2, <1>4, <2>2, OtherStep DEF WorkUnderLease
    <3>2. QED BY <1>0, <1>2, <2>2, <3>1, LeaseStep
  <2>3. \A w \in Workers : leader'[w] => lease' = w
    BY <1>0, <1>2, LeaseStep
  <2>4. QED BY <2>1, <2>2, <2>3 DEF RowFollowsJob, WorkUnderLease
<1>5. QED BY <1>3, <1>4

(* While no lease was lost, only its holder works, and row, reply and work *)
(* of an event never diverge.                                              *)
THEOREM LeaderInvariance == Spec => []LeaderInv
<1>1. LeaderInv /\ [Next]_vars => LeaderInv'
  BY NextLeader
<1>2. QED BY InitLeader, <1>1, PTL DEF Spec

(* While no lease was lost, no late acknowledgement or retry takes an event *)
(* out of a terminal status.                                               *)
THEOREM TerminalIsFinal == Spec => TerminalStays
<1>1. ASSUME LeaderInv, LeaseKept, [Next]_vars,
             NEW e \in Events, row[e].status \in Terminal
      PROVE  row'[e].status \in {row[e].status, "absent"}
  <2>1. ASSUME NEW w \in Workers, NEW f \in Events,
               JobProgress(w, f) \/ JobFails(w, f)
        PROVE  row'[e] = row[e]
    <3>1. e # f
      BY <1>1, <2>1, JobStatus DEF Terminal
    <3>2. PICK next \in Jobs, new \in Rows : JobStep(w, f, next, new)
      BY <1>1, <2>1, JobStatus
    <3>3. QED BY <1>1, <3>1, <3>2, JobRow DEF LeaderInv
  <2>2. CASE ~\E w \in Workers, f \in Events :
                JobProgress(w, f) \/ JobFails(w, f)
    BY <1>1, <2>2, OtherStep DEF LeaderInv, Terminal
  <2>3. QED BY <2>1, <2>2
<1>2. LeaderInv /\ [Next]_vars =>
        [LeaseKept => \A e \in Events : row[e].status \in Terminal =>
           row'[e].status \in {row[e].status, "absent"}]_vars
  BY <1>1
<1>3. QED BY <1>2, LeaderInvariance, PTL DEF Spec, TerminalStays

(* While no lease was lost, a reply that was sent is not requested again.  *)
THEOREM SentOnce == Spec => SentIsFinal
<1>1. ASSUME LeaderInv, LeaseKept, [Next]_vars, NEW e \in Events, out[e] = "SENT"
      PROVE  hubGot'[e] = hubGot[e]
  <2>1. ASSUME NEW w \in Workers, NEW f \in Events,
               JobProgress(w, f) \/ JobFails(w, f)
        PROVE  hubGot'[e] = hubGot[e]
    BY <1>1, <2>1, JobStatus
  <2>2. CASE ~\E w \in Workers, f \in Events :
                JobProgress(w, f) \/ JobFails(w, f)
    BY <1>1, <2>2, OtherStep DEF LeaderInv
  <2>3. QED BY <2>1, <2>2
<1>2. LeaderInv /\ [Next]_vars =>
        [LeaseKept => \A e \in Events : out[e] = "SENT" => hubGot'[e] = hubGot[e]]_vars
  BY <1>1
<1>3. QED BY <1>2, LeaderInvariance, PTL DEF Spec, SentIsFinal

-----------------------------------------------------------------------------
(* Refinement of InboxPromise.                                             *)

(* A step of the work on e keeps its row. *)
LEMMA JobUpdate ==
  ASSUME NEW w \in Workers, NEW e \in Events, row[e] \in Rows, row[e].status # "absent",
         JobProgress(w, e) \/ JobFails(w, e)
  PROVE  \E next \in Jobs, new \in Rows :
           JobStep(w, e, next, new) /\ new.status # "absent"
<1> DEFINE started == [row[e] EXCEPT !.status = "PROCESSING", !.attempts = @ + 1]
           silent == [row[e] EXCEPT !.status = "SUPPRESSED"]
           done == [row[e] EXCEPT !.status = "COMPLETED"]
<1>1. /\ {started, silent, done, AfterFailure(row[e])} \subseteq Rows
      /\ started.status # "absent" /\ silent.status # "absent" /\ done.status # "absent"
      /\ AfterFailure(row[e]).status # "absent"
  <2>1. {started, silent, done, AfterFailure(row[e])} \subseteq Rows
    BY RowTypes
  <2>2. started.status = "PROCESSING" /\ silent.status = "SUPPRESSED" /\ done.status = "COMPLETED"
    BY DEF Rows
  <2>3. AfterFailure(row[e]).status \in {"FAILED", "ACKNOWLEDGED"}
    BY RowStatus
  <2> QED
    BY <2>1, <2>2, <2>3
<1>2. \E next \in Jobs, new \in {row[e], started, silent, done, AfterFailure(row[e])} :
        JobStep(w, e, next, new)
  BY DEF JobProgress, StartProcessing, BrainSaysNothing, BrainReplies, HubExecutes,
         MarkSent, Complete, JobFails, BrainFails, SendFails, UpdateFails, Jobs
<1> HIDE DEF started, silent, done
<1> QED
  BY <1>1, <1>2

LEMMA NextQueued ==
  ASSUME TypeOK, JobsAreQueued, [Next]_vars
  PROVE  JobsAreQueued'
<1>1. ASSUME NEW w \in Workers, NEW e \in Events,
             JobProgress(w, e) \/ JobFails(w, e)
      PROVE  JobsAreQueued'
  <2>1. job[w][e] # "none" /\ row[e] \in Rows
    BY <1>1 DEF JobProgress, StartProcessing, BrainSaysNothing, BrainReplies, HubExecutes,
                MarkSent, Complete, JobFails, BrainFails, SendFails, UpdateFails, TypeOK, Rows
  <2>2. e \in Queued
    BY <2>1 DEF JobsAreQueued
  <2>3. PICK next \in Jobs, new \in Rows :
          JobStep(w, e, next, new) /\ new.status # "absent"
    BY <1>1, <2>1, <2>2, JobUpdate DEF Queued
  <2>4. /\ \A v \in Workers, f \in Events :
             job'[v][f] = IF v = w /\ f = e THEN next ELSE job[v][f]
        /\ \A f \in Events \ {e} : row'[f] = row[f]
        /\ row'[e] = new
    BY <2>2, <2>3, JobRow
  <2> QED
    BY <2>2, <2>3, <2>4 DEF JobsAreQueued, Queued
<1>2. CASE ~\E w \in Workers, e \in Events :
              JobProgress(w, e) \/ JobFails(w, e)
  BY <1>2, OtherStep DEF JobsAreQueued, Queued
<1> QED
  BY <1>1, <1>2

(* Only the loss of a lease changes what LeaseKept says. *)
LEMMA LeaseUnchanged ==
  ASSUME TypeOK,
         UNCHANGED spent \/ \E b \in {"errors", "restarts", "writeErrors", "prunes"} : Spend(b)
  PROVE  LeaseKept' = LeaseKept
<1>1. spent'["expiries"] = spent["expiries"]
  <2>1. spent \in [DOMAIN Bounds -> Nat] /\ "expiries" \in DOMAIN Bounds
    BY BoundNames DEF TypeOK
  <2> QED
    BY <2>1 DEF Spend
<1> QED
  BY <1>1 DEF LeaseKept

(* Steps the hub sees nothing of, but perhaps an acknowledgement. *)
LEMMA TellStep ==
  ASSUME NEW some \in SUBSET Events, some \subseteq Known, hubAck' \in {hubAck, hubAck \cup some},
         UNCHANGED <<Known, Places, hubGot, Sealed, LeaseKept>>
  PROVE  [Promise!Next]_Promise!promised
<1>1. CASE hubAck' = hubAck
  BY <1>1 DEF Promise!promised
<1>2. CASE hubAck' = hubAck \cup some
  <2>1. Promise!Tell(some)
    BY <1>2 DEF Promise!Tell
  <2> QED
    BY <2>1 DEF Promise!Next
<1> QED
  BY <1>1, <1>2

LEMMA QueueUnchanged ==
  ASSUME UNCHANGED <<row, out, swept>>
  PROVE  UNCHANGED <<Known, Places, Sealed>>
BY DEF Known, Queued, Places, Sealed

(* The row of one event that is in the queue moves on. *)
LEMMA PlaceStep ==
  ASSUME TypeOK, NEW e \in Queued, row'[e].status # "absent",
         \A f \in Events \ {e} : row'[f] = row[f],
         UNCHANGED <<hubAck, hubGot, swept, Sealed, LeaseKept>>,
         LeaseKept => Place(row[e]) = "open",
         Place(row'[e]) = "completed" => hubGot[e] > 0
  PROVE  [Promise!Next]_Promise!promised
<1> DEFINE how == Place(row'[e])
<1>1. e \in Events /\ row[e].status # "absent"
  BY DEF Queued
<1>2. Known' = Known
  BY <1>1 DEF Known, Queued
<1>3. Places' = [Places EXCEPT ![e] = how]
  BY <1>1 DEF Places
<1>4. /\ Places[e] = Place(row[e]) /\ Places[e] \in {"open", "completed", "quiet"}
      /\ how \in {"open", "completed", "quiet"}
  BY <1>1 DEF Places, Place
<1> HIDE DEF how
<1>5. CASE how # "open"
  <2>1. Promise!Close(e, how)
    BY <1>2, <1>3, <1>4 DEF Promise!Close, how
  <2>2. how \in Promise!Closed
    BY <1>4, <1>5 DEF Promise!Closed
  <2> QED
    BY <1>1, <2>1, <2>2 DEF Promise!Next
<1>6. CASE how = "open" /\ Places[e] # "open"
  <2>1. Promise!Reopen(e)
    BY <1>2, <1>3, <1>4, <1>6 DEF Promise!Reopen, Promise!Closed
  <2> QED
    BY <1>1, <2>1 DEF Promise!Next
<1>7. CASE how = "open" /\ Places[e] = "open"
  <2>1. Places' = Places
    BY <1>3, <1>7 DEF Places
  <2> QED
    BY <1>2, <2>1 DEF Promise!promised
<1> QED
  BY <1>5, <1>6, <1>7

(* A step of the work on e. *)
LEMMA JobPromise ==
  ASSUME Inv, LeaderInv, JobsAreQueued, NEW w \in Workers, NEW e \in Events,
         JobProgress(w, e) \/ JobFails(w, e)
  PROVE  [Promise!Next]_Promise!promised
<1>1. /\ TypeOK /\ row \in [Events -> Rows] /\ row[e] \in Rows
      /\ out \in [Events -> {"absent", "PENDING", "SENT"}] /\ hubGot \in [Events -> Nat]
  BY DEF Inv, TypeOK, Rows
<1>2. job[w][e] # "none"
  BY DEF JobProgress, StartProcessing, BrainSaysNothing, BrainReplies, HubExecutes,
         MarkSent, Complete, JobFails, BrainFails, SendFails, UpdateFails
<1>3. e \in Queued /\ row[e].status # "absent"
  BY <1>2 DEF JobsAreQueued, Queued
<1>4. LeaseKept => /\ row[e].status \in {"ACKNOWLEDGED", "PROCESSING"}
                   /\ Place(row[e]) = "open"
                   /\ job[w][e] = "sending" => out[e] = "PENDING"
  BY JobStatus DEF Place, LeaderInv, RowFollowsJob
<1>5. job[w][e] \in {"delivered", "sent"} \/ out[e] = "SENT" => hubGot[e] > 0
  BY DEF Inv, DeliveriesAreGot
<1>6. /\ UNCHANGED <<hubAck, swept>>
      /\ LeaseKept' = LeaseKept
  <2>1. UNCHANGED spent \/ Spend("errors") \/ Spend("writeErrors")
    BY DEF JobProgress, StartProcessing, BrainSaysNothing, BrainReplies, HubExecutes,
           MarkSent, Complete, JobFails, BrainFails, SendFails, UpdateFails
  <2>2. UNCHANGED <<hubAck, swept>>
    BY DEF JobProgress, StartProcessing, BrainSaysNothing, BrainReplies, HubExecutes,
           MarkSent, Complete, JobFails, BrainFails, SendFails, UpdateFails, JobStep
  <2> QED
    BY <1>1, <2>1, <2>2, LeaseUnchanged
<1>7. ASSUME NEW next \in Jobs, NEW new \in Rows, JobStep(w, e, next, new),
             new.status # "absent", Sealed' = Sealed, hubGot' = hubGot,
             new.status = "COMPLETED" => hubGot[e] > 0
      PROVE  [Promise!Next]_Promise!promised
  <2>1. row'[e] = new /\ \A f \in Events \ {e} : row'[f] = row[f]
    BY <1>1, <1>3, <1>7, JobRow
  <2>2. Place(new) = "completed" => hubGot[e] > 0
    BY <1>7 DEF Place
  <2> QED
    BY <1>1, <1>3, <1>4, <1>6, <1>7, <2>1, <2>2, PlaceStep
<1>8. ASSUME NEW next \in Jobs, JobStep(w, e, next, row[e])
      PROVE  row' = row /\ UNCHANGED <<Known, Places>>
  <2>1. row' = row
    BY <1>1, <1>8 DEF JobStep
  <2> QED
    BY <1>6, <2>1 DEF Known, Queued, Places
<1>9. CASE StartProcessing(w, e)
  <2> DEFINE new == [row[e] EXCEPT !.status = "PROCESSING", !.attempts = @ + 1]
  <2>1. new \in Rows /\ new.status = "PROCESSING"
    BY <1>1, RowTypes DEF Rows
  <2>2. JobStep(w, e, "asking", new) /\ UNCHANGED <<hubGot, out>>
    BY <1>9 DEF StartProcessing
  <2> QED
    BY <1>7, <2>1, <2>2 DEF Sealed, Jobs
<1>10. CASE BrainSaysNothing(w, e)
  <2> DEFINE new == [row[e] EXCEPT !.status = "SUPPRESSED"]
  <2>1. new \in Rows /\ new.status = "SUPPRESSED"
    BY <1>1, RowTypes DEF Rows
  <2>2. JobStep(w, e, "none", new) /\ UNCHANGED <<hubGot, out>>
    BY <1>10 DEF BrainSaysNothing
  <2> QED
    BY <1>7, <2>1, <2>2 DEF Sealed, Jobs
<1>11. CASE BrainReplies(w, e) /\ MayReserve(out[e])
  <2>1. JobStep(w, e, "sending", row[e]) /\ hubGot' = hubGot
    BY <1>11 DEF BrainReplies
  <2>2. Sealed' = Sealed
    BY <1>1, <1>11 DEF BrainReplies, Sealed
  <2> QED
    BY <1>6, <1>8, <2>1, <2>2 DEF Promise!promised, Jobs
<1>12. CASE BrainReplies(w, e) /\ ~MayReserve(out[e])
  <2> DEFINE new == [row[e] EXCEPT !.status = "COMPLETED"]
  <2>1. new \in Rows /\ new.status = "COMPLETED"
    BY <1>1, RowTypes DEF Rows
  <2>2. JobStep(w, e, "none", new) /\ UNCHANGED <<hubGot, out>>
    BY <1>12 DEF BrainReplies
  <2>3. hubGot[e] > 0
    BY <1>5, <1>12 DEF MayReserve
  <2> QED
    BY <1>7, <2>1, <2>2, <2>3 DEF Sealed, Jobs
<1>13. CASE HubExecutes(w, e)
  <2>1. /\ JobStep(w, e, "delivered", row[e]) /\ job[w][e] = "sending"
        /\ hubGot' = [hubGot EXCEPT ![e] = @ + 1] /\ out' = out
    BY <1>13 DEF HubExecutes
  <2>2. UNCHANGED <<Known, Places, Sealed>>
    BY <1>8, <2>1 DEF Sealed, Jobs
  <2>3. Places[e] # "out" /\ (LeaseKept => Places[e] = "open" /\ e \notin Sealed)
    BY <1>3, <1>4, <2>1 DEF Places, Place, Sealed
  <2>4. Promise!Reply(e)
    BY <1>6, <2>1, <2>2, <2>3 DEF Promise!Reply
  <2> QED
    BY <2>4 DEF Promise!Next
<1>14. CASE MarkSent(w, e)
  <2>1. /\ JobStep(w, e, "sent", row[e]) /\ job[w][e] = "delivered" /\ hubGot' = hubGot
        /\ out' = [out EXCEPT ![e] = IF @ = "absent" THEN @ ELSE "SENT"]
    BY <1>14 DEF MarkSent
  <2>2. UNCHANGED <<Known, Places>>
    BY <1>8, <2>1 DEF Jobs
  <2>3. Sealed' \in {Sealed, Sealed \cup {e}}
    BY <1>1, <2>1 DEF Sealed
  <2>4. hubGot[e] > 0 /\ (LeaseKept => Places[e] = "open")
    BY <1>4, <1>5, <2>1 DEF Places
  <2>5. CASE Sealed' = Sealed
    BY <1>6, <2>1, <2>2, <2>5 DEF Promise!promised
  <2>6. CASE Sealed' = Sealed \cup {e}
    <3>1. Promise!Seal(e)
      BY <1>6, <2>1, <2>2, <2>4, <2>6 DEF Promise!Seal
    <3> QED
      BY <3>1 DEF Promise!Next
  <2> QED
    BY <2>3, <2>5, <2>6
<1>15. CASE Complete(w, e)
  <2> DEFINE new == [row[e] EXCEPT !.status = "COMPLETED"]
  <2>1. new \in Rows /\ new.status = "COMPLETED"
    BY <1>1, RowTypes DEF Rows
  <2>2. JobStep(w, e, "none", new) /\ UNCHANGED <<hubGot, out>> /\ job[w][e] = "sent"
    BY <1>15 DEF Complete
  <2> QED
    BY <1>5, <1>7, <2>1, <2>2 DEF Sealed, Jobs
<1>16. CASE BrainFails(w, e) \/ SendFails(w, e)
  <2> DEFINE new == AfterFailure(row[e])
  <2>1. new \in Rows /\ new.status \in {"FAILED", "ACKNOWLEDGED"}
    BY <1>1, <1>3, RowTypes, RowStatus
  <2>2. JobStep(w, e, "none", new) /\ UNCHANGED <<hubGot, out>>
    BY <1>16 DEF BrainFails, SendFails
  <2> HIDE DEF new
  <2> QED
    BY <1>7, <2>1, <2>2 DEF Sealed, Jobs
<1>17. CASE UpdateFails(w, e)
  <2>1. JobStep(w, e, "none", row[e]) /\ UNCHANGED <<hubGot, out>>
    BY <1>17 DEF UpdateFails
  <2> QED
    BY <1>6, <1>8, <2>1 DEF Promise!promised, Sealed, Jobs
<1> QED
  BY <1>9, <1>10, <1>11, <1>12, <1>13, <1>14, <1>15, <1>16, <1>17 DEF JobProgress, JobFails

(* An instance that abdicates or stops may get its acknowledgements through. *)
LEMMA CancelPromise ==
  ASSUME Inv, NEW w \in Workers, Abdicate(w) \/ Restart(w)
  PROVE  [Promise!Next]_Promise!promised
<1>1. TypeOK /\ batch[w] \subseteq Known /\ {acking[w]} \ {0} \subseteq Known
  BY DEF Inv, AcksAreKnown
<1>2. /\ UNCHANGED <<row, out, swept, hubGot>>
      /\ Cancelled({acking[w]} \cup batch[w]) \/ Cancelled({acking[w]})
      /\ UNCHANGED spent \/ Spend("errors") \/ Spend("restarts")
  BY DEF Abdicate, Restart, queueVars
<1>3. PICK sent \in {{acking[w]} \cup batch[w], {acking[w]}} :
        hubAck' \in {hubAck, hubAck \cup (sent \cap Events)}
  BY <1>2 DEF Cancelled
<1>4. sent \cap Events \subseteq Known /\ sent \cap Events \in SUBSET Events
  BY <1>1, <1>3, EventsAreNumbers
<1>5. LeaseKept' = LeaseKept
  BY <1>1, <1>2, LeaseUnchanged
<1>6. UNCHANGED <<Known, Places, Sealed>>
  BY <1>2, QueueUnchanged
<1> DEFINE some == sent \cap Events
<1> HIDE DEF some
<1>7. some \in SUBSET Events /\ some \subseteq Known /\ hubAck' \in {hubAck, hubAck \cup some}
  BY <1>3, <1>4 DEF some
<1> QED
  BY <1>2, <1>5, <1>6, <1>7, TellStep

LEMMA AckPromise ==
  ASSUME Inv, NEW w \in Workers, StreamAck(w) \/ \E e \in Events : AckWorkerAck(w, e)
  PROVE  [Promise!Next]_Promise!promised
<1>1. TypeOK /\ row \in [Events -> Rows]
  BY DEF Inv, TypeOK, Rows
<1>2. PICK e \in Events : (AckReturns(e) \/ AckUnrecorded(e)) /\ e \in Known
  <2>1. ASSUME StreamAck(w) PROVE acking[w] \in Events /\ acking[w] \in Known
    BY <1>1, <2>1, EventsAreNumbers DEF StreamAck, TypeOK, Events, Inv, AcksAreKnown
  <2>2. ASSUME NEW e \in Events, AckWorkerAck(w, e) PROVE e \in Known
    BY <2>2 DEF AckWorkerAck, Inv, AcksAreKnown
  <2> QED
    BY <2>1, <2>2 DEF StreamAck, AckWorkerAck
<1>3. /\ hubAck' \in {hubAck, hubAck \cup {e}}
      /\ \A f \in Events :
           \/ row'[f].status = row[f].status
           \/ row[f].status = "RECEIVED" /\ row'[f].status = "ACKNOWLEDGED"
  BY <1>1, <1>2, AckRow
<1>4. UNCHANGED <<out, hubGot, swept>>
  BY DEF StreamAck, AckWorkerAck
<1>5. UNCHANGED <<Known, Places, Sealed>>
  <2>1. \A f \in Events : Place(row'[f]) = Place(row[f])
    BY <1>3 DEF Place
  <2>2. Queued' = Queued
    BY <1>3 DEF Queued
  <2> QED
    BY <1>4, <2>1, <2>2 DEF Known, Places, Sealed
<1>6. LeaseKept' = LeaseKept
  BY <1>1, <1>2, LeaseUnchanged DEF AckReturns, AckUnrecorded
<1>7. {e} \in SUBSET Events /\ {e} \subseteq Known
  BY <1>2
<1> QED
  BY <1>3, <1>4, <1>5, <1>6, <1>7, TellStep

LEMMA ReceivePromise ==
  ASSUME TypeOK, NEW w \in Workers, Receive(w)
  PROVE  [Promise!Next]_Promise!promised
<1> DEFINE e == stream[w]
           new == [NoRow EXCEPT !.status = "RECEIVED"]
<1>1. e \in Events /\ UNCHANGED <<out, swept, hubAck, hubGot>> /\ LeaseKept' = LeaseKept
  BY LeaseUnchanged DEF Receive, hubVars
<1>2. CASE e \in Queued
  <2>1. row' = row
    BY <1>2 DEF Receive
  <2> QED
    BY <1>1, <2>1, QueueUnchanged DEF Promise!promised
<1>3. CASE e \notin Queued
  <2>1. row' = [row EXCEPT ![e] = new] /\ row[e].status = "absent"
    BY <1>1, <1>3 DEF Receive, Queued
  <2>2. new.status = "RECEIVED"
    BY DEF NoRow
  <2> HIDE DEF new
  <2>3. row'[e] = new /\ \A f \in Events \ {e} : row'[f] = row[f]
    BY <1>1, <2>1 DEF TypeOK
  <2>4. Known' = Known \cup {e}
    BY <1>1, <2>2, <2>3 DEF Known, Queued
  <2>5. Places' = [Places EXCEPT ![e] = "open"]
    <3>1. Place(new) = "open"
      BY <2>2 DEF Place
    <3> QED
      BY <1>1, <2>3, <3>1 DEF Places
  <2>6. Places[e] = "out"
    BY <1>1, <2>1 DEF Places, Place
  <2>7. Promise!Take(e)
    BY <1>1, <2>4, <2>5, <2>6 DEF Promise!Take, Sealed
  <2> QED
    BY <1>1, <2>7 DEF Promise!Next
<1> QED
  BY <1>2, <1>3

LEMMA PrunePromise ==
  ASSUME TypeOK, NEW w \in Workers, NEW gone \in SUBSET Events, NEW old \in SUBSET Events,
         Prune(w, gone, old)
  PROVE  [Promise!Next]_Promise!promised
<1>1. UNCHANGED <<hubAck, hubGot>> /\ LeaseKept' = LeaseKept
  BY LeaseUnchanged DEF Prune, hubVars
<1>2. \A e \in Events : /\ row'[e] = IF e \in gone THEN NoRow ELSE row[e]
                        /\ out'[e] = IF e \in old THEN "absent" ELSE out[e]
  BY DEF Prune
<1>3. \A e \in gone : row[e].status \in Terminal
  BY DEF Prune
<1>4. NoRow.status = "absent" /\ Place(NoRow) = "out"
  BY DEF NoRow, Place
<1>5. Known' = Known
  <2>1. Queued' = Queued \ gone /\ gone \subseteq Queued
    BY <1>2, <1>3, <1>4 DEF Queued, Terminal
  <2>2. swept' = swept \cup gone
    BY DEF Prune
  <2> QED
    BY <2>1, <2>2 DEF Known
<1>6. Places' = [e \in Events |-> IF e \in gone THEN "out" ELSE Places[e]]
  BY <1>2, <1>4 DEF Places
<1>7. \A e \in gone : Places[e] \in Promise!Closed
  BY <1>3 DEF Places, Place, Promise!Closed, Terminal
<1>8. /\ old \subseteq Sealed /\ gone \cap Sealed \subseteq old
      /\ Sealed' = Sealed \ old
  BY <1>2 DEF Prune, Sealed
<1>9. Promise!Sweep(gone, old)
  BY <1>1, <1>5, <1>6, <1>7, <1>8 DEF Promise!Sweep
<1> QED
  BY <1>9 DEF Promise!Next

LEMMA PromiseStep ==
  ASSUME Inv, LeaderInv, JobsAreQueued, [Next]_vars
  PROVE  [Promise!Next]_Promise!promised
<1>0. TypeOK
  BY DEF Inv
<1>1. CASE UNCHANGED vars
  BY <1>1, QueueUnchanged DEF vars, LeaseKept, Promise!promised
<1>2. ASSUME NEW w \in Workers,
             \/ Acquire(w) \/ Connect(w) \/ AckWorkerReads(w) \/ Fetch(w)
             \/ Disconnect(w) \/ EnqueueFails(w)
      PROVE  [Promise!Next]_Promise!promised
  <2>1. UNCHANGED <<row, out, swept, hubAck, hubGot>>
    BY <1>2 DEF Acquire, Connect, AckWorkerReads, Fetch, Disconnect, EnqueueFails,
                queueVars, hubVars
  <2>2. UNCHANGED spent \/ Spend("errors") \/ Spend("writeErrors")
    BY <1>2 DEF Acquire, Connect, AckWorkerReads, Fetch, Disconnect, EnqueueFails
  <2> QED
    BY <1>0, <2>1, <2>2, LeaseUnchanged, QueueUnchanged DEF Promise!promised
<1>3. CASE LeaseLost
  <2>1. UNCHANGED <<row, out, swept, hubAck, hubGot>>
    BY <1>3 DEF LeaseLost, queueVars, hubVars
  <2>2. LeaseKept' = FALSE
    <3>1. spent \in [DOMAIN Bounds -> Nat] /\ "expiries" \in DOMAIN Bounds
      BY <1>0, BoundNames DEF TypeOK
    <3>2. spent'["expiries"] # 0
      BY <1>3, <3>1 DEF LeaseLost, Spend
    <3> QED
      BY <3>2 DEF LeaseKept
  <2>3. Promise!Overlap
    BY <2>1, <2>2, QueueUnchanged DEF Promise!Overlap
  <2> QED
    BY <2>3 DEF Promise!Next
<1> QED
  BY <1>0, <1>1, <1>2, <1>3, CancelPromise, AckPromise, ReceivePromise, PrunePromise,
     JobPromise
     DEF Next, WorkerStep, Trouble, StreamStep, AckStep

(* The bridge implements InboxPromise: what the hub sees of it is what     *)
(* that specification allows, step by step.                                *)
THEOREM ImplementsPromise == Spec => PromiseSpec
<1>1. Init => Promise!Init
  <2> SUFFICES ASSUME Init PROVE Promise!Init
    OBVIOUS
  <2>1. NoRow.status = "absent" /\ Place(NoRow) = "out"
    BY DEF NoRow, Place
  <2>2. Known = {} /\ Sealed = {} /\ Places = [e \in Events |-> "out"]
    BY <2>1 DEF Init, Known, Queued, Sealed, Places
  <2>3. LeaseKept = TRUE
    BY BoundNames DEF Init, LeaseKept
  <2> QED
    BY <2>2, <2>3 DEF Init, Promise!Init
<1>2. Init => JobsAreQueued
  BY DEF Init, JobsAreQueued
<1>3. TypeOK /\ JobsAreQueued /\ [Next]_vars => JobsAreQueued'
  BY NextQueued
<1>4. Inv /\ LeaderInv /\ JobsAreQueued /\ [Next]_vars => [Promise!Next]_Promise!promised
  BY PromiseStep
<1> QED
  BY <1>1, <1>2, <1>3, <1>4, TypeCorrect, Invariance, LeaderInvariance, PTL
     DEF Spec, PromiseSpec, Promise!Spec
=============================================================================
