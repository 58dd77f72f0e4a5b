----------------------------- MODULE A2ABridge -----------------------------
(***************************************************************************)
(* The agent-to-agent bridge of the Backend: instances of the daemon elect *)
(* a leader through a Redis lease; the leader reads the hub's inbox stream *)
(* into a durable SQLite queue, acknowledges what it has written, has      *)
(* Brain answer each event and sends the reply back to the hub.            *)
(*                                                                         *)
(* Events are the sequence numbers of the inbox.  The hub, outside the     *)
(* repository, delivers every event after the cursor it is given, and may  *)
(* execute a request whose response the bridge never sees.                 *)
(***************************************************************************)
EXTENDS Integers, FiniteSets

CONSTANTS
  Workers,      \* daemon instances sharing the queue file and the lease
  LastEvent,    \* events 1..LastEvent are in the hub's inbox
  MaxAttempts,  \* Brain queries per event before it fails (5 in the code)
  MaxAckTries,  \* failed acknowledgements after which none is sent (10)
  MaxErrors,    \* bound on failing hub and Brain calls in one behaviour
  MaxRestarts,  \* bound on instances stopped or killed
  MaxExpiries,  \* bound on leases lost while their holder runs
  MaxWriteErrors, \* bound on failed inserts into and updates of the queue
  MaxPrunes,    \* bound on retention sweeps that find something
  Nobody

ASSUME BridgeAssumption ==
  /\ Nobody \notin Workers
  /\ {LastEvent, MaxAttempts, MaxAckTries} \subseteq Nat \ {0}
  /\ {MaxErrors, MaxRestarts, MaxExpiries, MaxWriteErrors, MaxPrunes} \subseteq Nat

VARIABLES
  lease,    \* the holder of the Redis key, or Nobody
  leader,   \* leader[w]: _is_leader
  stream,   \* stream[w]: the next event the SSE connection yields; 0: closed
  acking,   \* acking[w]: the event whose first ACK the stream awaits; 0: none
  batch,    \* batch[w]: events the ACK worker read and has yet to acknowledge
  job,      \* job[w][e]: where _process_queued_event is
  row,      \* row[e]: the row of a2a_inbox_events
  out,      \* out[e]: the row of a2a_outbound_tasks with key reply-<task>
  hubAck,   \* events the hub holds an acknowledgement for
  hubGot,   \* hubGot[e]: reply requests for e the hub has executed
  swept,    \* events whose row was swept by the retention
  spent     \* how much of each bound is used up

vars == <<lease, leader, stream, acking, batch, job, row, out, hubAck, hubGot,
          swept, spent>>

-----------------------------------------------------------------------------
Events   == 1..LastEvent
Statuses == {"absent", "RECEIVED", "ACKNOWLEDGED", "PROCESSING", "COMPLETED",
             "SUPPRESSED", "FAILED"}
Terminal == {"COMPLETED", "SUPPRESSED", "FAILED"}
Jobs     == {"none", "fetched", "asking", "sending", "delivered", "sent"}
Bounds   == [errors |-> MaxErrors, restarts |-> MaxRestarts, expiries |-> MaxExpiries,
             writeErrors |-> MaxWriteErrors, prunes |-> MaxPrunes]

NoRow == [status |-> "absent", acked |-> FALSE, ackTries |-> 0, attempts |-> 0]

Spend(bound) ==
  /\ spent[bound] < Bounds[bound]
  /\ spent' = [spent EXCEPT ![bound] = @ + 1]

TypeOK ==
  /\ lease \in Workers \cup {Nobody}
  /\ leader \in [Workers -> BOOLEAN]
  /\ stream \in [Workers -> 0..LastEvent + 1]
  /\ acking \in [Workers -> 0..LastEvent]
  /\ batch \in [Workers -> SUBSET Events]
  /\ job \in [Workers -> [Events -> Jobs]]
  /\ row \in [Events -> [status : Statuses, acked : BOOLEAN,
                         ackTries : Nat, attempts : Nat]]
  /\ out \in [Events -> {"absent", "PENDING", "SENT"}]
  /\ hubAck \subseteq Events
  /\ hubGot \in [Events -> Nat]
  /\ swept \subseteq Events
  /\ spent \in [DOMAIN Bounds -> Nat]

Init ==
  /\ lease = Nobody
  /\ leader = [w \in Workers |-> FALSE]
  /\ stream = [w \in Workers |-> 0]
  /\ acking = [w \in Workers |-> 0]
  /\ batch = [w \in Workers |-> {}]
  /\ job = [w \in Workers |-> [e \in Events |-> "none"]]
  /\ row = [e \in Events |-> NoRow]
  /\ out = [e \in Events |-> "absent"]
  /\ hubAck = {}
  /\ hubGot = [e \in Events |-> 0]
  /\ swept = {}
  /\ spent = [b \in DOMAIN Bounds |-> 0]

queueVars == <<row, out, swept>>
hubVars   == <<hubAck, hubGot>>

-----------------------------------------------------------------------------
(* The lease.                                                              *)

Acquire(w) ==
  /\ ~leader[w]
  /\ lease \in {Nobody, w}
  /\ lease' = w
  /\ leader' = [leader EXCEPT ![w] = TRUE]
  /\ UNCHANGED <<stream, acking, batch, job, queueVars, hubVars, spent>>

(* An ACK that is cancelled under way may have reached the hub. *)
Cancelled(sent) == hubAck' \in {hubAck, hubAck \cup (sent \cap Events)}

(* The renewal says that the lease is another's, or fails: the instance    *)
(* closes the stream and starts nothing new; jobs under way go on.         *)
Abdicate(w) ==
  /\ leader[w]
  /\ \/ lease # w /\ UNCHANGED spent
     \/ lease = w /\ Spend("errors")
  /\ leader' = [leader EXCEPT ![w] = FALSE]
  /\ stream' = [stream EXCEPT ![w] = 0]
  /\ acking' = [acking EXCEPT ![w] = 0]
  /\ Cancelled({acking[w]})
  /\ UNCHANGED <<lease, batch, job, queueVars, hubGot>>

(* Renewal comes too late, or Redis loses the key. *)
LeaseLost ==
  /\ lease # Nobody
  /\ Spend("expiries")
  /\ lease' = Nobody
  /\ UNCHANGED <<leader, stream, acking, batch, job, queueVars, hubVars>>

(* stop(), on every deployment, or a kill: the tasks end at an await and   *)
(* record nothing more.  The next start has a new worker_id, so the lease  *)
(* is released or has to expire.                                           *)
Restart(w) ==
  /\ Spend("restarts")
  /\ lease' = IF lease = w THEN Nobody ELSE lease
  /\ leader' = [leader EXCEPT ![w] = FALSE]
  /\ stream' = [stream EXCEPT ![w] = 0]
  /\ acking' = [acking EXCEPT ![w] = 0]
  /\ batch' = [batch EXCEPT ![w] = {}]
  /\ job' = [job EXCEPT ![w] = [e \in Events |-> "none"]]
  /\ Cancelled({acking[w]} \cup batch[w])
  /\ UNCHANGED <<queueVars, hubGot>>

-----------------------------------------------------------------------------
(* The inbox stream.                                                       *)

(* get_last_processed_sequence: the last acknowledged row before the first *)
(* row that is not.                                                        *)
Queued == {e \in Events : row[e].status # "absent"}
Latest(set) == CHOOSE e \in set \cup {0} : \A f \in set : f <= e

Cursor == Latest({e \in Queued : \A f \in Queued : f <= e => row[f].acked})

Connect(w) ==
  /\ leader[w]
  /\ stream[w] = 0
  /\ stream' = [stream EXCEPT ![w] = Cursor + 1]
  /\ UNCHANGED <<lease, leader, acking, batch, job, queueVars, hubVars, spent>>

Disconnect(w) ==
  /\ stream[w] # 0
  /\ acking[w] = 0
  /\ Spend("errors")
  /\ stream' = [stream EXCEPT ![w] = 0]
  /\ UNCHANGED <<lease, leader, acking, batch, job, queueVars, hubVars>>

(* enqueue_event, then the ACK request; a duplicate is ignored.            *)
Receive(w) ==
  /\ stream[w] \in Events
  /\ acking[w] = 0
  /\ stream' = [stream EXCEPT ![w] = @ + 1]
  /\ IF stream[w] \in Queued
     THEN UNCHANGED <<row, acking>>
     ELSE /\ row' = [row EXCEPT ![stream[w]] = [NoRow EXCEPT !.status = "RECEIVED"]]
          /\ acking' = [acking EXCEPT ![w] = stream[w]]
  /\ UNCHANGED <<lease, leader, batch, job, out, swept, hubVars, spent>>

(* The insert raises; the loop logs it and reads the next event.           *)
EnqueueFails(w) ==
  /\ stream[w] \in Events \ Queued
  /\ acking[w] = 0
  /\ Spend("writeErrors")
  /\ stream' = [stream EXCEPT ![w] = @ + 1]
  /\ UNCHANGED <<lease, leader, acking, batch, job, queueVars, hubVars>>

(* mark_ack_dispatched and record_ack_failure. *)
RowAcked_always(old) ==
  [old EXCEPT !.acked = TRUE, !.ackTries = @ + 1, !.status = "ACKNOWLEDGED"]
RowAcked(old) ==
  [old EXCEPT !.acked = TRUE, !.ackTries = @ + 1,
              !.status = IF @ = "RECEIVED" THEN "ACKNOWLEDGED" ELSE @]
RowNotAcked_lost(old) == NoRow
RowNotAcked(old) == IF old.acked THEN old ELSE [old EXCEPT !.ackTries = @ + 1]

(* The answer to an ACK of e; an update touches no row that was swept.      *)
AckReturns(e) ==
  \/ /\ hubAck' = hubAck \cup {e}
     /\ row' = [row EXCEPT ![e] = IF e \in Queued THEN RowAcked(@) ELSE @]
     /\ UNCHANGED spent
  \/ /\ Spend("errors")                       \* a lost request or answer
     /\ hubAck' \in {hubAck, hubAck \cup {e}}
     /\ row' = [row EXCEPT ![e] = IF e \in Queued THEN RowNotAcked(@) ELSE @]

(* The update raises: the answer is not recorded.  The stream reads on; the *)
(* ACK worker drops the rest of its batch and reads anew.                   *)
AckUnrecorded(e) ==
  /\ Spend("writeErrors")
  /\ hubAck' \in {hubAck, hubAck \cup {e}}
  /\ UNCHANGED row

StreamAck(w) ==
  /\ acking[w] # 0
  /\ AckReturns(acking[w]) \/ AckUnrecorded(acking[w])
  /\ acking' = [acking EXCEPT ![w] = 0]
  /\ UNCHANGED <<lease, leader, stream, batch, job, out, hubGot, swept>>

PendingAcks == {e \in Queued : ~row[e].acked /\ row[e].ackTries < MaxAckTries}

AckWorkerReads(w) ==
  /\ leader[w]
  /\ batch[w] = {}
  /\ \E due \in SUBSET PendingAcks \ {{}} : batch' = [batch EXCEPT ![w] = due]
  /\ UNCHANGED <<lease, leader, stream, acking, job, queueVars, hubVars, spent>>

AckWorkerAck(w, e) ==
  /\ e \in batch[w]
  /\ \A f \in batch[w] : e <= f
  /\ \/ AckReturns(e) /\ batch' = [batch EXCEPT ![w] = @ \ {e}]
     \/ AckUnrecorded(e) /\ batch' = [batch EXCEPT ![w] = {}]
  /\ UNCHANGED <<lease, leader, stream, acking, job, out, hubGot, swept>>

-----------------------------------------------------------------------------
(* The queue worker.                                                       *)

MayProcess(r) == r.status = "ACKNOWLEDGED" /\ r.attempts < MaxAttempts

Unprocessed == {e \in Queued : MayProcess(row[e])}

(* One batch at a time: the next is read when every job has returned.      *)
Fetch(w) ==
  /\ leader[w]
  /\ \A e \in Events : job[w][e] = "none"
  /\ Unprocessed # {}
  /\ job' = [job EXCEPT ![w] = [e \in Events |->
               IF e \in Unprocessed THEN "fetched" ELSE "none"]]
  /\ UNCHANGED <<lease, leader, stream, acking, batch, queueVars, hubVars, spent>>

(* job[w][e] goes on to next, its row to what the update makes of it.      *)
JobStep(w, e, next, newRow) ==
  /\ job' = [job EXCEPT ![w][e] = next]
  /\ row' = [row EXCEPT ![e] = IF e \in Queued THEN newRow ELSE @]
  /\ UNCHANGED <<lease, leader, stream, acking, batch, hubAck, swept>>

StartProcessing(w, e) ==
  /\ job[w][e] = "fetched"
  /\ JobStep(w, e, "asking",
             [row[e] EXCEPT !.status = "PROCESSING", !.attempts = @ + 1])
  /\ UNCHANGED <<out, hubGot, spent>>

(* record_failed: back in the queue until the attempts are used up.        *)
AfterFailure_late(r) ==
  [r EXCEPT !.status = IF r.attempts > MaxAttempts THEN "FAILED" ELSE "ACKNOWLEDGED"]
AfterFailure_done(r) ==
  [r EXCEPT !.status = IF r.attempts >= MaxAttempts THEN "COMPLETED" ELSE "ACKNOWLEDGED"]
AfterFailure(r) ==
  [r EXCEPT !.status = IF r.attempts >= MaxAttempts THEN "FAILED" ELSE "ACKNOWLEDGED"]

(* Brain is unreachable, refuses or answers nothing. *)
BrainFails(w, e) ==
  /\ job[w][e] = "asking"
  /\ Spend("errors")
  /\ JobStep(w, e, "none", AfterFailure(row[e]))
  /\ UNCHANGED <<out, hubGot>>

BrainSaysNothing(w, e) ==
  /\ job[w][e] = "asking"
  /\ JobStep(w, e, "none", [row[e] EXCEPT !.status = "SUPPRESSED"])
  /\ UNCHANGED <<out, hubGot, spent>>

(* record_outbound_task refuses only a reply that was sent.                *)
MayReserve_once(o) == o = "absent"
MayReserve_always(o) == TRUE
MayReserve(o) == o # "SENT"

BrainReplies(w, e) ==
  /\ job[w][e] = "asking"
  /\ IF MayReserve(out[e])
     THEN /\ out' = [out EXCEPT ![e] = IF @ = "absent" THEN "PENDING" ELSE @]
          /\ JobStep(w, e, "sending", row[e])
     ELSE /\ JobStep(w, e, "none", [row[e] EXCEPT !.status = "COMPLETED"])
          /\ UNCHANGED out
  /\ UNCHANGED <<hubGot, spent>>

(* The hub executes the request; its answer is on the way.                 *)
HubExecutes(w, e) ==
  /\ job[w][e] = "sending"
  /\ hubGot' = [hubGot EXCEPT ![e] = @ + 1]
  /\ JobStep(w, e, "delivered", row[e])
  /\ UNCHANGED <<out, spent>>

(* The request or its answer is lost, or a later update of the queue fails: *)
(* caught, and the event is recorded as failed.                             *)
SendFails(w, e) ==
  /\ job[w][e] \in {"sending", "delivered", "sent"}
  /\ Spend("errors")
  /\ JobStep(w, e, "none", AfterFailure(row[e]))
  /\ UNCHANGED <<out, hubGot>>

(* An update of the queue raises where the job does not catch it, be it    *)
(* record_processing_start, the update that ends the job, the reservation  *)
(* of the reply or the record_failed that follows a failed send.  gather   *)
(* swallows the exception: the job is over, its row as the job had it.     *)
UpdateFails(w, e) ==
  /\ job[w][e] # "none"
  /\ Spend("writeErrors")
  /\ JobStep(w, e, "none", row[e])
  /\ UNCHANGED <<out, hubGot>>

MarkSent(w, e) ==
  /\ job[w][e] = "delivered"
  /\ out' = [out EXCEPT ![e] = IF @ = "absent" THEN @ ELSE "SENT"]
  /\ JobStep(w, e, "sent", row[e])
  /\ UNCHANGED <<hubGot, spent>>

Complete(w, e) ==
  /\ job[w][e] = "sent"
  /\ JobStep(w, e, "none", [row[e] EXCEPT !.status = "COMPLETED"])
  /\ UNCHANGED <<out, hubGot, spent>>

Idle(w, e) == job[w][e] = "none"

(* prune_terminal_events, run by a leader between two batches: rows at     *)
(* rest for longer than the retention, and replies sent as long ago (those *)
(* of a row that goes are older still).  No job lives that long.           *)

Prune(w, gone, old) ==
  /\ leader[w]
  /\ \A e \in Events : Idle(w, e)
  /\ \A e \in gone : row[e].status \in Terminal /\ \A v \in Workers : Idle(v, e)
  /\ gone \cup old # {}
  /\ {e \in gone : out[e] = "SENT"} \subseteq old
  /\ \A e \in old : out[e] = "SENT"
  /\ Spend("prunes")
  /\ row' = [e \in Events |-> IF e \in gone THEN NoRow ELSE row[e]]
  /\ out' = [e \in Events |-> IF e \in old THEN "absent" ELSE out[e]]
  /\ swept' = swept \cup gone
  /\ UNCHANGED <<lease, leader, stream, acking, batch, job, hubVars>>

-----------------------------------------------------------------------------
StreamStep(w) == Connect(w) \/ Receive(w) \/ StreamAck(w)

AckStep(w) == AckWorkerReads(w) \/ \E e \in Events : AckWorkerAck(w, e)

JobProgress(w, e) ==
  \/ StartProcessing(w, e) \/ BrainSaysNothing(w, e) \/ BrainReplies(w, e)
  \/ HubExecutes(w, e) \/ MarkSent(w, e) \/ Complete(w, e)

JobFails(w, e) == BrainFails(w, e) \/ SendFails(w, e) \/ UpdateFails(w, e)

WorkerStep(w) ==
  \/ Acquire(w) \/ Abdicate(w)
  \/ StreamStep(w) \/ AckStep(w)
  \/ Fetch(w) \/ \E e \in Events : JobProgress(w, e)

Trouble ==
  \/ LeaseLost
  \/ \E w \in Workers :
       \/ Restart(w) \/ Disconnect(w) \/ EnqueueFails(w)
       \/ \E e \in Events : JobFails(w, e)

Next == (\E w \in Workers : WorkerStep(w)) \/ Trouble
        \/ \E w \in Workers, gone, old \in SUBSET Events : Prune(w, gone, old)

(* The three loops of an instance run on one event loop, and each call of  *)
(* the hub or of Brain is taken to return: httpx bounds those of the hub,  *)
(* Brain's own deadline bounds the other.  Which instance wins a free      *)
(* lease is left open: some instance does.                                 *)
Fairness ==
  /\ WF_vars(\E w \in Workers : Acquire(w))
  /\ \A w \in Workers :
       /\ WF_vars(Abdicate(w)) /\ WF_vars(StreamStep(w))
       /\ WF_vars(AckStep(w)) /\ WF_vars(Fetch(w))
       /\ \A e \in Events : WF_vars(JobProgress(w, e))

Spec     == Init /\ [][Next]_vars
FairSpec == Spec /\ Fairness

-----------------------------------------------------------------------------
(* Properties.                                                             *)

(* The hub is never told that an event is taken before the event is in the *)
(* durable queue (_on_raw_task_received and the ACK worker): it will not   *)
(* offer that event again.                                                 *)
AckedIsQueued == hubAck \subseteq Queued \cup swept

(* An event is completed only when the hub has got a reply to it, although *)
(* requests and answers are lost and a retry may be refused as a repeat.   *)
CompletedWasDelivered ==
  \A e \in Events : row[e].status = "COMPLETED" => hubGot[e] > 0

(* No lease was lost under its holder so far. *)
LeaseKept == spent["expiries"] = 0

(* Unless a lease was lost, a terminal status is final, however late the   *)
(* two acknowledgers come back for the event (mark_ack_dispatched) and     *)
(* whichever instance took over from one that stopped.                     *)
TerminalStays ==
  [][LeaseKept => \A e \in Events : row[e].status \in Terminal =>
       row'[e].status \in {row[e].status, "absent"}]_vars

(* Unless a lease was lost, a reply recorded as sent is never requested of *)
(* the hub again, not even when the event itself is retried                *)
(* (record_outbound_task).                                                 *)
SentIsFinal ==
  [][LeaseKept => \A e \in Events : out[e] = "SENT" => hubGot'[e] = hubGot[e]]_vars

(* How an event may be left behind: the insert that raised was its only    *)
(* chance; no acknowledgement is sent any more and processing waits for    *)
(* one; or a job ended without its update, by an exception or with its     *)
(* instance, and no query selects a row that is PROCESSING.                *)
Missed(e)   == row[e].status = "absent" /\ spent["writeErrors"] > 0
Unacked(e)  == row[e].status = "RECEIVED" /\ row[e].ackTries >= MaxAckTries
Stranded(e) ==
  /\ row[e].status = "PROCESSING" /\ \A w \in Workers : Idle(w, e)
  /\ spent["writeErrors"] + spent["restarts"] > 0

(* Every event of the inbox comes to rest for good, however leaders change *)
(* and whatever fails: its row has a terminal status, or one of the above  *)
(* three happened to it.  So an event is never stranded but by an update   *)
(* that raised or an instance that stopped, and whoever is in the queue    *)
(* with an attempt left and no job is taken up again (_queue_worker_loop). *)
EventSettles ==
  \A e \in Events :
    <>[](row[e].status \in Terminal \/ Missed(e) \/ Unacked(e) \/ Stranded(e))

(* The events that are or were in the queue. *)
Known == Queued \cup swept

(* What the hub can see of the bridge, in the words of InboxPromise. *)
Place(r) ==
  CASE r.status = "absent"                   -> "out"
    [] r.status = "COMPLETED"                -> "completed"
    [] r.status \in {"SUPPRESSED", "FAILED"} -> "quiet"
    [] OTHER                                 -> "open"

Places == [e \in Events |-> Place(row[e])]
Sealed == {e \in Events : out[e] = "SENT"}

Promise == INSTANCE InboxPromise WITH
             taken <- Known, told <- hubAck, place <- Places, replies <- hubGot,
             sealed <- Sealed, sole <- LeaseKept

(* All of this in one: the bridge does nothing that InboxPromise does not  *)
(* allow, whatever the instances, streams, acknowledgers and jobs of       *)
(* A2ABridgeDaemon do between two updates of A2AWorkQueue.                 *)
PromiseSpec == Promise!Spec

(* The inductive invariants behind these safety properties. *)

(* Whatever is to be acknowledged was written to the queue before. *)
AcksAreKnown ==
  /\ hubAck \subseteq Known
  /\ \A w \in Workers : batch[w] \subseteq Known /\ {acking[w]} \ {0} \subseteq Known

(* Whoever speaks of a delivery can point to it. *)
DeliveriesAreGot ==
  \A e \in Events :
    \/ hubGot[e] > 0
    \/ /\ out[e] # "SENT" /\ row[e].status # "COMPLETED"
       /\ \A w \in Workers : job[w][e] \notin {"delivered", "sent"}

Inv == TypeOK /\ AcksAreKnown /\ DeliveriesAreGot

(* Unless a lease was lost, only its holder works, and the row and the     *)
(* reply of an event stand where the work on the event stands.             *)
WorkUnderLease ==
  \A w \in Workers :
    leader[w] \/ (\E e \in Events : job[w][e] # "none") => lease = w

RowFollowsJob ==
  \A w \in Workers, e \in Events :
    /\ job[w][e] = "fetched" => row[e].status = "ACKNOWLEDGED"
    /\ job[w][e] \in {"asking", "sending", "delivered", "sent"} =>
         row[e].status = "PROCESSING"
    /\ job[w][e] \in {"sending", "delivered"} => out[e] = "PENDING"

LeaderInv == TypeOK /\ (LeaseKept => WorkUnderLease /\ RowFollowsJob)

(* Work is done only on events that are in the queue. *)
JobsAreQueued ==
  \A w \in Workers, e \in Events : job[w][e] # "none" => e \in Queued

(* What one would expect and a run refutes. *)

(* A reply that was reserved but not sent is sent after a restart, or its  *)
(* event comes to rest otherwise.                                          *)
ReservedReplyRetried ==
  \A e \in Events : (out[e] = "PENDING") ~>
    (out[e] = "SENT" \/ row[e].status \in Terminal)
=============================================================================
