---------------------------- MODULE InboxPromise ----------------------------
(***************************************************************************)
(* What the agent-to-agent bridge promises to the hub, without instances,  *)
(* streams, retries or crashes: an event is acknowledged only when it was  *)
(* taken, replies are requested only while it is open and none was         *)
(* recorded as sent, and it is completed only when a reply got through.    *)
(* Once two instances have believed to lead, only the second half of that  *)
(* survives: a closed event may be worked on again, and answered twice.    *)
(***************************************************************************)
EXTENDS Naturals

CONSTANT Events

VARIABLES
  taken,    \* events that were ever written to the queue
  told,     \* events the hub holds an acknowledgement for
  place,    \* place[e]: not in the queue, or how far it is there
  replies,  \* replies[e]: requests with a reply to e that the hub executed
  sealed,   \* events whose reply is recorded as sent
  sole      \* no lease was lost under its holder, so no two instances led

promised == <<taken, told, place, replies, sealed, sole>>

Closed == {"completed", "quiet"}

Init ==
  /\ taken = {} /\ told = {} /\ sealed = {}
  /\ place = [e \in Events |-> "out"]
  /\ replies = [e \in Events |-> 0]
  /\ sole = TRUE

(* A swept event that the hub offers again is taken again. *)
Take(e) ==
  /\ place[e] = "out"
  /\ taken' = taken \cup {e}
  /\ place' = [place EXCEPT ![e] = "open"]
  /\ UNCHANGED <<told, replies, sealed, sole>>

Tell(some) ==
  /\ some \subseteq taken
  /\ told' = told \cup some
  /\ UNCHANGED <<taken, place, replies, sealed, sole>>

Reply(e) ==
  /\ place[e] # "out"
  /\ sole => place[e] = "open" /\ e \notin sealed
  /\ replies' = [replies EXCEPT ![e] = @ + 1]
  /\ UNCHANGED <<taken, told, place, sealed, sole>>

Seal(e) ==
  /\ replies[e] > 0
  /\ sole => place[e] = "open"
  /\ sealed' = sealed \cup {e}
  /\ UNCHANGED <<taken, told, place, replies, sole>>

Close(e, how) ==
  /\ place[e] # "out"
  /\ sole => place[e] = "open"
  /\ how = "completed" => replies[e] > 0
  /\ place' = [place EXCEPT ![e] = how]
  /\ UNCHANGED <<taken, told, replies, sealed, sole>>

Reopen(e) ==
  /\ ~sole
  /\ place[e] \in Closed
  /\ place' = [place EXCEPT ![e] = "open"]
  /\ UNCHANGED <<taken, told, replies, sealed, sole>>

(* The retention: closed events, and replies sent long ago.  An event goes *)
(* with its reply.                                                         *)
Sweep(gone, old) ==
  /\ \A e \in gone : place[e] \in Closed
  /\ old \subseteq sealed
  /\ gone \cap sealed \subseteq old
  /\ place' = [e \in Events |-> IF e \in gone THEN "out" ELSE place[e]]
  /\ sealed' = sealed \ old
  /\ UNCHANGED <<taken, told, replies, sole>>

Overlap ==
  /\ sole' = FALSE
  /\ UNCHANGED <<taken, told, place, replies, sealed>>

Next ==
  \/ Overlap
  \/ \E e \in Events :
       \/ Take(e) \/ Reply(e) \/ Seal(e) \/ Reopen(e)
       \/ \E how \in Closed : Close(e, how)
  \/ \E some \in SUBSET Events : Tell(some)
  \/ \E gone, old \in SUBSET Events : Sweep(gone, old)

Spec == Init /\ [][Next]_promised
=============================================================================
