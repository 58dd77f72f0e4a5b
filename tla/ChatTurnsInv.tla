---------------------------- MODULE ChatTurnsInv ----------------------------
(***************************************************************************)
(* The inductive invariant behind the safety properties of ChatTurns.  Its *)
(* argument: revisions of a turn follow one another and only the last one  *)
(* can be answered; the page acknowledges that one alone, so at most one   *)
(* revision of a turn is ever committed; and a receipt in which the turn   *)
(* is not marked accepted, made again by a delayed request after the first *)
(* was pruned, names another revision than the one acknowledged.           *)
(* Beside it stand StoreInv, on the session's tables, and HistoryInv, on   *)
(* what a page's questions know of each other.                             *)
(***************************************************************************)
EXTENDS ChatTurns

(* Phases of a send whose answer the page has taken, or given up. *)
Closed == {"accepting", "confirmed", "failed"}
Past   == {"none", "dropped"}

(* Later revisions come after earlier ones, and only the last is not over. *)
RevisionsInOrder ==
  \A t \in Turns, r \in Revs :
    /\ phase[t][r] # "none" => phase[t][1] # "none"
    /\ phase[t][r] \notin Past => \A s \in Revs : s > r => phase[t][s] = "none"

(* A follow-up merges into a question of this page whose answer is not in. *)
PendingIsOpen ==
  \A p \in Pages :
    pending[p] # NoSend =>
      /\ PageOf[pending[p][1]] = p
      /\ phase[pending[p][1]][pending[p][2]] \in {"waiting", "asked"}

RunsWereAsked ==
  \A t \in Turns, r \in Revs :
    phase[t][r] \in {"none", "waiting"} => run[t][r] = "none"

(* An answer reached the page only from a run that staged it. *)
AnswersAreStaged ==
  \A t \in Turns, r \in Revs :
    answer[t][r] = "done" => run[t][r] = "staged"

ReceiptsAreStaged ==
  \A t \in Turns : receipt[t].staged =>
    receipt[t].revision \in Revs /\ run[t][receipt[t].revision] = "staged"

AcksAreClosed ==
  \A t \in Turns, r \in Revs :
    /\ \A k \in Attempts : ack[t][r][k] # "none" => phase[t][r] \in Closed
    /\ phase[t][r] \in {"accepting", "confirmed"} => run[t][r] = "staged"

AttemptUnderWay ==
  \A t \in Turns, r \in Revs :
    phase[t][r] = "accepting" => tries[t][r] \in Attempts

(* What was ever recorded for a turn: still there, or deleted since. *)
WasRecorded(t) == t \in TurnsIn(record) \cup erased

RecordedAreClosed ==
  /\ \A i \in DOMAIN record :
       /\ phase[record[i][1]][record[i][2]] \in Closed
       /\ run[record[i][1]][record[i][2]] = "staged"
  /\ \A t \in erased : \E r \in Revs : phase[t][r] \in Closed /\ run[t][r] = "staged"

(* Whoever speaks of a commit can point to it. *)
CommitsAreRecorded ==
  \A t \in Turns :
    /\ receipt[t].accepted => WasRecorded(t)
    /\ \A r \in Revs :
         /\ phase[t][r] = "confirmed" => WasRecorded(t)
         /\ \A k \in Attempts :
              ack[t][r][k] \in {"committed", "ok", "failed"} => WasRecorded(t)

(* The last revision of a recorded turn cannot be committed again. *)
NoSecondCommit ==
  \A t \in Turns, r \in Revs :
    WasRecorded(t) /\ phase[t][r] \notin Past
      => receipt[t].revision # r \/ receipt[t].accepted

EffectsFollowCommits ==
  \A t \in Turns :
    /\ effects[t] <= 1
    /\ ~WasRecorded(t) => effects[t] = 0
    /\ \A r \in Revs, k \in Attempts : ack[t][r][k] = "committed" =>
         /\ effects[t] = 0
         /\ \A s \in Revs, j \in Attempts :
              ack[t][s][j] = "committed" => s = r /\ j = k

(* Everything together: the invariant the proofs show to be inductive. *)
Inv ==
  /\ TypeOK
  /\ RevisionsInOrder /\ PendingIsOpen /\ RunsWereAsked
  /\ AnswersAreStaged /\ ReceiptsAreStaged /\ AcksAreClosed
  /\ AttemptUnderWay
  /\ RecordedAreClosed /\ CommitsAreRecorded /\ NoSecondCommit
  /\ EffectsFollowCommits /\ RecordedOnce

-----------------------------------------------------------------------------
(* The tables of the session beside the record: what the model is shown of *)
(* it, whom it belongs to, and how far the receipts have got.              *)

LiveFitsRecord == Len(live) <= Len(record) /\ LiveIsTail

(* The receipts that the bound has left are those listed in order. *)
ReceiptsListed ==
  /\ Len(order) <= ReceiptKeep
  /\ \A t \in Turns : receipt[t].revision # 0 => t \in Elements(order)

StoreInv ==
  TypeOK /\ LiveFitsRecord /\ OnePersona /\ ReceiptsListed /\ ReorderedNeverWins

-----------------------------------------------------------------------------
(* The page takes its questions one after another: a new one drops the     *)
(* last unless its answer is being acknowledged, and is only asked when    *)
(* that is settled.  What an earlier question came to is then final, and   *)
(* what was confirmed of it is in the history that the new one reads.      *)

Open == {"waiting", "asked", "speaking"}

OneIsOpen ==
  \A t, u \in Turns, r, s \in Revs :
    /\ PageOf[t] = PageOf[u]
    /\ phase[t][r] \in Open /\ phase[u][s] \in Open
    => t = u /\ r = s

SlotIsTaken ==
  \A t \in Turns, r \in Revs :
    /\ phase[t][r] = "accepting" => accepting[PageOf[t]] = <<t, r>>
    /\ phase[t][r] \in {"asked", "speaking"} => accepting[PageOf[t]] = NoSend

Earlier(u, t) == PageOf[u] = PageOf[t] /\ u < t

TurnsFollow ==
  \A t, u \in Turns :
    phase[t][1] # "none" /\ Earlier(u, t) =>
      /\ phase[u][1] # "none"
      /\ \A s \in Revs : phase[u][s] \notin Open

EarlierAreSettled ==
  \A t, u \in Turns, r, s \in Revs :
    run[t][r] # "none" /\ Earlier(u, t) =>
      phase[u][s] \notin Open \cup {"accepting"}

(* What was recorded is shown to the model, or has been. *)
RecordWasLive == TurnsIn(record) \cup erased \subseteq TurnsIn(live) \cup faded

HistoryInv ==
  /\ Inv
  /\ OneIsOpen /\ SlotIsTaken /\ TurnsFollow /\ EarlierAreSettled
  /\ RecordWasLive /\ HistoryKnowsConfirmed
=============================================================================
