----------------------------- MODULE TurnLedger -----------------------------
(***************************************************************************)
(* What the mergeable-turn protocol promises to whoever reads the          *)
(* conversation afterwards, without pages, receipts, retries or crashes: a *)
(* turn enters the record at most once and in one step, its page is told   *)
(* so only afterwards, nothing but a deletion removes it, and what was     *)
(* deleted does not come back.                                             *)
(***************************************************************************)
EXTENDS Sequences

CONSTANT Turns

VARIABLES
  ledger,   \* the recorded turns, in order
  told,     \* turns whose page holds a confirmation
  erased    \* turns removed with their conversation

Recorded == {ledger[i] : i \in DOMAIN ledger}

Init == ledger = <<>> /\ told = {} /\ erased = {}

Record(t) ==
  /\ t \notin Recorded \cup erased
  /\ ledger' = Append(ledger, t)
  /\ UNCHANGED <<told, erased>>

Tell(t) ==
  /\ t \in Recorded \cup erased
  /\ told' = told \cup {t}
  /\ UNCHANGED <<ledger, erased>>

Erase ==
  /\ ledger' = <<>>
  /\ erased' = erased \cup Recorded
  /\ UNCHANGED told

Next == Erase \/ \E t \in Turns : Record(t) \/ Tell(t)

Spec == Init /\ [][Next]_<<ledger, told, erased>>
=============================================================================
