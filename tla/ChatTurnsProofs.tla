-------------------------- MODULE ChatTurnsProofs --------------------------
(***************************************************************************)
(* Proofs about ChatTurns, for every number of pages, turns and revisions: *)
(* type correctness; the invariant Inv, from which the safety of the       *)
(* record, of its acknowledgements and of the side effects follows, and    *)
(* the refinement of TurnLedger; and the invariants of the session's other *)
(* tables and of the history that a generation reads.                      *)
(***************************************************************************)
EXTENDS ChatTurnsInv, SequenceTheorems, TLAPS

USE DEF Attempts

-----------------------------------------------------------------------------
(* Updating one entry of a table indexed by turn, revision and attempt.    *)

LEMMA Set2 ==
  ASSUME NEW A, NEW B, NEW C, NEW f \in [A -> [B -> C]],
         NEW a \in A, NEW b \in B, NEW c \in C
  PROVE  /\ [f EXCEPT ![a][b] = c] \in [A -> [B -> C]]
         /\ \A x \in A, y \in B :
              [f EXCEPT ![a][b] = c][x][y] = IF x = a /\ y = b THEN c ELSE f[x][y]
OBVIOUS

LEMMA Set3 ==
  ASSUME NEW A, NEW B, NEW C, NEW D, NEW f \in [A -> [B -> [C -> D]]],
         NEW a \in A, NEW b \in B, NEW c \in C, NEW d \in D
  PROVE  /\ [f EXCEPT ![a][b][c] = d] \in [A -> [B -> [C -> D]]]
         /\ \A x \in A, y \in B, z \in C :
              [f EXCEPT ![a][b][c] = d][x][y][z]
                = IF x = a /\ y = b /\ z = c THEN d ELSE f[x][y][z]
<1>1. [f[a] EXCEPT ![b] = [f[a][b] EXCEPT ![c] = d]] \in [B -> [C -> D]]
  OBVIOUS
<1> QED
  BY <1>1

-----------------------------------------------------------------------------
(* Type correctness.                                                       *)

(* The newest n elements of a sequence are a sequence over the same set. *)
LEMMA NewestType ==
  ASSUME NEW S, NEW seq \in Seq(S), NEW n \in Nat
  PROVE  Newest(seq, n) \in Seq(S)
<1>1. CASE Len(seq) <= n
  BY <1>1 DEF Newest
<1>2. CASE ~(Len(seq) <= n)
  <2>1. Len(seq) \in Nat
    BY LenProperties
  <2>2. \A i \in (Len(seq) - n + 1)..Len(seq) : seq[i] \in S
    BY <1>2, <2>1, ElementOfSeq
  <2>3. SubSeq(seq, Len(seq) - n + 1, Len(seq)) \in Seq(S)
    BY <1>2, <2>1, <2>2, SubSeqProperties
  <2> QED
    BY <1>2, <2>3 DEF Newest
<1> QED
  BY <1>1, <1>2

LEMMA TurnsInType ==
  ASSUME NEW seq \in Seq(Sends)
  PROVE  TurnsIn(seq) \subseteq Turns
BY ElementOfSeq, LenProperties DEF TurnsIn, Sends

(* cancel() keeps every coroutine in a known phase. *)
LEMMA CancelledType ==
  ASSUME TypeOK, NEW p \in Pages
  PROVE  Cancelled(p) \in [Turns -> [Revs -> Phases]]
BY DEF TypeOK, Cancelled, Phases

(* The page's own steps, which leave Brain's session store alone. *)
LEMMA PageTypes ==
  ASSUME TypeOK, PageStep
  PROVE  TypeOK'
<1> USE BoundsAssumption, TurnsAssumption
<1>1. ASSUME NEW p \in Pages, NEW t \in Turns, SendNew(p, t)
      PROVE  TypeOK'
  <2>1. 1 \in Revs /\ <<t, 1>> \in Sends
    BY DEF Revs, Sends
  <2>2. phase' \in [Turns -> [Revs -> Phases]]
    BY <1>1, <2>1, CancelledType DEF SendNew, Phases
  <2> QED
    BY <1>1, <2>1, <2>2 DEF TypeOK, SendNew, brainVars, storeVars
<1>2. ASSUME NEW p \in Pages, SendMerged(p)
      PROVE  TypeOK'
  <2>1. pending[p] \in Sends
    BY <1>2 DEF SendMerged, TypeOK
  <2>2. pending[p][1] \in Turns /\ pending[p][2] + 1 \in Revs
    BY <1>2, <2>1 DEF SendMerged, Sends, Revs
  <2>3. phase' \in [Turns -> [Revs -> Phases]]
    BY <1>2, <2>2, CancelledType DEF SendMerged, Phases
  <2> QED
    BY <1>2, <2>2, <2>3 DEF TypeOK, SendMerged, Sends, brainVars, storeVars
<1>3. ASSUME NEW p \in Pages, Interrupt(p)
      PROVE  TypeOK'
  BY <1>3, CancelledType DEF TypeOK, Interrupt, brainVars, storeVars
<1>4. ASSUME NEW t \in Turns, NEW r \in Revs,
             \/ Ask(t, r) \/ HearSentence(t, r)
             \/ ReceiveAnswer(t, r) \/ ReceiveError(t, r)
             \/ Confirmed(t, r) \/ Refused(t, r)
             \/ RetryAccept(t, r) \/ GiveUpAccept(t, r)
      PROVE  TypeOK'
  <2>1. <<t, r>> \in Sends /\ PageOf[t] \in Pages
    BY DEF Sends
  <2>2. CASE Ask(t, r)
    BY <2>1, <2>2 DEF TypeOK, Ask, brainVars, Phases, Runs, storeVars
  <2>3. CASE HearSentence(t, r)
    BY <2>1, <2>3 DEF TypeOK, HearSentence, brainVars, Phases, storeVars
  <2>4. CASE ReceiveAnswer(t, r)
    <3>1. ack' \in [Turns -> [Revs -> [Attempts -> Acks]]]
      BY <2>4, Set3 DEF TypeOK, ReceiveAnswer, Acks
    <3>2. tries' \in [Turns -> [Revs -> 0..2]]
      BY <2>4, Set2 DEF TypeOK, ReceiveAnswer
    <3>3. phase' \in [Turns -> [Revs -> Phases]]
      BY <2>4, Set2 DEF TypeOK, ReceiveAnswer, Phases
    <3> QED
      BY <2>1, <2>4, <3>1, <3>2, <3>3 DEF TypeOK, ReceiveAnswer, WindowAfterAnswer,
           storeVars
  <2>5. CASE ReceiveError(t, r)
    BY <2>1, <2>5 DEF TypeOK, ReceiveError, brainVars, Phases, storeVars
  <2>6. CASE Confirmed(t, r)
    BY <2>1, <2>6 DEF TypeOK, Confirmed, Settle, SlotAfterSettle, brainVars, Phases, storeVars
  <2>7. CASE Refused(t, r)
    BY <2>1, <2>7 DEF TypeOK, Refused, Settle, SlotAfterSettle, brainVars, Phases, storeVars
  <2>8. CASE RetryAccept(t, r)
    <3>a. tries[t][r] \in 0..2
      BY DEF TypeOK
    <3>b. tries[t][r] < 2
      BY <2>8 DEF RetryAccept, MayRetry
    <3>1. tries[t][r] + 1 \in {1, 2}
      BY <3>a, <3>b
    <3>2. ack' \in [Turns -> [Revs -> [Attempts -> Acks]]]
      BY <2>8, <3>1, Set3 DEF TypeOK, RetryAccept, Acks
    <3>3. tries' \in [Turns -> [Revs -> 0..2]]
      BY <2>8, <3>1, Set2 DEF TypeOK, RetryAccept
    <3> QED
      BY <2>8, <3>2, <3>3 DEF TypeOK, RetryAccept, storeVars
  <2>9. CASE GiveUpAccept(t, r)
    BY <2>1, <2>9 DEF TypeOK, GiveUpAccept, Settle, SlotAfterSettle, brainVars, Phases, storeVars
  <2> QED
    BY <1>4, <2>2, <2>3, <2>4, <2>5, <2>6, <2>7, <2>8, <2>9
<1> QED
  BY <1>1, <1>2, <1>3, <1>4 DEF PageStep

(* Deleting receipts keeps the table well formed. *)
LEMMA DropReceiptsType ==
  ASSUME TypeOK, NEW gone, DropReceipts(gone)
  PROVE  receipt' \in [Turns -> Receipts] /\ lapsed' \subseteq Turns
<1>1. NoRow \in Receipts
  BY BoundsAssumption DEF NoRow, Receipts
<1>2. Elements(order) \subseteq Turns
  BY ElementOfSeq, LenProperties DEF TypeOK, Elements
<1> QED
  BY <1>1, <1>2 DEF TypeOK, DropReceipts

LEMMA OrderWithType ==
  ASSUME TypeOK, NEW t \in Turns
  PROVE  /\ OrderWith(t) \in Seq(Turns)
         /\ Elements(OrderWith(t)) \subseteq Turns
         /\ Elements(order) \subseteq Turns
<1>1. order \in Seq(Turns)
  BY DEF TypeOK
<1>2. Append(order, t) \in Seq(Turns)
  BY <1>1, AppendProperties
<1>3. ReceiptKeep \in Nat
  BY BoundsAssumption
<1>4. OrderWith(t) \in Seq(Turns)
  BY <1>1, <1>2, <1>3, NewestType DEF OrderWith
<1> QED
  BY <1>1, <1>4, ElementOfSeq, LenProperties DEF Elements

(* The tables of the handlers stay well typed whichever entry is updated. *)
LEMMA TableTypes ==
  ASSUME TypeOK, NEW t \in Turns, NEW r \in Revs
  PROVE  /\ \A v \in Runs : [run EXCEPT ![t][r] = v] \in [Turns -> [Revs -> Runs]]
         /\ \A v \in Answers :
              [answer EXCEPT ![t][r] = v] \in [Turns -> [Revs -> Answers]]
         /\ \A v \in SUBSET Turns :
              [ctx EXCEPT ![t][r] = v] \in [Turns -> [Revs -> SUBSET Turns]]
         /\ \A v \in Acks, k \in Attempts :
              [ack EXCEPT ![t][r][k] = v] \in [Turns -> [Revs -> [Attempts -> Acks]]]
<1>1. /\ run \in [Turns -> [Revs -> Runs]]
      /\ answer \in [Turns -> [Revs -> Answers]]
      /\ ctx \in [Turns -> [Revs -> SUBSET Turns]]
      /\ ack \in [Turns -> [Revs -> [Attempts -> Acks]]]
  BY DEF TypeOK
<1>2. \A v \in Runs : [run EXCEPT ![t][r] = v] \in [Turns -> [Revs -> Runs]]
  BY <1>1, Set2
<1>3. \A v \in Answers : [answer EXCEPT ![t][r] = v] \in [Turns -> [Revs -> Answers]]
  BY <1>1, Set2
<1>4. \A v \in SUBSET Turns :
        [ctx EXCEPT ![t][r] = v] \in [Turns -> [Revs -> SUBSET Turns]]
  BY <1>1, Set2
<1>5. \A v \in Acks, k \in Attempts :
        [ack EXCEPT ![t][r][k] = v] \in [Turns -> [Revs -> [Attempts -> Acks]]]
  BY <1>1, Set3
<1> QED
  BY <1>2, <1>3, <1>4, <1>5

(* The handlers of /chat and /chat/accept. *)
LEMMA BrainTypes ==
  ASSUME TypeOK, BrainStep
  PROVE  TypeOK'
<1>1. PICK t \in Turns, r \in Revs :
        \/ RegisterTurn(t, r) \/ Prepare(t, r) \/ PassLastCheck(t, r)
        \/ CancelRun(t, r) \/ RunFails(t, r) \/ Deadline(t, r) \/ StageTurn(t, r)
        \/ \E k \in Attempts :
             AcceptTurn(t, r, k) \/ FinishAccept(t, r, k) \/ AcceptFails(t, r, k)
  BY DEF BrainStep
<1>2. PersonaFor(t) \in Personas /\ r \in 1..MaxRev /\ r \in 0..MaxRev
  BY TurnsAssumption, BoundsAssumption DEF PersonaFor, Revs
<1>3. CASE RegisterTurn(t, r)
  <2>1. run' \in [Turns -> [Revs -> Runs]]
    <3>1. \E v \in {"registered", "over"} : run' = [run EXCEPT ![t][r] = v]
      BY <1>3 DEF RegisterTurn
    <3> QED
      BY <3>1, TableTypes DEF Runs
  <2>2. answer' \in [Turns -> [Revs -> Answers]]
    <3>1. answer' = answer \/ answer' = [answer EXCEPT ![t][r] = "error"]
      BY <1>3 DEF RegisterTurn
    <3>2. answer \in [Turns -> [Revs -> Answers]]
      BY DEF TypeOK
    <3> QED
      BY <3>1, <3>2, TableTypes DEF Answers
  <2>3. receipt' \in [Turns -> Receipts]
    <3>1. \A u \in Turns : receipt[u] \in Receipts
      BY DEF TypeOK
    <3>2. NoRow \in Receipts
      BY BoundsAssumption DEF NoRow, Receipts
    <3>3. [revision |-> r, staged |-> FALSE, accepted |-> receipt[t].accepted] \in Receipts
      BY <1>2, <3>1 DEF Receipts
    <3>4. receipt \in [Turns -> Receipts]
      BY DEF TypeOK
    <3>5. \/ receipt' = receipt
          \/ receipt' = [u \in Turns |->
               CASE u = t -> [revision |-> r, staged |-> FALSE,
                              accepted |-> receipt[t].accepted]
                 [] u # t /\ u \in Elements(OrderWith(t)) -> receipt[u]
                 [] OTHER -> NoRow]
      BY <1>3 DEF RegisterTurn
    <3> QED
      BY ONLY <3>1, <3>2, <3>3, <3>4, <3>5
  <2>4. order' \in Seq(Turns) /\ lapsed' \subseteq Turns
    <3>1. order \in Seq(Turns) /\ lapsed \subseteq Turns
      BY DEF TypeOK
    <3>2. \/ order' = order /\ lapsed' = lapsed
          \/ /\ order' = OrderWith(t)
             /\ lapsed' = lapsed \cup (Elements(order) \ Elements(OrderWith(t)))
      BY <1>3 DEF RegisterTurn
    <3> QED
      BY <3>1, <3>2, OrderWithType
  <2> QED
    BY <1>2, <1>3, <2>1, <2>2, <2>3, <2>4 DEF TypeOK, RegisterTurn, pageVars
<1>4. CASE Prepare(t, r)
  <2>1. run' \in [Turns -> [Revs -> Runs]]
    <3>1. \E v \in Runs : run' = [run EXCEPT ![t][r] = v]
      BY <1>4 DEF Prepare, Runs
    <3> QED
      BY <3>1, TableTypes
  <2>2. TurnsIn(live) \in SUBSET Turns
    BY TurnsInType DEF TypeOK
  <2>3. ctx' \in [Turns -> [Revs -> SUBSET Turns]]
    <3>1. ctx' = [ctx EXCEPT ![t][r] = TurnsIn(live)]
      BY <1>4 DEF Prepare
    <3>2. ctx \in [Turns -> [Revs -> SUBSET Turns]]
      BY DEF TypeOK
    <3> QED
      BY ONLY <2>2, <3>1, <3>2, Set2, t \in Turns, r \in Revs
  <2>4. receipt' \in [Turns -> Receipts] /\ lapsed' \subseteq Turns /\ order' \in Seq(Turns)
    <3>1. CASE DropReceipts(Turns) /\ order' = <<>>
      BY <3>1, DropReceiptsType, EmptySeq
    <3>2. CASE UNCHANGED <<receipt, order, lapsed>>
      BY <3>2 DEF TypeOK
    <3> QED
      BY <1>4, <3>1, <3>2 DEF Prepare
  <2>5. session' \in Personas /\ age' = 0
    BY <1>2, <1>4 DEF Prepare
  <2>6. UNCHANGED <<pageVars, answer, ack, effects, live, record, faded, erased>>
    BY <1>4 DEF Prepare
  <2> QED
    BY ONLY TypeOK, <2>1, <2>3, <2>4, <2>5, <2>6 DEF TypeOK, pageVars
<1>5. CASE PassLastCheck(t, r)
  <2>1. run' \in [Turns -> [Revs -> Runs]]
    BY <1>5, Set2 DEF TypeOK, PassLastCheck, Runs
  <2> QED
    BY <1>5, <2>1 DEF TypeOK, PassLastCheck, pageVars, storeVars
<1>6. CASE CancelRun(t, r)
  <2>1. run' \in [Turns -> [Revs -> Runs]]
    BY <1>6, Set2 DEF TypeOK, CancelRun, Runs
  <2> QED
    BY <1>6, <2>1 DEF TypeOK, CancelRun, pageVars, storeVars
<1>7. ASSUME NEW out \in {"done", "error"}, Answer(t, r, out)
      PROVE  answer' \in [Turns -> [Revs -> Answers]]
  <2>1. answer[t][r] \in Answers /\ out \in Answers
    BY DEF TypeOK, Answers
  <2> QED
    BY <1>7, <2>1, Set2 DEF TypeOK, Answer
<1>8. CASE RunFails(t, r)
  <2>1. run' \in [Turns -> [Revs -> Runs]]
    BY <1>8, Set2 DEF TypeOK, RunFails, Runs
  <2>2. answer' \in [Turns -> [Revs -> Answers]]
    BY <1>7, <1>8 DEF RunFails
  <2> QED
    BY <1>8, <2>1, <2>2 DEF TypeOK, RunFails, pageVars, storeVars
<1>9. CASE Deadline(t, r)
  <2>1. answer' \in [Turns -> [Revs -> Answers]]
    BY <1>7, <1>9 DEF Deadline
  <2> QED
    BY <1>9, <2>1 DEF TypeOK, Deadline, pageVars, storeVars
<1>10. CASE StageTurn(t, r)
  <2>1. run' \in [Turns -> [Revs -> Runs]]
    <3>1. \E v \in {"staged", "over"} : run' = [run EXCEPT ![t][r] = v]
      BY <1>10 DEF StageTurn
    <3> QED
      BY <3>1, TableTypes DEF Runs
  <2>2. answer' \in [Turns -> [Revs -> Answers]]
    BY <1>7, <1>10 DEF StageTurn
  <2>3. receipt' \in [Turns -> Receipts]
    <3>1. receipt' = receipt \/ receipt' = [receipt EXCEPT ![t].staged = TRUE]
      BY <1>10 DEF StageTurn
    <3>2. receipt \in [Turns -> Receipts]
      BY DEF TypeOK
    <3> QED
      BY <3>1, <3>2 DEF Receipts
  <2> QED
    BY <1>10, <2>1, <2>2, <2>3 DEF TypeOK, StageTurn, pageVars
<1>11. ASSUME NEW k \in Attempts, AcceptTurn(t, r, k)
       PROVE  TypeOK'
  <2>1. ack' \in [Turns -> [Revs -> [Attempts -> Acks]]]
    <3>1. \E v \in {"stale", "ok", "committed"} : ack' = [ack EXCEPT ![t][r][k] = v]
      BY <1>11 DEF AcceptTurn
    <3> QED
      BY <3>1, TableTypes DEF Acks
  <2>2. CASE UNCHANGED storeVars
    BY <1>11, <2>1, <2>2 DEF TypeOK, AcceptTurn, pageVars, storeVars
  <2>3. CASE MayAccept(receipt[t], r) /\ CommitTurn(t)
    <3>1. receipt[t].revision \in Revs
      BY <2>3 DEF MayAccept
    <3>2. <<t, receipt[t].revision>> \in Sends
      BY <3>1 DEF Sends
    <3>3. /\ Append(live, <<t, receipt[t].revision>>) \in Seq(Sends)
          /\ Append(record, <<t, receipt[t].revision>>) \in Seq(Sends)
      BY <3>2, AppendProperties DEF TypeOK
    <3>4. live' \in Seq(Sends)
      BY <2>3, <3>3, NewestType, BoundsAssumption DEF CommitTurn
    <3>5. faded' \subseteq Turns
      BY <2>3, <3>3, TurnsInType DEF CommitTurn, TypeOK
    <3>6. receipt' \in [Turns -> Receipts]
      <4>1. receipt' = [receipt EXCEPT ![t].accepted = TRUE]
        BY <2>3 DEF CommitTurn
      <4>2. receipt \in [Turns -> Receipts]
        BY DEF TypeOK
      <4> QED
        BY ONLY <4>1, <4>2, t \in Turns DEF Receipts
    <3>7. record' \in Seq(Sends) /\ order' \in Seq(Turns)
      BY <2>3, <3>3 DEF CommitTurn, TypeOK
    <3>8. /\ session' \in Personas \cup {NoSession}
          /\ age' \in 0..2
          /\ erased' \subseteq Turns
          /\ lapsed' \subseteq Turns
      BY <1>2, <2>3 DEF CommitTurn, TypeOK
    <3>9. UNCHANGED <<phase, pending, accepting, tries, run, answer, ctx, effects>>
      BY <1>11 DEF AcceptTurn, pageVars
    <3> HIDE DEF Attempts
    <3> QED
      BY <2>1, <3>4, <3>5, <3>6, <3>7, <3>8, <3>9 DEF TypeOK
  <2> QED
    BY <1>11, <2>2, <2>3 DEF AcceptTurn
<1>12. ASSUME NEW k \in Attempts, FinishAccept(t, r, k)
       PROVE  TypeOK'
  <2>1. ack' \in [Turns -> [Revs -> [Attempts -> Acks]]]
    BY <1>12, Set3 DEF TypeOK, FinishAccept, Acks
  <2>2. effects' \in [Turns -> Nat]
    BY <1>12 DEF TypeOK, FinishAccept
  <2> QED
    BY <1>12, <2>1, <2>2 DEF TypeOK, FinishAccept, pageVars, storeVars
<1>13. ASSUME NEW k \in Attempts, AcceptFails(t, r, k)
       PROVE  TypeOK'
  <2>1. ack' \in [Turns -> [Revs -> [Attempts -> Acks]]]
    BY <1>13, Set3 DEF TypeOK, AcceptFails, Acks
  <2> QED
    BY <1>13, <2>1 DEF TypeOK, AcceptFails, pageVars, storeVars
<1> QED
  BY <1>1, <1>3, <1>4, <1>5, <1>6, <1>8, <1>9, <1>10, <1>11, <1>12, <1>13

(* Time, pruning and deletion. *)
LEMMA SessionTypes ==
  ASSUME TypeOK, SessionStep
  PROVE  TypeOK'
<1>1. CASE TimePasses
  BY <1>1, BoundsAssumption DEF TypeOK, TimePasses, pageVars, brainVars
<1>2. CASE PruneSession
  <2>1. TurnsIn(live) \subseteq Turns
    BY TurnsInType DEF TypeOK
  <2>2. receipt' \in [Turns -> Receipts] /\ lapsed' \subseteq Turns
    BY <1>2, DropReceiptsType DEF PruneSession
  <2> QED
    BY <1>2, <2>1, <2>2, EmptySeq
       DEF TypeOK, PruneSession, RecordAfterPrune, pageVars, brainVars
<1>3. CASE DeleteSession
  <2>1. TurnsIn(live) \subseteq Turns /\ TurnsIn(record) \subseteq Turns
    BY TurnsInType DEF TypeOK
  <2>2. receipt' \in [Turns -> Receipts] /\ lapsed' \subseteq Turns
    BY <1>3, DropReceiptsType DEF DeleteSession
  <2> QED
    BY <1>3, <2>1, <2>2, EmptySeq DEF TypeOK, DeleteSession, pageVars, brainVars
<1> QED
  BY <1>1, <1>2, <1>3 DEF SessionStep

(* Every reachable state is well typed: in particular acceptReply never    *)
(* makes a third attempt and a receipt's revision stays in range.          *)
THEOREM TypeCorrect == Spec => []TypeOK
<1>1. Init => TypeOK
  BY BoundsAssumption, EmptySeq
     DEF Init, TypeOK, Phases, Runs, Answers, Acks, NoRow, Receipts
<1>2. TypeOK /\ [Next]_vars => TypeOK'
  <2>1. CASE UNCHANGED vars
    BY <2>1 DEF TypeOK, vars, pageVars, brainVars, storeVars
  <2> QED
    BY <2>1, PageTypes, BrainTypes, SessionTypes DEF Next
<1> QED
  BY <1>1, <1>2, PTL DEF Spec

-----------------------------------------------------------------------------
(* What the parts of Inv that speak of the store need: the store and the   *)
(* runs stay, and the phases only move forward.                            *)

PhasesAdvance ==
  \A x \in Turns, y \in Revs :
    /\ phase[x][y] \in Closed => phase'[x][y] \in Closed
    /\ phase'[x][y] \notin Past =>
         phase[x][y] \notin Past \/ ~ \E s \in Revs : phase[x][s] \in Closed

(* A recorded turn has a closed revision, the only one that is not past. *)
LEMMA RecordedRevision ==
  ASSUME Inv, NEW t \in Turns, WasRecorded(t)
  PROVE  \E r \in Revs : phase[t][r] \in Closed /\ run[t][r] = "staged"
<1>1. CASE t \in erased
  BY <1>1 DEF Inv, RecordedAreClosed
<1>2. CASE t \in TurnsIn(record)
  <2>1. PICK i \in DOMAIN record : record[i][1] = t
    BY <1>2 DEF TurnsIn
  <2>2. record[i] \in Sends
    BY ElementOfSeq, LenProperties DEF Inv, TypeOK
  <2>3. record[i][2] \in Revs
    BY <2>2 DEF Sends
  <2> QED
    BY <2>1, <2>3 DEF Inv, RecordedAreClosed
<1> QED
  BY <1>1, <1>2 DEF WasRecorded

LEMMA OnlyLastIsOpen ==
  ASSUME Inv, NEW t \in Turns, NEW r \in Revs, NEW s \in Revs,
         phase[t][r] \notin Past, phase[t][s] \notin Past
  PROVE  r = s
<1>1. r \in Int /\ s \in Int
  BY DEF Revs
<1>2. ~(r < s) /\ ~(s < r)
  BY <1>1 DEF Inv, RevisionsInOrder, Past
<1> QED
  BY <1>1, <1>2

(* The table of the acknowledgements after one entry was set.              *)
SetAck(t, r, k, v) == ack' = [ack EXCEPT ![t][r][k] = v]

LEMMA AckUpdate ==
  ASSUME Inv, NEW t \in Turns, NEW r \in Revs, NEW v \in Acks, NEW k \in Attempts,
         SetAck(t, r, k, v)
  PROVE  \A x \in Turns, y \in Revs, j \in Attempts :
           ack'[x][y][j] = IF x = t /\ y = r /\ j = k THEN v ELSE ack[x][y][j]
<1> USE DEF SetAck
<1> HIDE DEF Attempts
<1>1. ack \in [Turns -> [Revs -> [Attempts -> Acks]]]
  BY DEF Inv, TypeOK
<1>2. \A y \in Revs : ack'[t][y] = IF y = r THEN [ack[t][r] EXCEPT ![k] = v] ELSE ack[t][y]
  BY <1>1
<1>3. \A x \in Turns : x # t => ack'[x] = ack[x]
  BY <1>1
<1>4. \A j \in Attempts : [ack[t][r] EXCEPT ![k] = v][j] = IF j = k THEN v ELSE ack[t][r][j]
  BY <1>1
<1> QED
  BY <1>2, <1>3, <1>4

(* The store's part of Inv survives any step of a page that keeps the      *)
(* runs and moves phases forward.                                          *)
LEMMA StoreKept ==
  ASSUME Inv, PhasesAdvance, UNCHANGED <<record, erased, receipt>>,
         \A x \in Turns, y \in Revs : run[x][y] = "staged" => run'[x][y] = "staged"
  PROVE  RecordedAreClosed' /\ NoSecondCommit' /\ ReceiptsAreStaged' /\ RecordedOnce'
<1>1. RecordedAreClosed'
  <2>1. \A i \in DOMAIN record : record[i][1] \in Turns /\ record[i][2] \in Revs
    BY ElementOfSeq, LenProperties DEF Inv, TypeOK, Sends
  <2>2. erased \subseteq Turns
    BY DEF Inv, TypeOK
  <2> QED
    BY <2>1, <2>2 DEF Inv, RecordedAreClosed, PhasesAdvance
<1>2. NoSecondCommit'
  <2> SUFFICES ASSUME NEW t \in Turns, NEW r \in Revs,
                      WasRecorded(t), phase'[t][r] \notin Past
               PROVE  receipt[t].revision # r \/ receipt[t].accepted
    BY DEF NoSecondCommit, WasRecorded, TurnsIn
  <2>1. phase[t][r] \notin Past
    BY RecordedRevision DEF PhasesAdvance
  <2> QED
    BY <2>1 DEF Inv, NoSecondCommit
<1>3. ReceiptsAreStaged' /\ RecordedOnce'
  BY DEF Inv, ReceiptsAreStaged, RecordedOnce, TurnsIn
<1> QED
  BY <1>1, <1>2, <1>3

(* So does its account of acknowledgements and side effects, when the page *)
(* only sends acknowledgements and believes only a positive answer.        *)
LEMMA EvidenceKept ==
  ASSUME Inv, UNCHANGED <<record, erased, receipt, effects>>,
         \A x \in Turns, y \in Revs, k \in Attempts :
           ack'[x][y][k] = ack[x][y][k] \/ ack'[x][y][k] = "sent",
         \A x \in Turns, y \in Revs : phase'[x][y] = "confirmed" =>
           phase[x][y] = "confirmed" \/ \E k \in Attempts : ack[x][y][k] = "ok"
  PROVE  CommitsAreRecorded' /\ EffectsFollowCommits'
<1> HIDE DEF Attempts
<1>1. \A t \in Turns : WasRecorded(t)' <=> WasRecorded(t)
  BY DEF WasRecorded, TurnsIn
<1>2. CommitsAreRecorded'
  <2>1. \A t \in Turns : receipt'[t].accepted => WasRecorded(t)'
    BY <1>1 DEF Inv, CommitsAreRecorded
  <2>2. \A t \in Turns, r \in Revs : phase'[t][r] = "confirmed" => WasRecorded(t)'
    BY <1>1 DEF Inv, CommitsAreRecorded
  <2>3. \A t \in Turns, r \in Revs, k \in Attempts :
          ack'[t][r][k] \in {"committed", "ok", "failed"} => WasRecorded(t)'
    BY <1>1 DEF Inv, CommitsAreRecorded
  <2> QED
    BY <2>1, <2>2, <2>3 DEF CommitsAreRecorded
<1>3. EffectsFollowCommits'
  <2>1. \A t \in Turns, r \in Revs, k \in Attempts :
          ack'[t][r][k] = "committed" => ack[t][r][k] = "committed"
    OBVIOUS
  <2>2. \A t \in Turns :
          /\ effects[t] <= 1
          /\ ~WasRecorded(t) => effects[t] = 0
          /\ \A r \in Revs, k \in Attempts : ack[t][r][k] = "committed" =>
               /\ effects[t] = 0
               /\ \A s \in Revs, j \in Attempts :
                    ack[t][s][j] = "committed" => s = r /\ j = k
    BY DEF Inv, EffectsFollowCommits
  <2> QED
    BY <1>1, <2>1, <2>2 DEF EffectsFollowCommits
<1> QED
  BY <1>2, <1>3

(* One coroutine moves on to v: it was not over, and it does not go back   *)
(* behind its answer.                                                      *)
Moves(t, r, v) ==
  /\ phase[t][r] \notin Past
  /\ v \in {"asked", "speaking", "accepting", "confirmed", "failed"}
  /\ phase[t][r] \in Closed => v \in Closed
  /\ phase' = [phase EXCEPT ![t][r] = v]

LEMMA MoveKeepsOrder ==
  ASSUME Inv, NEW t \in Turns, NEW r \in Revs, NEW v, Moves(t, r, v)
  PROVE  /\ RevisionsInOrder'
         /\ PhasesAdvance
         /\ \A x \in Turns, y \in Revs :
              phase'[x][y] = IF x = t /\ y = r THEN v ELSE phase[x][y]
<1>1. phase \in [Turns -> [Revs -> Phases]] /\ v \in Phases
  BY DEF Inv, TypeOK, Moves, Phases
<1>2. \A x \in Turns, y \in Revs :
        phase'[x][y] = IF x = t /\ y = r THEN v ELSE phase[x][y]
  BY <1>1, Set2 DEF Moves
<1>3. RevisionsInOrder'
  <2>1. \A x \in Turns, y \in Revs : phase'[x][y] \in Past <=> phase[x][y] \in Past
    BY <1>2 DEF Moves, Past
  <2>2. \A x \in Turns, y \in Revs : phase'[x][y] = "none" <=> phase[x][y] = "none"
    BY <1>2 DEF Moves, Past
  <2>3. 1 \in Revs
    BY BoundsAssumption DEF Revs
  <2> QED
    BY <2>1, <2>2, <2>3 DEF Inv, RevisionsInOrder
<1>4. PhasesAdvance
  BY <1>2 DEF PhasesAdvance, Moves, Past, Closed
<1> QED
  BY <1>2, <1>3, <1>4

(* cancel() followed by a send of (t, r), the last revision of its turn.   *)
LEMMA CancelAdvances ==
  ASSUME Inv, NEW p \in Pages
  PROVE  /\ \A x \in Turns, y \in Revs :
              Cancelled(p)[x][y] =
                IF PageOf[x] = p /\ phase[x][y] \in {"waiting", "asked", "speaking"}
                THEN "dropped" ELSE phase[x][y]
         /\ \A x \in Turns, y \in Revs :
              /\ Cancelled(p)[x][y] \notin Past => Cancelled(p)[x][y] = phase[x][y]
              /\ Cancelled(p)[x][y] = "none" <=> phase[x][y] = "none"
              /\ phase[x][y] \in Closed => Cancelled(p)[x][y] = phase[x][y]
<1>1. \A x \in Turns, y \in Revs :
        Cancelled(p)[x][y] =
          IF PageOf[x] = p /\ phase[x][y] \in {"waiting", "asked", "speaking"}
          THEN "dropped" ELSE phase[x][y]
  BY DEF Cancelled
<1> QED
  BY <1>1 DEF Past, Closed

-----------------------------------------------------------------------------
(* The page's steps preserve Inv.                                          *)

(* Steps that leave the handlers alone: sends and interruptions. *)
LEMMA QuietPage ==
  ASSUME Inv, TypeOK', UNCHANGED <<tries, brainVars, storeVars>>,
         PhasesAdvance, RevisionsInOrder', PendingIsOpen',
         \A x \in Turns, y \in Revs :
           /\ phase'[x][y] \in {"none", "waiting"} => phase[x][y] \in {"none", "waiting"}
           /\ phase'[x][y] \in {"accepting", "confirmed"} =>
                phase[x][y] = phase'[x][y]
  PROVE  Inv'
<1>1. UNCHANGED <<record, erased, receipt, effects, run, answer, ack>>
  BY DEF brainVars, storeVars
<1>2. RecordedAreClosed' /\ NoSecondCommit' /\ ReceiptsAreStaged' /\ RecordedOnce'
  BY <1>1, StoreKept
<1>3. CommitsAreRecorded' /\ EffectsFollowCommits'
  BY <1>1, EvidenceKept
<1>4. RunsWereAsked' /\ AnswersAreStaged'
  BY <1>1 DEF Inv, RunsWereAsked, AnswersAreStaged
<1>5. AcksAreClosed' /\ AttemptUnderWay'
  BY <1>1 DEF Inv, AcksAreClosed, AttemptUnderWay, PhasesAdvance
<1> QED
  BY <1>2, <1>3, <1>4, <1>5 DEF Inv

LEMMA SendNewInv ==
  ASSUME Inv, TypeOK', NEW p \in Pages, NEW t \in Turns, SendNew(p, t)
  PROVE  Inv'
<1> USE DEF Past, Closed
<1>1. 1 \in Revs /\ <<t, 1>> # NoSend
  BY BoundsAssumption DEF Revs, NoSend
<1>2. Cancelled(p) \in [Turns -> [Revs -> Phases]] /\ "waiting" \in Phases
  BY CancelledType DEF Inv, Phases
<1>3. \A x \in Turns, y \in Revs :
        phase'[x][y] = IF x = t /\ y = 1 THEN "waiting" ELSE Cancelled(p)[x][y]
  BY <1>1, <1>2, Set2 DEF SendNew
<1>4. \A y \in Revs : phase[t][y] = "none"
  BY DEF SendNew, Inv, RevisionsInOrder
<1>5. RevisionsInOrder'
  <2> SUFFICES ASSUME NEW x \in Turns, NEW y \in Revs
               PROVE  /\ phase'[x][y] # "none" => phase'[x][1] # "none"
                      /\ phase'[x][y] \notin Past =>
                           \A s \in Revs : s > y => phase'[x][s] = "none"
    BY DEF RevisionsInOrder
  <2>1. CASE x = t
    BY <1>1, <1>3, <1>4, <2>1, CancelAdvances DEF Revs
  <2>2. CASE x # t
    BY <1>1, <1>3, <2>2, CancelAdvances DEF Inv, RevisionsInOrder
  <2> QED
    BY <2>1, <2>2
<1>6. PhasesAdvance
  BY <1>1, <1>3, <1>4, CancelAdvances DEF PhasesAdvance
<1>7. PendingIsOpen'
  <2> SUFFICES ASSUME NEW q \in Pages, pending'[q] # NoSend
               PROVE  /\ PageOf[pending'[q][1]] = q
                      /\ phase'[pending'[q][1]][pending'[q][2]] \in {"waiting", "asked"}
    BY DEF PendingIsOpen
  <2>1. CASE q = p
    BY <1>1, <1>3, <2>1 DEF SendNew, Inv, TypeOK
  <2>2. CASE q # p
    <3>1. pending'[q] = pending[q] /\ pending[q] \in Sends
      BY <2>2 DEF SendNew, Inv, TypeOK
    <3>2. PICK x \in Turns, y \in Revs : pending[q] = <<x, y>>
      BY <3>1 DEF Sends
    <3>3. PageOf[x] = q /\ phase[x][y] \in {"waiting", "asked"}
      BY <3>1, <3>2 DEF Inv, PendingIsOpen
    <3>4. PageOf[t] = p
      BY DEF SendNew
    <3> QED
      BY <1>3, <2>2, <3>1, <3>2, <3>3, <3>4, CancelAdvances
  <2> QED
    BY <2>1, <2>2
<1> QED
  BY <1>3, <1>4, <1>5, <1>6, <1>7, CancelAdvances, QuietPage DEF SendNew

LEMMA SendMergedInv ==
  ASSUME Inv, TypeOK', NEW p \in Pages, SendMerged(p)
  PROVE  Inv'
<1> USE DEF Past, Closed
<1>1. PICK t \in Turns, q \in Revs : pending[p] = <<t, q>>
  BY DEF Inv, TypeOK, SendMerged, Sends
<1>2. /\ PageOf[t] = p
      /\ phase[t][q] \in {"waiting", "asked"}
  <2>1. pending[p] # NoSend
    BY DEF SendMerged
  <2>2. pending[p][1] = t /\ pending[p][2] = q
    BY <1>1
  <2> QED
    BY <2>1, <2>2 DEF Inv, PendingIsOpen
<1> DEFINE r == q + 1
<1>3. r \in Revs /\ 1 \in Revs /\ <<t, r>> # NoSend
  BY <1>1, BoundsAssumption DEF SendMerged, Revs, NoSend
<1>4. Cancelled(p) \in [Turns -> [Revs -> Phases]] /\ "waiting" \in Phases
  BY CancelledType DEF Inv, Phases
<1>5. \A x \in Turns, y \in Revs :
        phase'[x][y] = IF x = t /\ y = r THEN "waiting" ELSE Cancelled(p)[x][y]
  <2>1. phase' = [Cancelled(p) EXCEPT ![t][r] = "waiting"]
    BY <1>1 DEF SendMerged
  <2>2. ASSUME NEW f \in [Turns -> [Revs -> Phases]], NEW s \in Revs, NEW v \in Phases
        PROVE  \A x \in Turns, y \in Revs :
                 [f EXCEPT ![t][s] = v][x][y] = IF x = t /\ y = s THEN v ELSE f[x][y]
    BY ONLY Set2, t \in Turns, f \in [Turns -> [Revs -> Phases]], s \in Revs, v \in Phases
  <2> HIDE DEF r
  <2> QED
    BY ONLY <1>3, <1>4, <2>1, <2>2
<1>6. \A y \in Revs : /\ y # q => phase[t][y] \in Past
                      /\ y > q => phase[t][y] = "none"
  BY <1>2, OnlyLastIsOpen DEF Inv, RevisionsInOrder
<1>7. Cancelled(p)[t][q] = "dropped"
  BY <1>2, CancelAdvances
<1>8. RevisionsInOrder'
  <2> SUFFICES ASSUME NEW x \in Turns, NEW y \in Revs
               PROVE  /\ phase'[x][y] # "none" => phase'[x][1] # "none"
                      /\ phase'[x][y] \notin Past =>
                           \A s \in Revs : s > y => phase'[x][s] = "none"
    BY DEF RevisionsInOrder
  <2>1. CASE x = t
    <3>1. phase'[t][1] # "none"
      BY <1>2, <1>3, <1>5, CancelAdvances DEF Inv, RevisionsInOrder
    <3>2. \A s \in Revs : s # r => phase'[t][s] \in Past
      BY <1>5, <1>6, <1>7, CancelAdvances
    <3>3. \A s \in Revs : s > r => phase'[t][s] = "none"
      BY <1>5, <1>6, CancelAdvances DEF Revs
    <3> QED
      BY <2>1, <3>1, <3>2, <3>3
  <2>2. CASE x # t
    BY <1>3, <1>5, <2>2, CancelAdvances DEF Inv, RevisionsInOrder
  <2> QED
    BY <2>1, <2>2
<1>9. PhasesAdvance
  <2>1. \A y \in Revs : phase[t][y] \notin Closed
    BY <1>2, <1>6
  <2>2. r > q
    BY DEF Revs
  <2>3. phase[t][r] = "none"
    BY <1>3, <1>6, <2>2
  <2> HIDE DEF r
  <2> QED
    BY <1>5, <2>1, <2>3, CancelAdvances DEF PhasesAdvance
<1>10. PendingIsOpen'
  <2> SUFFICES ASSUME NEW o \in Pages, pending'[o] # NoSend
               PROVE  /\ PageOf[pending'[o][1]] = o
                      /\ phase'[pending'[o][1]][pending'[o][2]] \in {"waiting", "asked"}
    BY DEF PendingIsOpen
  <2>1. CASE o = p
    BY <1>1, <1>2, <1>3, <1>5, <2>1 DEF SendMerged, Inv, TypeOK
  <2>2. CASE o # p
    <3>1. pending'[o] = pending[o] /\ pending[o] \in Sends
      BY <2>2 DEF SendMerged, Inv, TypeOK
    <3>2. PICK x \in Turns, y \in Revs : pending[o] = <<x, y>>
      BY <3>1 DEF Sends
    <3>3. PageOf[x] = o /\ phase[x][y] \in {"waiting", "asked"}
      BY <3>1, <3>2 DEF Inv, PendingIsOpen
    <3> QED
      BY <1>2, <1>5, <2>2, <3>1, <3>2, <3>3, CancelAdvances
  <2> QED
    BY <2>1, <2>2
<1>11. phase[t][r] = "none"
  BY <1>3, <1>6 DEF Revs
<1>12. UNCHANGED <<tries, brainVars, storeVars>>
  BY DEF SendMerged
<1> HIDE DEF r
<1> QED
  BY <1>5, <1>8, <1>9, <1>10, <1>11, <1>12, CancelAdvances, QuietPage

LEMMA InterruptInv ==
  ASSUME Inv, TypeOK', NEW p \in Pages, Interrupt(p)
  PROVE  Inv'
<1> USE DEF Past, Closed
<1>1. phase' = Cancelled(p)
  BY DEF Interrupt
<1>2. RevisionsInOrder'
  <2>1. 1 \in Revs
    BY BoundsAssumption DEF Revs
  <2> QED
    BY <1>1, <2>1, CancelAdvances DEF Inv, RevisionsInOrder
<1>3. PhasesAdvance
  BY <1>1, CancelAdvances DEF PhasesAdvance
<1>4. PendingIsOpen'
  <2> SUFFICES ASSUME NEW o \in Pages, pending'[o] # NoSend
               PROVE  /\ PageOf[pending'[o][1]] = o
                      /\ phase'[pending'[o][1]][pending'[o][2]] \in {"waiting", "asked"}
    BY DEF PendingIsOpen
  <2>1. o # p /\ pending'[o] = pending[o] /\ pending[o] \in Sends
    BY DEF Interrupt, Inv, TypeOK
  <2>2. PICK x \in Turns, y \in Revs : pending[o] = <<x, y>>
    BY <2>1 DEF Sends
  <2>3. PageOf[x] = o /\ phase[x][y] \in {"waiting", "asked"}
    BY <2>1, <2>2 DEF Inv, PendingIsOpen
  <2> QED
    BY <1>1, <2>1, <2>2, <2>3, CancelAdvances
<1> QED
  BY <1>1, <1>2, <1>3, <1>4, CancelAdvances, QuietPage DEF Interrupt

(* Steps of one coroutine between its question and the page's verdict.     *)
LEMMA PendingMoves ==
  ASSUME Inv, TypeOK', NEW t \in Turns, NEW r \in Revs, NEW v, Moves(t, r, v),
         \/ (v = "asked" /\ pending' = pending)
         \/ pending' = [pending EXCEPT ![PageOf[t]] = NoSend]
         \/ phase[t][r] \in Closed /\ pending' = pending
  PROVE  PendingIsOpen'
<1> SUFFICES ASSUME NEW o \in Pages, pending'[o] # NoSend
             PROVE  /\ PageOf[pending'[o][1]] = o
                    /\ phase'[pending'[o][1]][pending'[o][2]] \in {"waiting", "asked"}
  BY DEF PendingIsOpen
<1>1. /\ pending'[o] = pending[o]
      /\ pending[o] \in Sends
      /\ o = PageOf[t] => v = "asked" \/ phase[t][r] \in Closed
  BY DEF Inv, TypeOK
<1>2. PICK x \in Turns, y \in Revs : pending[o] = <<x, y>>
  BY <1>1 DEF Sends
<1>3. PageOf[x] = o /\ phase[x][y] \in {"waiting", "asked"}
  BY <1>1, <1>2 DEF Inv, PendingIsOpen
<1> QED
  BY <1>1, <1>2, <1>3, MoveKeepsOrder DEF Closed

LEMMA AskInv ==
  ASSUME Inv, TypeOK', NEW t \in Turns, NEW r \in Revs, Ask(t, r)
  PROVE  Inv'
<1>1. Moves(t, r, "asked")
  BY DEF Ask, Moves, Past, Closed
<1>2. /\ \A x \in Turns, y \in Revs :
           run'[x][y] = IF x = t /\ y = r THEN "sent" ELSE run[x][y]
      /\ run[t][r] = "none"
  <2>1. run \in [Turns -> [Revs -> Runs]] /\ "sent" \in Runs
    BY DEF Inv, TypeOK, Runs
  <2> QED
    BY <2>1, Set2 DEF Ask, Inv, RunsWereAsked
<1>3. UNCHANGED <<record, erased, receipt, effects, answer, ack, pending>>
  BY DEF Ask, storeVars
<1>4. RecordedAreClosed' /\ NoSecondCommit' /\ ReceiptsAreStaged' /\ RecordedOnce'
  BY <1>1, <1>2, <1>3, MoveKeepsOrder, StoreKept
<1>5. CommitsAreRecorded' /\ EffectsFollowCommits'
  BY <1>1, <1>3, MoveKeepsOrder, EvidenceKept
<1>6. RunsWereAsked' /\ AnswersAreStaged'
  BY <1>1, <1>2, <1>3, MoveKeepsOrder DEF Inv, RunsWereAsked, AnswersAreStaged
<1>7. AcksAreClosed'
  BY <1>1, <1>2, <1>3, MoveKeepsOrder DEF Inv, AcksAreClosed, Moves
<1>8. AttemptUnderWay'
  BY <1>1, MoveKeepsOrder DEF Ask, Inv, AttemptUnderWay
<1> QED
  BY <1>1, <1>8, <1>3, <1>4, <1>5, <1>6, <1>7, MoveKeepsOrder, PendingMoves DEF Inv

(* Only an acknowledging coroutine touches its attempts, and only by one   *)
(* more request.                                                           *)
OwnAttempts(t, r, v) ==
  /\ \A x \in Turns, y \in Revs :
       tries'[x][y] = tries[x][y] \/ (x = t /\ y = r /\ v = "accepting")
  /\ \A x \in Turns, y \in Revs, k \in Attempts :
       \/ ack'[x][y][k] = ack[x][y][k]
       \/ ack'[x][y][k] = "sent" /\ x = t /\ y = r /\ v = "accepting"

(* The coroutine moves on by its own doing, the runs untouched. *)
LEMMA MoveInv ==
  ASSUME Inv, TypeOK', NEW t \in Turns, NEW r \in Revs,
         NEW v \in {"speaking", "accepting", "confirmed", "failed"}, Moves(t, r, v),
         phase[t][r] # "waiting",
         \/ pending' = [pending EXCEPT ![PageOf[t]] = NoSend]
         \/ phase[t][r] \in Closed /\ pending' = pending,
         v = "accepting" => run[t][r] = "staged" /\ tries'[t][r] \in Attempts,
         v = "confirmed" => phase[t][r] = "accepting" /\
                            \E k \in Attempts : ack[t][r][k] = "ok",
         UNCHANGED <<run, answer, effects, storeVars>>, OwnAttempts(t, r, v)
  PROVE  Inv'
<1> USE DEF OwnAttempts
<1> HIDE DEF Attempts
<1>1. UNCHANGED <<record, erased, receipt>>
  BY DEF storeVars
<1>2. RecordedAreClosed' /\ NoSecondCommit' /\ ReceiptsAreStaged' /\ RecordedOnce'
  BY <1>1, MoveKeepsOrder, StoreKept
<1>3. CommitsAreRecorded' /\ EffectsFollowCommits'
  <2>1. \A x \in Turns, y \in Revs : phase'[x][y] = "confirmed" =>
          phase[x][y] = "confirmed" \/ \E k \in Attempts : ack[x][y][k] = "ok"
    BY MoveKeepsOrder
  <2> QED
    BY <1>1, <2>1, EvidenceKept
<1>4. RunsWereAsked' /\ AnswersAreStaged'
  BY MoveKeepsOrder DEF Inv, RunsWereAsked, AnswersAreStaged
<1>5. AcksAreClosed'
  <2> SUFFICES ASSUME NEW x \in Turns, NEW y \in Revs
               PROVE  /\ \A k \in Attempts :
                           ack'[x][y][k] # "none" => phase'[x][y] \in Closed
                      /\ phase'[x][y] \in {"accepting", "confirmed"} =>
                           run'[x][y] = "staged"
    BY DEF AcksAreClosed
  <2>1. \A k \in Attempts : ack'[x][y][k] # "none" => phase'[x][y] \in Closed
    BY MoveKeepsOrder DEF Inv, AcksAreClosed, PhasesAdvance, Closed
  <2>2. phase'[x][y] \in {"accepting", "confirmed"} => run'[x][y] = "staged"
    BY MoveKeepsOrder DEF Inv, AcksAreClosed
  <2> QED
    BY <2>1, <2>2
<1>6. AttemptUnderWay'
  BY MoveKeepsOrder DEF Inv, AttemptUnderWay
<1> QED
  BY <1>2, <1>3, <1>4, <1>5, <1>6, MoveKeepsOrder, PendingMoves DEF Inv

LEMMA PageInv ==
  ASSUME Inv, TypeOK', PageStep
  PROVE  Inv'
<1> USE DEF Past, Closed
<1>1. ASSUME NEW p \in Pages, NEW t \in Turns, SendNew(p, t)
      PROVE  Inv'
  BY <1>1, SendNewInv
<1>2. ASSUME NEW p \in Pages, SendMerged(p) \/ Interrupt(p)
      PROVE  Inv'
  BY <1>2, SendMergedInv, InterruptInv
<1>3. ASSUME NEW t \in Turns, NEW r \in Revs, Ask(t, r)
      PROVE  Inv'
  BY <1>3, AskInv
<1>4. ASSUME NEW t \in Turns, NEW r \in Revs, HearSentence(t, r)
      PROVE  Inv'
  <2>1. Moves(t, r, "speaking")
    BY <1>4 DEF HearSentence, Moves
  <2> QED
    BY <1>4, <2>1, MoveInv DEF HearSentence, brainVars, OwnAttempts
<1>5. ASSUME NEW t \in Turns, NEW r \in Revs, ReceiveAnswer(t, r)
      PROVE  Inv'
  <2>1. Moves(t, r, "accepting")
    BY <1>5 DEF ReceiveAnswer, Moves
  <2>2. run[t][r] = "staged"
    BY <1>5 DEF ReceiveAnswer, Inv, AnswersAreStaged
  <2>3. \A x \in Turns, y \in Revs, k \in Attempts :
          ack'[x][y][k] = IF x = t /\ y = r /\ k = 1 THEN "sent" ELSE ack[x][y][k]
    <3>1. ack' = [ack EXCEPT ![t][r][1] = "sent"] /\ 1 \in Attempts /\ "sent" \in Acks
      BY <1>5 DEF ReceiveAnswer, Attempts, Acks
    <3>2. ack \in [Turns -> [Revs -> [Attempts -> Acks]]]
      BY DEF Inv, TypeOK
    <3> QED
      BY <3>1, <3>2 DEF Attempts
  <2>4. UNCHANGED <<run, answer, effects, storeVars>>
    BY <1>5 DEF ReceiveAnswer
  <2>5. pending' = [pending EXCEPT ![PageOf[t]] = NoSend] /\ phase[t][r] # "waiting"
    BY <1>5 DEF ReceiveAnswer, WindowAfterAnswer
  <2>6. \A x \in Turns, y \in Revs :
          tries'[x][y] = IF x = t /\ y = r THEN 1 ELSE tries[x][y]
    <3>1. tries' = [tries EXCEPT ![t][r] = 1] /\ 1 \in 0..2
      BY <1>5 DEF ReceiveAnswer
    <3>2. tries \in [Turns -> [Revs -> 0..2]]
      BY DEF Inv, TypeOK
    <3> QED
      BY ONLY <3>1, <3>2, Set2, t \in Turns, r \in Revs
  <2>7. \A x \in Turns, y \in Revs, k \in Attempts :
          \/ ack'[x][y][k] = ack[x][y][k]
          \/ ack'[x][y][k] = "sent" /\ x = t /\ y = r
    BY <2>3
  <2>8. tries'[t][r] \in Attempts
    BY <2>6 DEF Attempts
  <2>9. OwnAttempts(t, r, "accepting")
    BY <2>6, <2>7 DEF OwnAttempts
  <2> QED
    BY <2>1, <2>2, <2>4, <2>5, <2>8, <2>9, MoveInv
<1>6. ASSUME NEW t \in Turns, NEW r \in Revs, ReceiveError(t, r)
      PROVE  Inv'
  <2>1. Moves(t, r, "failed")
    BY <1>6 DEF ReceiveError, Moves
  <2> QED
    BY <1>6, <2>1, MoveInv DEF ReceiveError, brainVars, OwnAttempts
<1>7. ASSUME NEW t \in Turns, NEW r \in Revs, Confirmed(t, r)
      PROVE  Inv'
  <2>1. Moves(t, r, "confirmed") /\ phase[t][r] = "accepting"
    BY <1>7 DEF Confirmed, Settle, Moves
  <2>2. \E k \in Attempts : ack[t][r][k] = "ok"
    <3>1. tries[t][r] \in 0..2 /\ ack[t][r][tries[t][r]] = "ok"
      BY <1>7 DEF Confirmed, Inv, TypeOK
    <3>2. tries[t][r] # 0
      BY <1>7 DEF Confirmed, Inv, AttemptUnderWay, Attempts
    <3> QED
      BY <3>1, <3>2 DEF Attempts
  <2> QED
    BY <1>7, <2>1, <2>2, MoveInv DEF Confirmed, Settle, brainVars, OwnAttempts
<1>8. ASSUME NEW t \in Turns, NEW r \in Revs, Refused(t, r) \/ GiveUpAccept(t, r)
      PROVE  Inv'
  <2>1. Settle(t, r, "failed") /\ phase[t][r] = "accepting"
    BY <1>8 DEF Refused, GiveUpAccept
  <2>2. Moves(t, r, "failed")
    BY <2>1 DEF Settle, Moves
  <2> QED
    BY <2>1, <2>2, MoveInv DEF Settle, brainVars, OwnAttempts
<1>9. ASSUME NEW t \in Turns, NEW r \in Revs, RetryAccept(t, r)
      PROVE  Inv'
  <2>1. phase' = phase /\ phase[t][r] = "accepting" /\ pending' = pending
    BY <1>9 DEF RetryAccept
  <2>2. phase' = [phase EXCEPT ![t][r] = "accepting"]
    BY <2>1 DEF Inv, TypeOK
  <2>3. Moves(t, r, "accepting")
    BY <2>1, <2>2 DEF Moves
  <2>4. run[t][r] = "staged"
    BY <2>1 DEF Inv, AcksAreClosed
  <2>5. tries[t][r] + 1 \in Attempts
    <3>1. tries[t][r] \in 0..2
      BY DEF Inv, TypeOK
    <3>2. tries[t][r] < 2
      BY <1>9 DEF RetryAccept, MayRetry
    <3> QED
      BY <3>1, <3>2 DEF Attempts
  <2>6. \A x \in Turns, y \in Revs, k \in Attempts :
          \/ ack'[x][y][k] = ack[x][y][k]
          \/ ack'[x][y][k] = "sent" /\ x = t /\ y = r
    <3>1. "sent" \in Acks
      BY DEF Acks
    <3>2. SetAck(t, r, tries[t][r] + 1, "sent")
      BY <1>9 DEF RetryAccept, SetAck
    <3> QED
      BY <2>5, <3>1, <3>2, AckUpdate
  <2>7. UNCHANGED <<run, answer, effects, storeVars>>
    BY <1>9 DEF RetryAccept
  <2>8. \A x \in Turns, y \in Revs :
          tries'[x][y] = IF x = t /\ y = r THEN tries[t][r] + 1 ELSE tries[x][y]
    <3>1. tries \in [Turns -> [Revs -> 0..2]] /\ tries[t][r] + 1 \in 0..2
      BY <2>5 DEF Inv, TypeOK, Attempts
    <3>2. tries' = [tries EXCEPT ![t][r] = tries[t][r] + 1]
      BY <1>9 DEF RetryAccept
    <3> QED
      BY <3>1, <3>2, Set2
  <2>9. tries'[t][r] \in Attempts
    BY <2>5, <2>8
  <2>10. OwnAttempts(t, r, "accepting")
    BY <2>6, <2>8 DEF OwnAttempts
  <2> QED
    BY <2>1, <2>3, <2>4, <2>7, <2>9, <2>10, MoveInv
<1> QED
  BY <1>1, <1>2, <1>3, <1>4, <1>5, <1>6, <1>7, <1>8, <1>9 DEF PageStep

-----------------------------------------------------------------------------
(* The handlers' steps preserve Inv.                                       *)

(* Every receipt is left, deleted, or now says that (t, r) is under way.   *)
ReceiptsFollow(t, r) ==
  \A u \in Turns :
    \/ receipt'[u] = receipt[u]
    \/ receipt'[u].revision = 0 /\ ~receipt'[u].staged /\ ~receipt'[u].accepted
    \/ /\ u = t
       /\ receipt'[u].revision = r
       /\ receipt'[u].accepted => receipt[u].accepted
       /\ receipt'[u].staged => run'[t][r] = "staged"

(* A step of the handler of /chat for (t, r) before it is over. *)
LEMMA RunInv ==
  ASSUME Inv, TypeOK', NEW t \in Turns, NEW r \in Revs,
         UNCHANGED <<pageVars, ack, effects, record, erased>>,
         run[t][r] \notin {"none", "staged"},
         \A x \in Turns, y \in Revs : ~(x = t /\ y = r) => run'[x][y] = run[x][y],
         AnswersAreStaged', ReceiptsFollow(t, r)
  PROVE  Inv'
<1>1. UNCHANGED <<phase, pending, accepting, tries>>
  BY DEF pageVars
<1>2. \A x \in Turns, y \in Revs : run[x][y] \in {"none", "staged"} => run'[x][y] = run[x][y]
  OBVIOUS
<1>3. \A u \in Turns : WasRecorded(u)' <=> WasRecorded(u)
  BY DEF WasRecorded, TurnsIn
<1>4. RevisionsInOrder' /\ PendingIsOpen' /\ AttemptUnderWay' /\ RecordedOnce'
  BY <1>1 DEF Inv, RevisionsInOrder, PendingIsOpen, AttemptUnderWay, RecordedOnce, TurnsIn
<1>5. RunsWereAsked' /\ AcksAreClosed'
  BY <1>1, <1>2 DEF Inv, RunsWereAsked, AcksAreClosed
<1>6. RecordedAreClosed'
  <2>1. \A i \in DOMAIN record : record[i][1] \in Turns /\ record[i][2] \in Revs
    BY ElementOfSeq, LenProperties DEF Inv, TypeOK, Sends
  <2>2. erased \subseteq Turns
    BY DEF Inv, TypeOK
  <2> QED
    BY <1>1, <1>2, <2>1, <2>2 DEF Inv, RecordedAreClosed
<1>7. ReceiptsAreStaged'
  BY <1>2 DEF Inv, ReceiptsAreStaged, ReceiptsFollow
<1>8. CommitsAreRecorded' /\ EffectsFollowCommits'
  <2>1. \A u \in Turns : receipt'[u].accepted => receipt[u].accepted
    BY DEF ReceiptsFollow
  <2> QED
    BY <1>1, <1>3, <2>1 DEF Inv, CommitsAreRecorded, EffectsFollowCommits
<1>9. NoSecondCommit'
  <2> SUFFICES ASSUME NEW u \in Turns, NEW y \in Revs, WasRecorded(u),
                      phase[u][y] \notin Past, receipt'[u].revision = y
               PROVE  receipt'[u].accepted
    BY <1>1, <1>3 DEF NoSecondCommit
  <2>1. CASE receipt'[u] = receipt[u]
    BY <2>1 DEF Inv, NoSecondCommit
  <2>2. CASE receipt'[u].revision = 0
    BY <2>2 DEF Revs
  <2>3. CASE u = t /\ y = r
    <3>1. PICK q \in Revs : phase[t][q] \in Closed /\ run[t][q] = "staged"
      BY <2>3, RecordedRevision
    <3>2. q = y
      BY <2>3, <3>1, OnlyLastIsOpen DEF Closed, Past
    <3> QED
      BY <2>3, <3>1, <3>2
  <2> QED
    BY <2>1, <2>2, <2>3 DEF ReceiptsFollow
<1> QED
  BY <1>4, <1>5, <1>6, <1>7, <1>8, <1>9 DEF Inv

(* What the tables of the handlers hold after an update of one entry. *)
LEMMA TableUpdates ==
  ASSUME Inv, NEW t \in Turns, NEW r \in Revs
  PROVE  /\ \A v \in Runs : run' = [run EXCEPT ![t][r] = v] =>
              \A x \in Turns, y \in Revs :
                run'[x][y] = IF x = t /\ y = r THEN v ELSE run[x][y]
         /\ \A v \in Answers : answer' = [answer EXCEPT ![t][r] = v] =>
              \A x \in Turns, y \in Revs :
                answer'[x][y] = IF x = t /\ y = r THEN v ELSE answer[x][y]
<1>1. /\ run \in [Turns -> [Revs -> Runs]]
      /\ answer \in [Turns -> [Revs -> Answers]]
  BY DEF Inv, TypeOK
<1>2. \A v \in Runs : run' = [run EXCEPT ![t][r] = v] =>
        \A x \in Turns, y \in Revs :
          run'[x][y] = IF x = t /\ y = r THEN v ELSE run[x][y]
  BY <1>1, Set2
<1>3. \A v \in Answers : answer' = [answer EXCEPT ![t][r] = v] =>
        \A x \in Turns, y \in Revs :
          answer'[x][y] = IF x = t /\ y = r THEN v ELSE answer[x][y]
  BY <1>1, Set2
<1> QED
  BY <1>2, <1>3

LEMMA RegisterTurnInv ==
  ASSUME Inv, TypeOK', NEW t \in Turns, NEW r \in Revs, RegisterTurn(t, r)
  PROVE  Inv'
<1>1. run[t][r] = "sent" /\ UNCHANGED <<pageVars, ack, effects, record, erased>>
  BY DEF RegisterTurn
<1>2. \E v \in {"registered", "over"} : run' = [run EXCEPT ![t][r] = v]
  BY DEF RegisterTurn
<1>3. \A x \in Turns, y \in Revs : ~(x = t /\ y = r) => run'[x][y] = run[x][y]
  BY <1>2, TableUpdates DEF Runs
<1>4. AnswersAreStaged'
  <2>1. answer' = answer \/ answer' = [answer EXCEPT ![t][r] = "error"]
    BY DEF RegisterTurn
  <2>2. \A x \in Turns, y \in Revs : answer'[x][y] = "done" => answer[x][y] = "done"
    BY <2>1, TableUpdates DEF Answers
  <2> QED
    BY <1>1, <1>3, <2>2 DEF Inv, AnswersAreStaged
<1>5. ReceiptsFollow(t, r)
  <2>1. ASSUME NEW u \in Turns
        PROVE  \/ receipt'[u] \in {receipt[u], NoRow}
               \/ u = t /\ receipt'[u] = [revision |-> r, staged |-> FALSE,
                                         accepted |-> receipt[u].accepted]
    BY <2>1 DEF RegisterTurn
  <2>2. NoRow.revision = 0 /\ ~NoRow.staged /\ ~NoRow.accepted
    BY DEF NoRow
  <2>3. ASSUME NEW u \in Turns
        PROVE  \/ receipt'[u] = receipt[u]
               \/ receipt'[u].revision = 0 /\ ~receipt'[u].staged /\ ~receipt'[u].accepted
               \/ /\ u = t
                  /\ receipt'[u].revision = r
                  /\ receipt'[u].accepted => receipt[u].accepted
                  /\ receipt'[u].staged => run'[t][r] = "staged"
    <3>1. CASE receipt'[u] \in {receipt[u], NoRow}
      BY ONLY <2>2, <3>1
    <3>2. CASE u = t /\ receipt'[u] = [revision |-> r, staged |-> FALSE,
                                       accepted |-> receipt[u].accepted]
      BY ONLY <3>2
    <3> QED
      BY <2>1, <3>1, <3>2
  <2> QED
    BY <2>3 DEF ReceiptsFollow
<1> QED
  BY <1>1, <1>3, <1>4, <1>5, RunInv

(* The other steps of the handler touch its own run, answer and receipt.   *)
LEMMA HandlerInv ==
  ASSUME Inv, TypeOK', NEW t \in Turns, NEW r \in Revs,
         \/ Prepare(t, r) \/ PassLastCheck(t, r) \/ CancelRun(t, r)
         \/ RunFails(t, r) \/ Deadline(t, r) \/ StageTurn(t, r)
  PROVE  Inv'
<1>1. run[t][r] \notin {"none", "staged"}
  BY DEF Prepare, PassLastCheck, CancelRun, RunFails, Deadline, StageTurn
<1>2. UNCHANGED <<pageVars, ack, effects, record, erased>>
  BY DEF Prepare, PassLastCheck, CancelRun, RunFails, Deadline, StageTurn, storeVars
<1>3. \/ run' = run
      \/ \E v \in {"prepared", "persisting", "over", "staged"} :
           run' = [run EXCEPT ![t][r] = v]
  BY DEF Prepare, PassLastCheck, CancelRun, RunFails, Deadline, StageTurn
<1>4. \A x \in Turns, y \in Revs : ~(x = t /\ y = r) => run'[x][y] = run[x][y]
  BY <1>3, TableUpdates DEF Runs
<1>5. AnswersAreStaged'
  <2>1. answer[t][r] \in Answers
    BY DEF Inv, TypeOK
  <2>2. \/ answer' = answer
        \/ answer' = [answer EXCEPT ![t][r] = answer[t][r]]
        \/ answer' = [answer EXCEPT ![t][r] = "error"]
        \/ answer' = [answer EXCEPT ![t][r] = "done"] /\ StageTurn(t, r)
           /\ MayStage(receipt[t], r)
    BY DEF Prepare, PassLastCheck, CancelRun, RunFails, Deadline, StageTurn, Answer
  <2>3. \A x \in Turns, y \in Revs : answer'[x][y] = "done" =>
          \/ answer[x][y] = "done"
          \/ x = t /\ y = r /\ StageTurn(t, r) /\ MayStage(receipt[t], r)
    BY <2>1, <2>2, TableUpdates DEF Answers
  <2>4. StageTurn(t, r) /\ MayStage(receipt[t], r) => run'[t][r] = "staged"
    BY TableUpdates DEF StageTurn, Runs
  <2> QED
    BY <1>1, <1>4, <2>3, <2>4 DEF Inv, AnswersAreStaged
<1>6. ReceiptsFollow(t, r)
  <2>1. CASE Prepare(t, r)
    BY <2>1 DEF Prepare, ReceiptsFollow, DropReceipts, NoRow
  <2>2. CASE StageTurn(t, r)
    <3>1. MayStage(receipt[t], r) => run'[t][r] = "staged"
      BY <2>2, TableUpdates DEF StageTurn, Runs
    <3> QED
      BY <2>2, <3>1 DEF StageTurn, ReceiptsFollow, MayStage, Inv, TypeOK, Receipts
  <2>3. CASE \/ PassLastCheck(t, r) \/ CancelRun(t, r)
             \/ RunFails(t, r) \/ Deadline(t, r)
    BY <2>3 DEF PassLastCheck, CancelRun, RunFails, Deadline, ReceiptsFollow, storeVars
  <2> QED
    BY <2>1, <2>2, <2>3
<1> QED
  BY <1>1, <1>2, <1>4, <1>5, <1>6, RunInv

(* A step of a handler of /chat/accept that does not write the record. *)
LEMMA AckInv ==
  ASSUME Inv, TypeOK', NEW t \in Turns, NEW r \in Revs, NEW k \in Attempts,
         NEW v \in {"stale", "ok", "failed"},
         ack' = [ack EXCEPT ![t][r][k] = v],
         ack[t][r][k] # "none",
         v = "stale" \/ WasRecorded(t),
         UNCHANGED <<pageVars, run, answer, storeVars>>,
         \/ effects' = effects
         \/ ack[t][r][k] = "committed" /\ effects' = [effects EXCEPT ![t] = @ + 1]
  PROVE  Inv'
<1>1. UNCHANGED <<phase, pending, accepting, tries, receipt, record, erased>>
  BY DEF pageVars, storeVars
<1>2. \A x \in Turns, y \in Revs, j \in Attempts :
        ack'[x][y][j] = IF x = t /\ y = r /\ j = k THEN v ELSE ack[x][y][j]
  <2>1. v \in Acks /\ SetAck(t, r, k, v)
    BY DEF Acks, SetAck
  <2> HIDE DEF Attempts
  <2> QED
    BY <2>1, AckUpdate
<1>3. \A u \in Turns : WasRecorded(u)' <=> WasRecorded(u)
  BY <1>1 DEF WasRecorded, TurnsIn
<1> HIDE DEF Attempts
<1>4. /\ RevisionsInOrder' /\ PendingIsOpen' /\ AttemptUnderWay' /\ RecordedOnce'
      /\ RunsWereAsked' /\ AnswersAreStaged' /\ ReceiptsAreStaged' /\ RecordedAreClosed'
  BY <1>1 DEF Inv, RevisionsInOrder, PendingIsOpen, AttemptUnderWay, RecordedOnce, TurnsIn,
              RunsWereAsked, AnswersAreStaged, ReceiptsAreStaged, RecordedAreClosed
<1>5. AcksAreClosed'
  BY <1>1, <1>2 DEF Inv, AcksAreClosed
<1>6. NoSecondCommit'
  BY <1>1, <1>3 DEF Inv, NoSecondCommit
<1>7. CommitsAreRecorded'
  <2>1. \A u \in Turns :
          /\ receipt'[u].accepted => WasRecorded(u)
          /\ \A y \in Revs : phase'[u][y] = "confirmed" => WasRecorded(u)
    BY <1>1 DEF Inv, CommitsAreRecorded
  <2>2. \A u \in Turns, y \in Revs, j \in Attempts :
          ack'[u][y][j] \in {"committed", "ok", "failed"} => WasRecorded(u)
    BY <1>2 DEF Inv, CommitsAreRecorded
  <2> QED
    BY <1>3, <2>1, <2>2 DEF CommitsAreRecorded
<1>8. EffectsFollowCommits'
  <2>1. \A u \in Turns, y \in Revs, j \in Attempts :
          ack'[u][y][j] = "committed" => ack[u][y][j] = "committed"
                                         /\ ~(u = t /\ y = r /\ j = k)
    BY <1>2
  <2>2. \A u \in Turns :
          /\ effects[u] <= 1
          /\ ~WasRecorded(u) => effects[u] = 0
          /\ \A y \in Revs, j \in Attempts : ack[u][y][j] = "committed" =>
               /\ effects[u] = 0
               /\ \A s \in Revs, i \in Attempts :
                    ack[u][s][i] = "committed" => s = y /\ i = j
    BY DEF Inv, EffectsFollowCommits
  <2>3. CASE effects' = effects
    BY <1>3, <2>1, <2>2, <2>3 DEF EffectsFollowCommits
  <2>4. CASE ack[t][r][k] = "committed" /\ effects' = [effects EXCEPT ![t] = @ + 1]
    <3>1. effects[t] = 0 /\ WasRecorded(t)
      BY <2>2, <2>4 DEF Inv, CommitsAreRecorded
    <3>2. \A u \in Turns : effects'[u] = IF u = t THEN 1 ELSE effects[u]
      BY <2>4, <3>1 DEF Inv, TypeOK
    <3>3. \A y \in Revs, j \in Attempts : ack'[t][y][j] # "committed"
      BY <2>1, <2>2, <2>4
    <3> QED
      BY <1>3, <2>1, <2>2, <3>1, <3>2, <3>3 DEF EffectsFollowCommits
  <2> QED
    BY <2>3, <2>4
<1> QED
  BY <1>4, <1>5, <1>6, <1>7, <1>8 DEF Inv

(* The write itself: the turn was not recorded before. *)
LEMMA CommitInv ==
  ASSUME Inv, TypeOK', NEW t \in Turns, NEW r \in Revs, NEW k \in Attempts,
         ack[t][r][k] = "sent", MayAccept(receipt[t], r), ~IsRepeat(receipt[t]),
         CommitTurn(t), ack' = [ack EXCEPT ![t][r][k] = "committed"],
         UNCHANGED <<pageVars, run, answer, ctx, effects>>
  PROVE  Inv' /\ ~WasRecorded(t)
<1>1. UNCHANGED <<phase, pending, accepting, tries, run, answer, effects, erased>>
  BY DEF pageVars, CommitTurn
<1>2. \A x \in Turns, y \in Revs, j \in Attempts :
        ack'[x][y][j] = IF x = t /\ y = r /\ j = k THEN "committed" ELSE ack[x][y][j]
  <2>1. "committed" \in Acks /\ SetAck(t, r, k, "committed")
    BY DEF Acks, SetAck
  <2> HIDE DEF Attempts
  <2> QED
    BY <2>1, AckUpdate
<1> HIDE DEF Attempts
<1>3. phase[t][r] \in Closed /\ run[t][r] = "staged"
  BY DEF Inv, AcksAreClosed, ReceiptsAreStaged, MayAccept
<1>4. ~WasRecorded(t)
  BY <1>3 DEF Inv, NoSecondCommit, MayAccept, IsRepeat, Closed, Past
<1>5. record' = Append(record, <<t, r>>) /\ record \in Seq(Sends)
  BY DEF CommitTurn, MayAccept, Inv, TypeOK
<1>6. /\ DOMAIN record = 1..Len(record) /\ DOMAIN record' = 1..(Len(record) + 1)
      /\ Len(record) \in Nat
      /\ \A i \in DOMAIN record : record'[i] = record[i]
      /\ record'[Len(record) + 1] = <<t, r>>
  BY <1>5, LenProperties, AppendProperties DEF Sends
<1>7. TurnsIn(record') = TurnsIn(record) \cup {t}
  BY <1>6 DEF TurnsIn
<1>8. \A u \in Turns : WasRecorded(u)' <=> WasRecorded(u) \/ u = t
  BY <1>1, <1>7 DEF WasRecorded
<1>9. RecordedOnce'
  <2>1. \A i \in DOMAIN record : record[i][1] # t
    BY <1>4 DEF WasRecorded, TurnsIn
  <2>2. TurnsIn(record') \cap erased' = {}
    BY <1>1, <1>4, <1>7 DEF Inv, RecordedOnce, WasRecorded
  <2>3. \A i, j \in DOMAIN record' : record'[i][1] = record'[j][1] => i = j
    BY <1>6, <2>1 DEF Inv, RecordedOnce
  <2> QED
    BY <2>2, <2>3 DEF RecordedOnce
<1>10. RecordedAreClosed'
  BY <1>1, <1>3, <1>6 DEF Inv, RecordedAreClosed
<1>11. \A u \in Turns : /\ receipt'[u].revision = receipt[u].revision
                        /\ receipt'[u].staged = receipt[u].staged
                        /\ receipt'[u].accepted = (receipt[u].accepted \/ u = t)
  <2>1. receipt' = [receipt EXCEPT ![t].accepted = TRUE]
    BY DEF CommitTurn
  <2>2. \A u \in Turns : receipt[u] \in Receipts
    BY DEF Inv, TypeOK
  <2>3. receipt'[t] = [receipt[t] EXCEPT !.accepted = TRUE]
    BY <2>1 DEF Inv, TypeOK
  <2>4. \A u \in Turns : u # t => receipt'[u] = receipt[u]
    BY <2>1 DEF Inv, TypeOK
  <2>5. /\ receipt'[t].revision = receipt[t].revision
        /\ receipt'[t].staged = receipt[t].staged
        /\ receipt'[t].accepted
    BY <2>2, <2>3 DEF Receipts
  <2>6. receipt'[t].accepted = TRUE
    BY <2>2, <2>3 DEF Receipts
  <2>7. \A u \in Turns : receipt[u].accepted \in BOOLEAN
    BY <2>2 DEF Receipts
  <2> QED
    BY <2>4, <2>5, <2>6, <2>7
<1>12. /\ RevisionsInOrder' /\ PendingIsOpen' /\ AttemptUnderWay'
       /\ RunsWereAsked' /\ AnswersAreStaged'
  BY <1>1 DEF Inv, RevisionsInOrder, PendingIsOpen, AttemptUnderWay, RunsWereAsked,
              AnswersAreStaged
<1>13. ReceiptsAreStaged' /\ NoSecondCommit'
  BY <1>1, <1>8, <1>11 DEF Inv, ReceiptsAreStaged, NoSecondCommit
<1>14. AcksAreClosed'
  BY <1>1, <1>2, <1>3 DEF Inv, AcksAreClosed
<1>15. CommitsAreRecorded'
  <2>1. \A u \in Turns, y \in Revs : phase'[u][y] = "confirmed" => WasRecorded(u)'
    BY <1>1, <1>8 DEF Inv, CommitsAreRecorded
  <2>2. \A u \in Turns, y \in Revs, j \in Attempts :
          ack'[u][y][j] \in {"committed", "ok", "failed"} => WasRecorded(u)'
    BY <1>2, <1>8 DEF Inv, CommitsAreRecorded
  <2>3. \A u \in Turns : receipt'[u].accepted => WasRecorded(u)'
    BY <1>8, <1>11 DEF Inv, CommitsAreRecorded
  <2> QED
    BY <2>1, <2>2, <2>3 DEF CommitsAreRecorded
<1>16. EffectsFollowCommits'
  <2>1. \A y \in Revs, j \in Attempts : ack[t][y][j] # "committed"
    BY <1>4 DEF Inv, CommitsAreRecorded
  <2>2. effects[t] = 0
    BY <1>4 DEF Inv, EffectsFollowCommits
  <2> QED
    BY <1>1, <1>2, <1>8, <2>1, <2>2 DEF Inv, EffectsFollowCommits
<1> QED
  BY <1>4, <1>9, <1>10, <1>12, <1>13, <1>14, <1>15, <1>16 DEF Inv

LEMMA BrainInv ==
  ASSUME Inv, TypeOK', BrainStep
  PROVE  Inv'
<1>1. PICK t \in Turns, r \in Revs :
        \/ RegisterTurn(t, r) \/ Prepare(t, r) \/ PassLastCheck(t, r)
        \/ CancelRun(t, r) \/ RunFails(t, r) \/ Deadline(t, r) \/ StageTurn(t, r)
        \/ \E k \in Attempts :
             AcceptTurn(t, r, k) \/ FinishAccept(t, r, k) \/ AcceptFails(t, r, k)
  BY DEF BrainStep
<1> HIDE DEF Attempts
<1>2. ASSUME NEW k \in Attempts, AcceptTurn(t, r, k)
      PROVE  Inv'
  <2>1. CASE ack' = [ack EXCEPT ![t][r][k] = "stale"] /\ UNCHANGED storeVars
    BY <1>2, <2>1, AckInv DEF AcceptTurn
  <2>2. CASE ack' = [ack EXCEPT ![t][r][k] = "ok"] /\ UNCHANGED storeVars
             /\ IsRepeat(receipt[t])
    <3>1. WasRecorded(t)
      BY <2>2 DEF Inv, CommitsAreRecorded, IsRepeat
    <3> QED
      BY <1>2, <2>2, <3>1, AckInv DEF AcceptTurn
  <2>3. CASE /\ MayAccept(receipt[t], r) /\ ~IsRepeat(receipt[t])
             /\ ack' = [ack EXCEPT ![t][r][k] = "committed"]
             /\ CommitTurn(t)
    BY <1>2, <2>3, CommitInv DEF AcceptTurn
  <2> QED
    BY <1>2, <2>1, <2>2, <2>3 DEF AcceptTurn
<1>3. ASSUME NEW k \in Attempts, FinishAccept(t, r, k) \/ AcceptFails(t, r, k)
      PROVE  Inv'
  <2>1. ack[t][r][k] = "committed" /\ WasRecorded(t)
    BY <1>3 DEF FinishAccept, AcceptFails, Inv, CommitsAreRecorded
  <2>2. CASE FinishAccept(t, r, k)
    BY <2>1, <2>2, AckInv DEF FinishAccept
  <2>3. CASE AcceptFails(t, r, k)
    BY <2>1, <2>3, AckInv DEF AcceptFails
  <2> QED
    BY <1>3, <2>2, <2>3
<1> QED
  BY <1>1, <1>2, <1>3, RegisterTurnInv, HandlerInv

-----------------------------------------------------------------------------
(* Time, pruning and deletion preserve Inv.                                *)

LEMMA SessionInv ==
  ASSUME Inv, TypeOK', SessionStep
  PROVE  Inv'
<1>1. UNCHANGED <<phase, pending, accepting, tries, run, answer, ack, effects>>
  BY DEF SessionStep, TimePasses, PruneSession, DeleteSession, pageVars, brainVars
<1>2. /\ \/ record' = record /\ erased' = erased
         \/ record' = <<>> /\ erased' = erased \cup TurnsIn(record)
      /\ \A u \in Turns :
           \/ receipt'[u] = receipt[u]
           \/ receipt'[u].revision = 0 /\ ~receipt'[u].staged /\ ~receipt'[u].accepted
  BY DEF SessionStep, TimePasses, PruneSession, DeleteSession, DropReceipts, NoRow,
         RecordAfterPrune
<1>3. record' = <<>> => TurnsIn(record') = {}
  BY DEF TurnsIn
<1>4. \A u \in Turns : WasRecorded(u)' <=> WasRecorded(u)
  BY <1>2, <1>3 DEF WasRecorded
<1>5. /\ RevisionsInOrder' /\ PendingIsOpen' /\ AttemptUnderWay' /\ RunsWereAsked'
      /\ AnswersAreStaged' /\ AcksAreClosed'
  BY <1>1 DEF Inv, RevisionsInOrder, PendingIsOpen, AttemptUnderWay, RunsWereAsked,
              AnswersAreStaged, AcksAreClosed
<1>6. ReceiptsAreStaged'
  BY <1>1, <1>2 DEF Inv, ReceiptsAreStaged
<1>7. NoSecondCommit'
  BY <1>1, <1>2, <1>4 DEF Inv, NoSecondCommit, Revs
<1>8. CommitsAreRecorded' /\ EffectsFollowCommits'
  BY <1>1, <1>2, <1>4 DEF Inv, CommitsAreRecorded, EffectsFollowCommits
<1>9. RecordedAreClosed'
  <2>1. \A u \in Turns : u \in erased' =>
          \E r \in Revs : phase[u][r] \in Closed /\ run[u][r] = "staged"
    BY <1>2, RecordedRevision DEF WasRecorded
  <2>2. erased' \subseteq Turns
    BY DEF TypeOK
  <2>3. \A i \in DOMAIN record' : i \in DOMAIN record /\ record'[i] = record[i]
    BY <1>2
  <2> QED
    BY <1>1, <2>1, <2>2, <2>3 DEF Inv, RecordedAreClosed
<1>10. RecordedOnce'
  BY <1>2, <1>3 DEF Inv, RecordedOnce, TurnsIn
<1> QED
  BY <1>5, <1>6, <1>7, <1>8, <1>9, <1>10 DEF Inv

-----------------------------------------------------------------------------
(* The theorems.                                                           *)

LEMMA InvInit == Init => Inv
<1> SUFFICES ASSUME Init PROVE Inv
  OBVIOUS
<1>1. TypeOK
  BY BoundsAssumption, EmptySeq
     DEF Init, TypeOK, Phases, Runs, Answers, Acks, NoRow, Receipts
<1>2. record = <<>> /\ erased = {} /\ TurnsIn(record) = {}
  BY DEF Init, TurnsIn
<1>3. RevisionsInOrder /\ PendingIsOpen /\ RunsWereAsked /\ AnswersAreStaged
  BY DEF Init, RevisionsInOrder, PendingIsOpen, RunsWereAsked, AnswersAreStaged, Past
<1>4. ReceiptsAreStaged /\ AcksAreClosed /\ AttemptUnderWay /\ RecordedAreClosed
  BY <1>2 DEF Init, ReceiptsAreStaged, AcksAreClosed, AttemptUnderWay,
              RecordedAreClosed, NoRow
<1>5. CommitsAreRecorded /\ NoSecondCommit /\ EffectsFollowCommits /\ RecordedOnce
  BY <1>2 DEF Init, CommitsAreRecorded, NoSecondCommit, EffectsFollowCommits,
              RecordedOnce, WasRecorded, NoRow
<1> QED
  BY <1>1, <1>3, <1>4, <1>5 DEF Inv

LEMMA InvNext == Inv /\ [Next]_vars => Inv'
<1> SUFFICES ASSUME Inv, [Next]_vars PROVE Inv'
  OBVIOUS
<1>1. CASE UNCHANGED vars
  BY <1>1 DEF vars, pageVars, brainVars, storeVars, Inv, TypeOK, RevisionsInOrder,
       PendingIsOpen, RunsWereAsked, AnswersAreStaged, ReceiptsAreStaged,
       AcksAreClosed, AttemptUnderWay, RecordedAreClosed, CommitsAreRecorded,
       NoSecondCommit, EffectsFollowCommits, RecordedOnce, WasRecorded, TurnsIn
<1>2. CASE PageStep
  <2>1. TypeOK'
    BY <1>2, PageTypes DEF Inv
  <2> QED
    BY <1>2, <2>1, PageInv
<1>3. CASE BrainStep
  <2>1. TypeOK'
    BY <1>3, BrainTypes DEF Inv
  <2> QED
    BY <1>3, <2>1, BrainInv
<1>4. CASE SessionStep
  <2>1. TypeOK'
    BY <1>4, SessionTypes DEF Inv
  <2> QED
    BY <1>4, <2>1, SessionInv
<1> QED
  BY <1>1, <1>2, <1>3, <1>4 DEF Next

(* The invariant holds in every reachable state. *)
THEOREM Invariance == Spec => []Inv
BY InvInit, InvNext, PTL DEF Spec

(* A turn is written to the record at most once. *)
THEOREM NeverTwice == Spec => []RecordedOnce
<1>1. Inv => RecordedOnce
  BY DEF Inv
<1> QED
  BY <1>1, Invariance, PTL

(* The record holds the answer to the last version of each question. *)
THEOREM LatestVersion == Spec => []RecordedIsLatest
<1>1. Inv => RecordedIsLatest
  <2> SUFFICES ASSUME Inv, NEW i \in DOMAIN record, NEW s \in Revs, s > record[i][2]
               PROVE  phase[record[i][1]][s] = "none"
    BY DEF RecordedIsLatest
  <2>1. record[i][1] \in Turns /\ record[i][2] \in Revs
    BY ElementOfSeq, LenProperties DEF Inv, TypeOK, Sends
  <2>2. phase[record[i][1]][record[i][2]] \notin Past
    BY DEF Inv, RecordedAreClosed, Closed, Past
  <2> QED
    BY <2>1, <2>2 DEF Inv, RevisionsInOrder
<1> QED
  BY <1>1, Invariance, PTL

(* A confirmation is never given for a turn the record lacks. *)
THEOREM Durability == Spec => []ConfirmedIsRecorded
<1>1. Inv => ConfirmedIsRecorded
  BY DEF Inv, CommitsAreRecorded, ConfirmedIsRecorded, IsConfirmed, InRecord, WasRecorded
<1> QED
  BY <1>1, Invariance, PTL

(* Journal and memory are written once at most, for recorded turns only. *)
THEOREM SingleEffects == Spec => []EffectsOnce
<1>1. Inv => EffectsOnce
  BY DEF Inv, EffectsFollowCommits, EffectsOnce, InRecord, WasRecorded
<1> QED
  BY <1>1, Invariance, PTL

-----------------------------------------------------------------------------
(* Refinement of TurnLedger.                                               *)

(* Only Confirmed adds a page that was told, and of a recorded turn. *)
LEMMA ToldByPage ==
  ASSUME Inv, PageStep
  PROVE  \/ Told' = Told
         \/ \E t \in Turns : WasRecorded(t) /\ Told' = Told \cup {t}
<1>1. ASSUME \A x \in Turns, y \in Revs :
               phase'[x][y] = "confirmed" <=> phase[x][y] = "confirmed"
      PROVE  Told' = Told
  BY <1>1 DEF Told, IsConfirmed
<1>2. phase \in [Turns -> [Revs -> Phases]]
  BY DEF Inv, TypeOK
<1>3. ASSUME NEW t \in Turns, NEW r \in Revs, NEW v \in Phases,
             phase' = [phase EXCEPT ![t][r] = v],
             v # "confirmed", phase[t][r] # "confirmed"
      PROVE  Told' = Told
  <2>1. \A x \in Turns, y \in Revs :
          phase'[x][y] = IF x = t /\ y = r THEN v ELSE phase[x][y]
    BY <1>2, <1>3, Set2
  <2> QED
    BY <1>1, <1>3, <2>1
<1>4. ASSUME NEW p \in Pages, NEW t \in Turns, SendNew(p, t)
      PROVE  Told' = Told
  <2>1. 1 \in Revs /\ "waiting" \in Phases
    BY BoundsAssumption DEF Revs, Phases
  <2>2. Cancelled(p) \in [Turns -> [Revs -> Phases]]
    BY CancelledType DEF Inv
  <2>3. \A x \in Turns, y \in Revs :
          phase'[x][y] = IF x = t /\ y = 1 THEN "waiting" ELSE Cancelled(p)[x][y]
    BY <1>4, <2>1, <2>2, Set2 DEF SendNew
  <2>4. phase[t][1] = "none"
    BY <1>4 DEF SendNew
  <2> QED
    BY <1>1, <2>3, <2>4, CancelAdvances DEF Closed, Past
<1>5. ASSUME NEW p \in Pages, SendMerged(p)
      PROVE  Told' = Told
  <2>1. PICK t \in Turns, q \in Revs : pending[p] = <<t, q>>
    BY <1>5 DEF Inv, TypeOK, SendMerged, Sends
  <2>2. q + 1 \in Revs /\ q + 1 > q /\ "waiting" \in Phases
    <3>1. pending[p][2] < MaxRev /\ pending[p][2] = q
      BY <1>5, <2>1 DEF SendMerged
    <3> QED
      BY <3>1, BoundsAssumption DEF Revs, Phases
  <2>3. Cancelled(p) \in [Turns -> [Revs -> Phases]]
    BY CancelledType DEF Inv
  <2>4. phase[t][q] \in {"waiting", "asked"}
    <3>1. pending[p] # NoSend
      BY <1>5 DEF SendMerged
    <3> QED
      BY <2>1, <3>1 DEF Inv, PendingIsOpen
  <2>5. phase[t][q + 1] = "none"
    BY <2>2, <2>4 DEF Inv, RevisionsInOrder, Past
  <2>6. phase' = [Cancelled(p) EXCEPT ![t][q + 1] = "waiting"]
    BY <1>5, <2>1 DEF SendMerged
  <2>7. \A x \in Turns, y \in Revs :
          phase'[x][y] = IF x = t /\ y = q + 1 THEN "waiting" ELSE Cancelled(p)[x][y]
    BY <2>2, <2>3, <2>6, Set2
  <2> QED
    BY <1>1, <2>5, <2>7, CancelAdvances DEF Closed, Past
<1>6. ASSUME NEW p \in Pages, Interrupt(p)
      PROVE  Told' = Told
  BY <1>1, <1>6, CancelAdvances DEF Interrupt, Closed, Past
<1>7. ASSUME NEW t \in Turns, NEW r \in Revs,
             \/ Ask(t, r) \/ HearSentence(t, r) \/ ReceiveAnswer(t, r)
             \/ ReceiveError(t, r) \/ Refused(t, r) \/ GiveUpAccept(t, r)
      PROVE  Told' = Told
  <2>1. \E v \in {"asked", "speaking", "accepting", "failed"} :
          phase' = [phase EXCEPT ![t][r] = v]
    BY <1>7 DEF Ask, HearSentence, ReceiveAnswer, ReceiveError, Refused,
                GiveUpAccept, Settle
  <2>2. phase[t][r] # "confirmed"
    BY <1>7 DEF Ask, HearSentence, ReceiveAnswer, ReceiveError, Refused, GiveUpAccept
  <2> QED
    BY <1>3, <2>1, <2>2 DEF Phases
<1>8. ASSUME NEW t \in Turns, NEW r \in Revs, RetryAccept(t, r)
      PROVE  Told' = Told
  BY <1>8 DEF RetryAccept, Told, IsConfirmed
<1>9. ASSUME NEW t \in Turns, NEW r \in Revs, Confirmed(t, r)
      PROVE  WasRecorded(t) /\ Told' = Told \cup {t}
  <2>1. phase' = [phase EXCEPT ![t][r] = "confirmed"] /\ phase[t][r] = "accepting"
    BY <1>9 DEF Confirmed, Settle
  <2>2. \A x \in Turns, y \in Revs :
          phase'[x][y] = IF x = t /\ y = r THEN "confirmed" ELSE phase[x][y]
    BY <1>2, <2>1, Set2 DEF Phases
  <2>3. tries[t][r] \in Attempts /\ ack[t][r][tries[t][r]] = "ok"
    BY <1>9, <2>1 DEF Confirmed, Inv, AttemptUnderWay
  <2>4. WasRecorded(t)
    BY <2>3 DEF Inv, CommitsAreRecorded
  <2> QED
    BY <2>2, <2>4 DEF Told, IsConfirmed
<1> QED
  BY <1>4, <1>5, <1>6, <1>7, <1>8, <1>9 DEF PageStep

LEMMA RecordedTurns ==
  /\ {Recorded[i] : i \in DOMAIN Recorded} = TurnsIn(record)
  /\ DOMAIN Recorded = DOMAIN record
BY DEF Recorded, TurnsIn

(* Every step of the protocol is a step of the ledger, or none. *)
LEMMA LedgerStep ==
  Inv /\ [Next]_vars => [Ledger!Next]_<<Recorded, Told, erased>>
<1> SUFFICES ASSUME Inv, [Next]_vars
             PROVE  [Ledger!Next]_<<Recorded, Told, erased>>
  OBVIOUS
<1>1. ASSUME UNCHANGED <<phase, record, erased>>
      PROVE  UNCHANGED <<Recorded, Told, erased>>
  BY <1>1 DEF Recorded, Told, IsConfirmed
<1>2. CASE UNCHANGED vars
  BY <1>1, <1>2 DEF vars, pageVars, storeVars
<1>3. CASE PageStep
  <2>1. UNCHANGED <<record, erased>>
    <3>1. UNCHANGED storeVars
      <4>1. CASE \E p \in Pages, t \in Turns : SendNew(p, t)
        BY <4>1 DEF SendNew
      <4>2. CASE \E p \in Pages : SendMerged(p) \/ Interrupt(p)
        BY <4>2 DEF SendMerged, Interrupt
      <4>3. CASE \E t \in Turns, r \in Revs :
                   \/ Ask(t, r) \/ HearSentence(t, r)
                   \/ ReceiveAnswer(t, r) \/ ReceiveError(t, r)
        BY <4>3 DEF Ask, HearSentence, ReceiveAnswer, ReceiveError
      <4>4. CASE \E t \in Turns, r \in Revs :
                   \/ Confirmed(t, r) \/ Refused(t, r)
                   \/ RetryAccept(t, r) \/ GiveUpAccept(t, r)
        BY <4>4 DEF Confirmed, Refused, RetryAccept, GiveUpAccept, Settle
      <4> QED
        BY <1>3, <4>1, <4>2, <4>3, <4>4 DEF PageStep
    <3> QED
      BY <3>1 DEF storeVars
  <2>2. UNCHANGED <<Recorded, erased>>
    BY <2>1 DEF Recorded
  <2>3. ASSUME NEW t \in Turns, WasRecorded(t), Told' = Told \cup {t}
        PROVE  Ledger!Next
    BY <2>2, <2>3, RecordedTurns
       DEF Ledger!Next, Ledger!Tell, Ledger!Recorded, WasRecorded
  <2> QED
    BY <1>3, <2>2, <2>3, ToldByPage
<1>4. CASE BrainStep
  <2>1. PICK t \in Turns, r \in Revs :
          \/ RegisterTurn(t, r) \/ Prepare(t, r) \/ PassLastCheck(t, r)
          \/ CancelRun(t, r) \/ RunFails(t, r) \/ Deadline(t, r) \/ StageTurn(t, r)
          \/ \E k \in Attempts :
               AcceptTurn(t, r, k) \/ FinishAccept(t, r, k) \/ AcceptFails(t, r, k)
    BY <1>4 DEF BrainStep
  <2>2. CASE \/ RegisterTurn(t, r) \/ Prepare(t, r) \/ PassLastCheck(t, r)
             \/ CancelRun(t, r) \/ RunFails(t, r) \/ Deadline(t, r) \/ StageTurn(t, r)
    BY <1>1, <2>2 DEF RegisterTurn, Prepare, PassLastCheck, CancelRun, RunFails,
         Deadline, StageTurn, pageVars, storeVars
  <2>3. ASSUME NEW k \in Attempts, FinishAccept(t, r, k) \/ AcceptFails(t, r, k)
        PROVE  UNCHANGED <<Recorded, Told, erased>>
    BY <1>1, <2>3 DEF FinishAccept, AcceptFails, pageVars, storeVars
  <2>4. ASSUME NEW k \in Attempts, AcceptTurn(t, r, k)
        PROVE  [Ledger!Next]_<<Recorded, Told, erased>>
    <3>1. CASE UNCHANGED storeVars
      BY <1>1, <2>4, <3>1 DEF AcceptTurn, pageVars, storeVars
    <3>2. CASE /\ MayAccept(receipt[t], r) /\ ~IsRepeat(receipt[t])
               /\ ack' = [ack EXCEPT ![t][r][k] = "committed"]
               /\ CommitTurn(t)
      <4>1. ~WasRecorded(t)
        <5>1. TypeOK'
          BY <1>4, BrainTypes DEF Inv
        <5> QED
          BY <2>4, <3>2, <5>1, CommitInv DEF AcceptTurn
      <4>2. record' = Append(record, <<t, r>>) /\ record \in Seq(Sends)
        BY <3>2 DEF CommitTurn, MayAccept, Inv, TypeOK
      <4>3. UNCHANGED <<Told, erased>>
        BY <2>4, <3>2 DEF AcceptTurn, CommitTurn, pageVars, Told, IsConfirmed
      <4>4. Recorded \in Seq(Turns) /\ Len(Recorded) = Len(record)
        <5>1. \A i \in 1..Len(record) : record[i] \in Sends
          BY <4>2, ElementOfSeq
        <5>2. Recorded \in [1..Len(record) -> Turns] /\ Len(record) \in Nat
          BY <4>2, <5>1, LenProperties DEF Recorded, Sends
        <5> QED
          BY <5>2, SeqDef, LenProperties
      <4>5. Recorded' = Append(Recorded, t)
        BY <4>2, <4>4, LenProperties, AppendProperties DEF Recorded, Sends
      <4> QED
        BY <4>1, <4>3, <4>5, RecordedTurns
           DEF Ledger!Next, Ledger!Record, Ledger!Recorded, WasRecorded
    <3> QED
      BY <2>4, <3>1, <3>2 DEF AcceptTurn
  <2> QED
    BY <2>1, <2>2, <2>3, <2>4
<1>5. CASE TimePasses \/ PruneSession
  BY <1>1, <1>5 DEF TimePasses, PruneSession, RecordAfterPrune, pageVars
<1>6. CASE DeleteSession
  <2>1. UNCHANGED Told /\ record' = <<>> /\ erased' = erased \cup TurnsIn(record)
    BY <1>6 DEF DeleteSession, pageVars, Told, IsConfirmed
  <2>2. Recorded' = <<>>
    BY <2>1 DEF Recorded
  <2> QED
    BY <2>1, <2>2, RecordedTurns DEF Ledger!Next, Ledger!Erase, Ledger!Recorded
<1> QED
  BY <1>2, <1>3, <1>4, <1>5, <1>6 DEF Next, SessionStep

(* The protocol of pages, handlers and store implements the ledger: a turn *)
(* is recorded in one step, told only afterwards, and removed only by a    *)
(* deletion that it does not survive.                                      *)
THEOREM ImplementsLedger == Spec => LedgerSpec
<1>1. Init => Ledger!Init
  BY DEF Init, Ledger!Init, Recorded, Told, IsConfirmed
<1> QED
  BY <1>1, LedgerStep, Invariance, PTL DEF Spec, LedgerSpec, Ledger!Spec
-----------------------------------------------------------------------------
(* The tables beside the record: StoreInv.                                 *)

(* One sequence is the end of another, element by element. *)
Ends(a, b) ==
  /\ Len(a) <= Len(b)
  /\ \A i \in 1..Len(a) : a[i] = b[Len(b) - Len(a) + i]

LEMMA EndsIsSubSeq ==
  ASSUME NEW S, NEW a \in Seq(S), NEW b \in Seq(S)
  PROVE  Ends(a, b) <=> /\ Len(a) <= Len(b)
                        /\ a = SubSeq(b, Len(b) - Len(a) + 1, Len(b))
<1>1. Len(a) \in Nat /\ Len(b) \in Nat
  BY LenProperties
<1> SUFFICES ASSUME Len(a) <= Len(b)
             PROVE  (\A i \in 1..Len(a) : a[i] = b[Len(b) - Len(a) + i])
                      <=> a = SubSeq(b, Len(b) - Len(a) + 1, Len(b))
  BY DEF Ends
<1> DEFINE m == Len(b) - Len(a) + 1
           c == SubSeq(b, m, Len(b))
<1>2. \A i \in m..Len(b) : b[i] \in S
  BY <1>1, ElementOfSeq
<1>3. c \in Seq(S) /\ Len(c) = Len(a) /\ \A i \in 1..Len(a) : c[i] = b[m + i - 1]
  BY <1>1, <1>2, SubSeqProperties
<1>4. \A i \in 1..Len(a) : c[i] = b[Len(b) - Len(a) + i]
  BY <1>1, <1>3
<1>5. (\A i \in 1..Len(a) : a[i] = c[i]) => a = c
  BY <1>3, SeqEqual
<1> QED
  BY <1>4, <1>5

(* The newest n elements are the end of a sequence, as many as there are. *)
LEMMA NewestEnds ==
  ASSUME NEW S, NEW seq \in Seq(S), NEW n \in Nat
  PROVE  /\ Len(Newest(seq, n)) = IF Len(seq) <= n THEN Len(seq) ELSE n
         /\ Ends(Newest(seq, n), seq)
<1>1. Len(seq) \in Nat
  BY LenProperties
<1>2. CASE Len(seq) <= n
  BY <1>1, <1>2 DEF Newest, Ends
<1>3. CASE ~(Len(seq) <= n)
  <2> DEFINE c == SubSeq(seq, Len(seq) - n + 1, Len(seq))
  <2>1. \A i \in (Len(seq) - n + 1)..Len(seq) : seq[i] \in S
    BY <1>1, <1>3, ElementOfSeq
  <2>2. Len(c) = n /\ \A i \in 1..n : c[i] = seq[Len(seq) - n + 1 + i - 1]
    BY <1>1, <1>3, <2>1, SubSeqProperties
  <2>3. Newest(seq, n) = c
    BY <1>3 DEF Newest
  <2>4. \A i \in 1..n : c[i] = seq[Len(seq) - n + i]
    BY <1>1, <2>2
  <2> HIDE DEF c
  <2>5. Len(c) <= Len(seq) /\ Len(seq) - Len(c) = Len(seq) - n
    BY <1>1, <1>3, <2>2
  <2>6. Ends(c, seq)
    BY <2>2, <2>4, <2>5 DEF Ends
  <2> QED
    BY <1>3, <2>2, <2>3, <2>6
<1> QED
  BY <1>2, <1>3

LEMMA EndsTransitive ==
  ASSUME NEW S, NEW a \in Seq(S), NEW b \in Seq(S), NEW c \in Seq(S),
         Ends(a, b), Ends(b, c)
  PROVE  Ends(a, c)
<1>1. Len(a) \in Nat /\ Len(b) \in Nat /\ Len(c) \in Nat
  BY LenProperties
<1> QED
  BY <1>1 DEF Ends

LEMMA EndsAppended ==
  ASSUME NEW S, NEW a \in Seq(S), NEW b \in Seq(S), NEW e \in S, Ends(a, b)
  PROVE  Ends(Append(a, e), Append(b, e))
<1>1. Len(a) \in Nat /\ Len(b) \in Nat
  BY LenProperties
<1>2. /\ Len(Append(a, e)) = Len(a) + 1 /\ Len(Append(b, e)) = Len(b) + 1
      /\ Append(a, e)[Len(a) + 1] = e /\ Append(b, e)[Len(b) + 1] = e
      /\ \A i \in 1..Len(a) : Append(a, e)[i] = a[i]
      /\ \A i \in 1..Len(b) : Append(b, e)[i] = b[i]
  BY AppendProperties
<1>3. ASSUME NEW i \in 1..(Len(a) + 1)
      PROVE  Append(a, e)[i] = Append(b, e)[Len(b) + 1 - (Len(a) + 1) + i]
  <2>1. CASE i \in 1..Len(a)
    <3>1. Len(b) - Len(a) + i \in 1..Len(b)
      BY <1>1, <2>1 DEF Ends
    <3> QED
      BY <1>1, <1>2, <2>1, <3>1 DEF Ends
  <2>2. CASE i = Len(a) + 1
    <3>1. Len(b) + 1 - (Len(a) + 1) + i = Len(b) + 1
      BY <1>1, <2>2
    <3> QED
      BY <1>2, <2>2, <3>1
  <2>3. i \in 1..Len(a) \/ i = Len(a) + 1
    BY <1>1
  <2> QED
    BY ONLY <2>1, <2>2, <2>3
<1> DEFINE c == Append(a, e)
           d == Append(b, e)
<1> SUFFICES Ends(c, d)
  OBVIOUS
<1>4. Len(c) = Len(a) + 1 /\ Len(d) = Len(b) + 1
  BY <1>2
<1>5. \A i \in 1..(Len(a) + 1) : c[i] = d[Len(b) + 1 - (Len(a) + 1) + i]
  BY <1>3
<1> HIDE DEF c, d
<1> QED
  BY <1>1, <1>4, <1>5 DEF Ends

(* The page's steps leave sessions.db alone. *)
LEMMA PageKeepsStore == PageStep => UNCHANGED storeVars
<1> SUFFICES ASSUME PageStep PROVE UNCHANGED storeVars
  OBVIOUS
<1>1. CASE \E p \in Pages, t \in Turns : SendNew(p, t)
  BY <1>1 DEF SendNew
<1>2. CASE \E p \in Pages : SendMerged(p) \/ Interrupt(p)
  BY <1>2 DEF SendMerged, Interrupt
<1>3. CASE \E t \in Turns, r \in Revs :
             \/ Ask(t, r) \/ HearSentence(t, r)
             \/ ReceiveAnswer(t, r) \/ ReceiveError(t, r)
  BY <1>3 DEF Ask, HearSentence, ReceiveAnswer, ReceiveError
<1>4. CASE \E t \in Turns, r \in Revs :
             \/ Confirmed(t, r) \/ Refused(t, r)
             \/ RetryAccept(t, r) \/ GiveUpAccept(t, r)
  BY <1>4 DEF Confirmed, Refused, RetryAccept, GiveUpAccept, Settle
<1> QED
  BY <1>1, <1>2, <1>3, <1>4 DEF PageStep

(* A receipt that is listed is listed last, and the bound keeps it. *)
LEMMA OrderWithTurn ==
  ASSUME TypeOK, ReceiptsListed, NEW t \in Turns
  PROVE  Len(OrderWith(t)) <= ReceiptKeep /\ t \in Elements(OrderWith(t))
<1>1. order \in Seq(Turns) /\ ReceiptKeep \in Nat \ {0}
  BY BoundsAssumption DEF TypeOK
<1>2. CASE receipt[t].revision # 0
  <2>1. OrderWith(t) = order
    BY <1>2 DEF OrderWith, Newest, ReceiptsListed
  <2> QED
    BY <1>2, <2>1 DEF ReceiptsListed
<1>3. CASE receipt[t].revision = 0
  <2> DEFINE o == Append(order, t)
             n == Newest(o, ReceiptKeep)
  <2>1. OrderWith(t) = n
    BY <1>3 DEF OrderWith
  <2>2. o \in Seq(Turns) /\ Len(o) \in Nat \ {0} /\ o[Len(o)] = t
    BY <1>1, AppendProperties, LenProperties
  <2>3. n \in Seq(Turns)
    BY <1>1, <2>2, NewestType
  <2> HIDE DEF o
  <2>4. Len(n) = (IF Len(o) <= ReceiptKeep THEN Len(o) ELSE ReceiptKeep) /\ Ends(n, o)
    BY <1>1, <2>2, NewestEnds
  <2>5. DOMAIN n = 1..Len(n)
    BY <2>3, LenProperties
  <2> HIDE DEF n
  <2>6. Len(n) \in 1..Len(n) /\ Len(o) - Len(n) + Len(n) = Len(o)
    BY <1>1, <2>2, <2>4
  <2>7. Len(n) \in DOMAIN n /\ n[Len(n)] = t
    BY <2>2, <2>4, <2>5, <2>6 DEF Ends
  <2> QED
    BY <1>1, <2>1, <2>2, <2>4, <2>7 DEF Elements
<1> QED
  BY <1>2, <1>3

(* Which receipts a step may take away, and how it may change the others.  *)
ReceiptsMove ==
  /\ Len(order') <= ReceiptKeep
  /\ lapsed \subseteq lapsed'
  /\ \A u \in Turns :
       \/ receipt'[u].revision = 0 /\ (u \in Elements(order) => u \in lapsed')
       \/ /\ receipt'[u].revision >= receipt[u].revision
          /\ receipt'[u].revision # 0 => u \in Elements(order')

(* The bound removes what it does not list; a new revision is newer. *)
LEMMA RegisterReceipts ==
  ASSUME TypeOK, ReceiptsListed, NEW t \in Turns, NEW r \in Revs,
         RegisterTurn(t, r), Advances(receipt[t], r)
  PROVE  ReceiptsMove /\ receipt'[t].revision = r
<1>1. /\ order' = OrderWith(t)
      /\ lapsed' = lapsed \cup (Elements(order) \ Elements(OrderWith(t)))
      /\ receipt' = [u \in Turns |->
           CASE u = t -> [revision |-> r, staged |-> FALSE,
                          accepted |-> receipt[t].accepted]
             [] u # t /\ u \in Elements(OrderWith(t)) -> receipt[u]
             [] OTHER -> NoRow]
  BY DEF RegisterTurn
<1>2. Len(OrderWith(t)) <= ReceiptKeep /\ t \in Elements(OrderWith(t))
  BY OrderWithTurn
<1>3. receipt'[t].revision = r
  BY <1>1
<1>4. r \in Nat \ {0} /\ \A u \in Turns : receipt[u].revision \in Nat
  BY BoundsAssumption DEF Revs, TypeOK, Receipts
<1>5. receipt'[t].revision >= receipt[t].revision
  BY <1>3, <1>4 DEF Advances
<1>6. ASSUME NEW u \in Turns, u # t, u \in Elements(OrderWith(t))
      PROVE  receipt'[u] = receipt[u]
  BY <1>1, <1>6
<1>7. ASSUME NEW u \in Turns, u # t, u \notin Elements(OrderWith(t))
      PROVE  receipt'[u].revision = 0
  BY <1>1, <1>7 DEF NoRow
<1>8. ASSUME NEW u \in Turns
      PROVE  \/ receipt'[u].revision = 0 /\ (u \in Elements(order) => u \in lapsed')
             \/ /\ receipt'[u].revision >= receipt[u].revision
                /\ receipt'[u].revision # 0 => u \in Elements(order')
  <2>1. CASE u = t
    BY <1>1, <1>2, <1>5, <2>1
  <2>2. CASE u # t /\ u \in Elements(OrderWith(t))
    <3>1. receipt'[u].revision >= receipt[u].revision
      BY <1>4, <1>6, <2>2
    <3> QED
      BY <1>1, <2>2, <3>1
  <2>3. CASE u # t /\ u \notin Elements(OrderWith(t))
    BY <1>1, <1>7, <2>3
  <2> QED
    BY <2>1, <2>2, <2>3
<1> QED
  BY <1>1, <1>2, <1>3, <1>8 DEF ReceiptsMove

(* All receipts of a session go at once. *)
LEMMA DropMoves ==
  ASSUME TypeOK, DropReceipts(Turns), order' = <<>>
  PROVE  ReceiptsMove
<1>1. Len(order') <= ReceiptKeep
  BY EmptySeq, BoundsAssumption
<1>2. lapsed' = lapsed \cup (Turns \cap Elements(order))
  BY DEF DropReceipts
<1>3. \A u \in Turns : receipt'[u].revision = 0
  BY DEF DropReceipts, NoRow
<1> QED
  BY <1>1, <1>2, <1>3 DEF ReceiptsMove

(* Receipts keep their revisions and their list. *)
LEMMA StillMoves ==
  ASSUME TypeOK, ReceiptsListed, UNCHANGED <<order, lapsed>>,
         \A u \in Turns : receipt'[u].revision = receipt[u].revision
  PROVE  ReceiptsMove
<1>1. \A u \in Turns : receipt[u].revision \in Nat
  BY BoundsAssumption DEF TypeOK, Receipts
<1> QED
  BY <1>1 DEF ReceiptsListed, ReceiptsMove

Active == {"registered", "prepared", "persisting", "staged"}

(* Runs become active by registering, which leaves their revision or none. *)
LEMMA ReceiptsInv ==
  ASSUME TypeOK, TypeOK', ReceiptsListed, ReorderedNeverWins, ReceiptsMove,
         \A t \in Turns, r \in Revs : run'[t][r] \in Active =>
           run[t][r] \in Active \/ receipt'[t].revision = r
  PROVE  ReceiptsListed' /\ ReorderedNeverWins'
<1>1. \A u \in Turns : receipt[u].revision \in Nat /\ receipt'[u].revision \in Nat
  BY BoundsAssumption DEF TypeOK, Receipts
<1>2. Revs \subseteq Nat \ {0}
  BY DEF Revs
<1>3. ReceiptsListed'
  BY DEF ReceiptsMove, ReceiptsListed
<1>4. ASSUME NEW t \in Turns, NEW r \in Revs, run'[t][r] \in Active
      PROVE  receipt'[t].revision >= r \/ t \in lapsed'
  <2>1. CASE receipt'[t].revision = r
    BY <1>2, <2>1
  <2>2. CASE run[t][r] \in Active
    <3>1. receipt[t].revision >= r \/ t \in lapsed
      BY <2>2 DEF ReorderedNeverWins, Active
    <3> QED
      BY <1>1, <1>2, <3>1 DEF ReceiptsMove, ReceiptsListed
  <2> QED
    BY <1>4, <2>1, <2>2
<1> QED
  BY <1>3, <1>4 DEF ReorderedNeverWins, Active

LEMMA LiveEnds ==
  ASSUME TypeOK
  PROVE  LiveFitsRecord <=> Ends(live, record)
<1>1. live \in Seq(Sends) /\ record \in Seq(Sends)
  BY DEF TypeOK
<1> QED
  BY <1>1, EndsIsSubSeq DEF LiveFitsRecord, LiveIsTail

(* A session without history may be taken over by another persona. *)
LEMMA LiveKept ==
  ASSUME TypeOK, LiveFitsRecord, OnePersona, UNCHANGED <<live, record>>,
         session' # session =>
           \E t \in Turns : MayUseSession(t) /\ session' = PersonaFor(t)
  PROVE  LiveFitsRecord' /\ OnePersona'
<1>1. LiveFitsRecord'
  BY DEF LiveFitsRecord, LiveIsTail
<1>2. \A i \in DOMAIN live : live[i][1] \in Turns
  BY ElementOfSeq, LenProperties DEF TypeOK, Sends
<1>3. \A t \in Turns : PersonaFor(t) # NoSession
  BY TurnsAssumption DEF PersonaFor
<1>4. \A i \in DOMAIN live : PersonaFor(live[i][1]) = session'
  BY <1>2, <1>3 DEF OnePersona, MayUseSession
<1> QED
  BY <1>1, <1>4 DEF OnePersona

LEMMA LiveGone ==
  ASSUME TypeOK', live' = <<>>
  PROVE  LiveFitsRecord' /\ OnePersona'
<1>1. record' \in Seq(Sends) /\ live' \in Seq(Sends) /\ Len(live') = 0
  BY EmptySeq DEF TypeOK
<1>2. Len(record') \in Nat /\ DOMAIN live' = {}
  BY <1>1, LenProperties
<1>3. Len(live') <= Len(record')
  BY <1>1, <1>2
<1>4. SubSeq(record', Len(record') - Len(live') + 1, Len(record')) = <<>>
  BY <1>1, <1>2, SubSeqEmpty
<1> QED
  BY <1>2, <1>3, <1>4 DEF LiveFitsRecord, LiveIsTail, OnePersona

(* The pair that is committed is the last of both tables. *)
LEMMA LiveCommitted ==
  ASSUME TypeOK, TypeOK', LiveFitsRecord, OnePersona,
         NEW t \in Turns, MayUseSession(t), CommitTurn(t), receipt[t].revision \in Revs
  PROVE  LiveFitsRecord' /\ OnePersona'
<1> DEFINE saved  == <<t, receipt[t].revision>>
           pushed == Append(live, saved)
<1>1. /\ record' = Append(record, saved)
      /\ live' = Newest(pushed, LiveKeep)
      /\ session' = PersonaFor(t)
  BY DEF CommitTurn
<1>2. live \in Seq(Sends) /\ record \in Seq(Sends) /\ saved \in Sends /\ LiveKeep \in Nat
  BY BoundsAssumption DEF TypeOK, Sends
<1>3. pushed \in Seq(Sends) /\ record' \in Seq(Sends) /\ live' \in Seq(Sends)
  BY <1>1, <1>2, AppendProperties DEF TypeOK
<1>4. Ends(pushed, record')
  BY <1>1, <1>2, LiveEnds, EndsAppended
<1>5. Ends(live', pushed)
  BY <1>1, <1>2, <1>3, NewestEnds
<1>6. Ends(live', record')
  BY <1>3, <1>4, <1>5, EndsTransitive
<1>7. LiveFitsRecord'
  BY <1>3, <1>6, EndsIsSubSeq DEF LiveFitsRecord, LiveIsTail
<1>8. ASSUME NEW i \in 1..Len(live)
      PROVE  PersonaFor(live[i][1]) = PersonaFor(t)
  <2>1. i \in DOMAIN live /\ live[i][1] \in Turns
    BY <1>2, ElementOfSeq, LenProperties DEF Sends
  <2>2. PersonaFor(live[i][1]) # NoSession
    BY <2>1, TurnsAssumption DEF PersonaFor
  <2> QED
    BY <2>1, <2>2 DEF OnePersona, MayUseSession
<1>9. ASSUME NEW i \in 1..Len(pushed)
      PROVE  PersonaFor(pushed[i][1]) = PersonaFor(t)
  <2>1. Len(live) \in Nat /\ Len(pushed) = Len(live) + 1 /\ pushed[Len(live) + 1] = saved
    BY <1>2, LenProperties, AppendProperties
  <2>2. \A j \in 1..Len(live) : pushed[j] = live[j]
    BY <1>2, AppendProperties
  <2> HIDE DEF pushed
  <2>3. CASE i = Len(live) + 1
    BY <2>1, <2>3
  <2>4. CASE i \in 1..Len(live)
    BY <1>8, <2>2, <2>4
  <2>5. i = Len(live) + 1 \/ i \in 1..Len(live)
    BY <2>1
  <2> QED
    BY <2>3, <2>4, <2>5
<1>10. DOMAIN live' = 1..Len(live') /\ Len(live') \in Nat /\ Len(pushed) \in Nat
  BY <1>3, LenProperties
<1> HIDE DEF pushed
<1>11. ASSUME NEW i \in DOMAIN live'
       PROVE  PersonaFor(live'[i][1]) = session'
  <2>1. live'[i] = pushed[Len(pushed) - Len(live') + i]
    BY <1>5, <1>10 DEF Ends
  <2>2. Len(pushed) - Len(live') + i \in 1..Len(pushed)
    BY <1>5, <1>10 DEF Ends
  <2> QED
    BY <1>1, <1>9, <2>1, <2>2
<1> QED
  BY <1>7, <1>11 DEF OnePersona

LEMMA StoreInit == Init => StoreInv
<1> SUFFICES ASSUME Init PROVE StoreInv
  OBVIOUS
<1>1. TypeOK
  BY InvInit DEF Inv
<1>2. live = <<>> /\ record = <<>> /\ order = <<>>
  BY DEF Init
<1>3. Ends(live, record)
  BY <1>2, EmptySeq DEF Ends
<1>4. OnePersona
  BY <1>2 DEF OnePersona
<1>5. ReceiptsListed
  BY <1>2, EmptySeq, BoundsAssumption DEF Init, ReceiptsListed, NoRow
<1>6. ReorderedNeverWins
  BY DEF Init, ReorderedNeverWins
<1> QED
  BY <1>1, <1>3, <1>4, <1>5, <1>6, LiveEnds DEF StoreInv

(* A step that leaves the tables and activates no run. *)
LEMMA StoreStill ==
  ASSUME StoreInv, TypeOK', UNCHANGED <<session, live, record, order, lapsed>>,
         \A u \in Turns : receipt'[u].revision = receipt[u].revision,
         \A t \in Turns, r \in Revs : run'[t][r] \in Active => run[t][r] \in Active
  PROVE  StoreInv'
<1>1. ReceiptsListed' /\ ReorderedNeverWins'
  BY StillMoves, ReceiptsInv DEF StoreInv
<1>2. LiveFitsRecord' /\ OnePersona'
  BY LiveKept DEF StoreInv
<1> QED
  BY <1>1, <1>2 DEF StoreInv

LEMMA StorePage ==
  ASSUME StoreInv, TypeOK', PageStep
  PROVE  StoreInv'
<1>1. UNCHANGED <<session, receipt, order, live, record, lapsed>>
  BY PageKeepsStore DEF storeVars
<1>2. \A t \in Turns, r \in Revs : run'[t][r] \in Active => run[t][r] \in Active
  <2>1. CASE run' = run
    BY <2>1
  <2>2. CASE \E t \in Turns, r \in Revs : Ask(t, r)
    <3>1. PICK t \in Turns, r \in Revs : run' = [run EXCEPT ![t][r] = "sent"]
      BY <2>2 DEF Ask
    <3>2. run \in [Turns -> [Revs -> Runs]] /\ "sent" \in Runs
      BY DEF StoreInv, TypeOK, Runs
    <3>3. \A x \in Turns, y \in Revs :
            run'[x][y] = IF x = t /\ y = r THEN "sent" ELSE run[x][y]
      BY <3>1, <3>2, Set2
    <3> QED
      BY <3>3 DEF Active
  <2>3. ASSUME NEW p \in Pages PROVE (SendMerged(p) \/ Interrupt(p)) => run' = run
    BY DEF SendMerged, Interrupt, brainVars
  <2>4. ASSUME NEW p \in Pages, NEW t \in Turns PROVE SendNew(p, t) => run' = run
    BY DEF SendNew, brainVars
  <2>5. ASSUME NEW t \in Turns, NEW r \in Revs
        PROVE  HearSentence(t, r) \/ ReceiveAnswer(t, r) \/ ReceiveError(t, r) => run' = run
    BY DEF HearSentence, ReceiveAnswer, ReceiveError, brainVars
  <2>6. ASSUME NEW t \in Turns, NEW r \in Revs
        PROVE  (\/ Confirmed(t, r) \/ Refused(t, r)
                \/ RetryAccept(t, r) \/ GiveUpAccept(t, r)) => run' = run
    BY DEF Confirmed, Refused, RetryAccept, GiveUpAccept, Settle, brainVars
  <2> QED
    BY <2>1, <2>2, <2>3, <2>4, <2>5, <2>6, Zenon DEF PageStep
<1> QED
  BY <1>1, <1>2, StoreStill

LEMMA StoreBrain ==
  ASSUME StoreInv, TypeOK', BrainStep
  PROVE  StoreInv'
<1>1. PICK t \in Turns, r \in Revs :
        \/ RegisterTurn(t, r) \/ Prepare(t, r) \/ PassLastCheck(t, r)
        \/ CancelRun(t, r) \/ RunFails(t, r) \/ Deadline(t, r) \/ StageTurn(t, r)
        \/ \E k \in Attempts :
             AcceptTurn(t, r, k) \/ FinishAccept(t, r, k) \/ AcceptFails(t, r, k)
  BY DEF BrainStep
<1>2. ASSUME NEW v \in Runs, run' = [run EXCEPT ![t][r] = v]
      PROVE  \A x \in Turns, y \in Revs :
               run'[x][y] = IF x = t /\ y = r THEN v ELSE run[x][y]
  <2>1. run \in [Turns -> [Revs -> Runs]]
    BY DEF StoreInv, TypeOK
  <2> QED
    BY <1>2, <2>1, Set2
<1>3. CASE RegisterTurn(t, r)
  <2>1. LiveFitsRecord' /\ OnePersona'
    BY <1>3, LiveKept DEF RegisterTurn, StoreInv
  <2>2. CASE Advances(receipt[t], r)
    <3>1. ReceiptsMove /\ receipt'[t].revision = r
      BY <1>3, <2>2, RegisterReceipts DEF StoreInv
    <3>2. \A x \in Turns, y \in Revs : run'[x][y] \in Active =>
            run[x][y] \in Active \/ receipt'[x].revision = y
      BY <1>2, <1>3, <2>2, <3>1 DEF RegisterTurn, Runs
    <3> QED
      BY <2>1, <3>1, <3>2, ReceiptsInv DEF StoreInv
  <2>3. CASE ~Advances(receipt[t], r)
    <3>1. UNCHANGED <<receipt, order, lapsed>> /\ run' = [run EXCEPT ![t][r] = "over"]
      BY <1>3, <2>3 DEF RegisterTurn
    <3>2. \A x \in Turns, y \in Revs : run'[x][y] \in Active => run[x][y] \in Active
      BY <1>2, <3>1 DEF Runs, Active
    <3> QED
      BY <2>1, <3>1, <3>2, StillMoves, ReceiptsInv DEF StoreInv
  <2> QED
    BY <2>2, <2>3
<1>4. CASE Prepare(t, r)
  <2>1. LiveFitsRecord' /\ OnePersona'
    BY <1>4, LiveKept DEF Prepare, StoreInv
  <2>2. ReceiptsMove
    BY <1>4, DropMoves, StillMoves DEF Prepare, StoreInv
  <2>3. \A x \in Turns, y \in Revs : run'[x][y] \in Active => run[x][y] \in Active
    BY <1>2, <1>4 DEF Prepare, Runs, Active
  <2> QED
    BY <2>1, <2>2, <2>3, ReceiptsInv DEF StoreInv
<1>5. CASE \/ PassLastCheck(t, r) \/ CancelRun(t, r)
           \/ RunFails(t, r) \/ Deadline(t, r)
  <2>1. UNCHANGED <<session, receipt, order, live, record, lapsed>>
    BY <1>5 DEF PassLastCheck, CancelRun, RunFails, Deadline, storeVars
  <2>2. \A x \in Turns, y \in Revs : run'[x][y] \in Active => run[x][y] \in Active
    BY <1>2, <1>5 DEF PassLastCheck, CancelRun, RunFails, Deadline, Runs, Active
  <2> QED
    BY <2>1, <2>2, StoreStill
<1>6. CASE StageTurn(t, r)
  <2>1. UNCHANGED <<session, order, live, record, lapsed>>
    BY <1>6 DEF StageTurn
  <2>2. \A u \in Turns : receipt'[u].revision = receipt[u].revision
    <3>1. receipt' = receipt \/ receipt' = [receipt EXCEPT ![t].staged = TRUE]
      BY <1>6 DEF StageTurn
    <3>2. receipt \in [Turns -> Receipts]
      BY DEF StoreInv, TypeOK
    <3> QED
      BY <3>1, <3>2 DEF Receipts
  <2>3. \A x \in Turns, y \in Revs : run'[x][y] \in Active => run[x][y] \in Active
    BY <1>2, <1>6 DEF StageTurn, Runs, Active
  <2> QED
    BY <2>1, <2>2, <2>3, StoreStill
<1>7. ASSUME NEW k \in Attempts,
             AcceptTurn(t, r, k) \/ FinishAccept(t, r, k) \/ AcceptFails(t, r, k)
      PROVE  StoreInv'
  <2>1. run' = run
    BY <1>7 DEF AcceptTurn, FinishAccept, AcceptFails
  <2>2. CASE UNCHANGED storeVars
    BY <2>1, <2>2, StoreStill DEF storeVars
  <2>3. CASE MayAccept(receipt[t], r) /\ MayUseSession(t) /\ CommitTurn(t)
    <3>1. LiveFitsRecord' /\ OnePersona'
      BY <2>3, LiveCommitted DEF MayAccept, StoreInv
    <3>2. \A u \in Turns : receipt'[u].revision = receipt[u].revision
      BY <2>3 DEF CommitTurn, StoreInv, TypeOK, Receipts
    <3>3. UNCHANGED <<order, lapsed>>
      BY <2>3 DEF CommitTurn
    <3> QED
      BY <2>1, <3>1, <3>2, <3>3, StillMoves, ReceiptsInv DEF StoreInv
  <2> QED
    BY <1>7, <2>2, <2>3 DEF AcceptTurn, FinishAccept, AcceptFails
<1> QED
  BY <1>1, <1>3, <1>4, <1>5, <1>6, <1>7

LEMMA StoreSession ==
  ASSUME StoreInv, TypeOK', SessionStep
  PROVE  StoreInv'
<1>1. run' = run
  BY DEF SessionStep, TimePasses, PruneSession, DeleteSession, brainVars
<1>2. CASE TimePasses
  BY <1>1, <1>2, StoreStill DEF TimePasses
<1>3. CASE PruneSession \/ DeleteSession
  <2>1. live' = <<>> /\ DropReceipts(Turns) /\ order' = <<>>
    BY <1>3 DEF PruneSession, DeleteSession
  <2> QED
    BY <1>1, <2>1, LiveGone, DropMoves, ReceiptsInv DEF StoreInv
<1> QED
  BY <1>2, <1>3 DEF SessionStep

(* The session's tables agree with each other and with the runs. *)
THEOREM StoreInvariance == Spec => []StoreInv
<1>1. StoreInv /\ [Next]_vars => StoreInv'
  <2> SUFFICES ASSUME StoreInv, [Next]_vars PROVE StoreInv'
    OBVIOUS
  <2>1. CASE UNCHANGED vars
    BY <2>1 DEF vars, pageVars, brainVars, storeVars, StoreInv, TypeOK, LiveFitsRecord,
         LiveIsTail, OnePersona, ReceiptsListed, ReorderedNeverWins
  <2>2. CASE Next
    <3>1. TypeOK'
      BY <2>2, PageTypes, BrainTypes, SessionTypes DEF Next, StoreInv
    <3> QED
      BY <2>2, <3>1, StorePage, StoreBrain, StoreSession DEF Next
  <2> QED
    BY <2>1, <2>2
<1> QED
  BY <1>1, StoreInit, PTL DEF Spec

(* What the model is shown is the end of what was recorded. *)
THEOREM HistoryIsTail == Spec => []LiveIsTail
<1>1. StoreInv => LiveIsTail
  BY DEF StoreInv, LiveFitsRecord
<1> QED
  BY <1>1, StoreInvariance, PTL

(* No persona reads what was said under another. *)
THEOREM PersonaIsolated == Spec => []OnePersona
<1>1. StoreInv => OnePersona
  BY DEF StoreInv
<1> QED
  BY <1>1, StoreInvariance, PTL

(* A late request does not displace a newer revision that has a receipt. *)
THEOREM NewestRevisionWins == Spec => []ReorderedNeverWins
<1>1. StoreInv => ReorderedNeverWins
  BY DEF StoreInv
<1> QED
  BY <1>1, StoreInvariance, PTL

(* A step appends to the record, or empties it and remembers what it held. *)
RecordStep ==
  \/ \A i \in DOMAIN record : i \in DOMAIN record' /\ record'[i] = record[i]
  \/ TurnsIn(record) \subseteq erased' /\ record' = <<>>

LEMMA RecordGrows ==
  ASSUME TypeOK, Next
  PROVE  RecordStep
<1>1. CASE record' = record
  BY <1>1 DEF RecordStep
<1>2. CASE DeleteSession
  BY <1>2 DEF DeleteSession, RecordStep
<1>3. ASSUME NEW t \in Turns, receipt[t].revision \in Revs, CommitTurn(t)
      PROVE  RecordStep
  <2>1. /\ record' = Append(record, <<t, receipt[t].revision>>)
        /\ record \in Seq(Sends) /\ <<t, receipt[t].revision>> \in Sends
    BY <1>3 DEF CommitTurn, TypeOK, Sends
  <2>2. /\ DOMAIN record = 1..Len(record) /\ DOMAIN record' = 1..(Len(record) + 1)
        /\ Len(record) \in Nat
        /\ \A i \in 1..Len(record) : record'[i] = record[i]
    BY <2>1, LenProperties, AppendProperties
  <2> QED
    BY <2>2 DEF RecordStep
<1>4. CASE PageStep
  BY <1>1, <1>4, PageKeepsStore DEF storeVars
<1>5. CASE BrainStep
  BY <1>1, <1>3, <1>5 DEF BrainStep, RegisterTurn, Prepare, PassLastCheck, CancelRun,
       RunFails, Deadline, StageTurn, AcceptTurn, FinishAccept, AcceptFails, MayAccept,
       storeVars
<1>6. CASE TimePasses \/ PruneSession
  BY <1>1, <1>6 DEF TimePasses, PruneSession, RecordAfterPrune
<1> QED
  BY <1>2, <1>4, <1>5, <1>6 DEF Next, SessionStep

(* Neither expiry nor the bounds of other tables shorten the record. *)
THEOREM RecordGrowsOnly == Spec => RecordKept
<1>1. TypeOK /\ [Next]_vars => [RecordStep]_vars
  BY RecordGrows
<1> QED
  BY <1>1, TypeCorrect, PTL DEF Spec, RecordKept, RecordStep

-----------------------------------------------------------------------------
(* The history a generation reads: HistoryInv.                             *)

(* What an earlier question of the page came to stays as it is. *)
LEMMA EarlierPhases ==
  ASSUME Inv, NEW t \in Turns, NEW r \in Revs
  PROVE  /\ phase[t][r] # "none" => phase[t][1] # "none"
         /\ run[t][r] # "none" => phase[t][r] \notin {"none", "waiting"}
BY DEF Inv, RevisionsInOrder, RunsWereAsked

(* A send that was not cancelled is in the phase it was in, or has just    *)
(* been made by this page.                                                 *)
NewQuestion(p, t, r) ==
  /\ PageOf[t] = p
  /\ phase[t][r] = "none"
  /\ \A x \in Turns, y \in Revs :
       phase'[x][y] = IF x = t /\ y = r THEN "waiting" ELSE Cancelled(p)[x][y]

LEMMA SendPhases ==
  ASSUME Inv, HistoryInv, NEW p \in Pages, NEW t \in Turns, NEW r \in Revs,
         NewQuestion(p, t, r),
         \A u \in Turns : Earlier(u, t) => phase[u][1] # "none",
         \A u \in Turns : Earlier(t, u) => phase[u][1] = "none",
         UNCHANGED <<accepting, run>>
  PROVE  OneIsOpen' /\ SlotIsTaken' /\ TurnsFollow' /\ EarlierAreSettled'
<1>1. \A x \in Turns, y \in Revs :
        /\ phase'[x][y] \in Open =>
             (phase[x][y] \in Open /\ PageOf[x] # p) \/ (x = t /\ y = r)
        /\ phase'[x][y] \in {"asked", "speaking", "accepting"} => phase'[x][y] = phase[x][y]
        /\ phase'[x][y] # "none" <=> (phase[x][y] # "none" \/ (x = t /\ y = r))
  <2> SUFFICES ASSUME NEW x \in Turns, NEW y \in Revs
               PROVE  /\ phase'[x][y] \in Open =>
                           (phase[x][y] \in Open /\ PageOf[x] # p) \/ (x = t /\ y = r)
                      /\ phase'[x][y] \in {"asked", "speaking", "accepting"} =>
                           phase'[x][y] = phase[x][y]
                      /\ phase'[x][y] # "none" <=>
                           (phase[x][y] # "none" \/ (x = t /\ y = r))
    OBVIOUS
  <2>1. Cancelled(p)[x][y] =
          IF PageOf[x] = p /\ phase[x][y] \in Open THEN "dropped" ELSE phase[x][y]
    BY CancelAdvances DEF Open
  <2>2. phase'[x][y] = IF x = t /\ y = r THEN "waiting" ELSE Cancelled(p)[x][y]
    BY DEF NewQuestion
  <2>3. CASE x = t /\ y = r
    BY <2>2, <2>3
  <2>4. CASE ~(x = t /\ y = r) /\ PageOf[x] = p /\ phase[x][y] \in Open
    BY <2>1, <2>2, <2>4 DEF Open
  <2>5. CASE ~(x = t /\ y = r) /\ ~(PageOf[x] = p /\ phase[x][y] \in Open)
    <3>1. phase'[x][y] = phase[x][y]
      BY ONLY <2>1, <2>2, <2>5
    <3> QED
      BY ONLY <2>5, <3>1
  <2> QED
    BY <2>3, <2>4, <2>5
<1>2. 1 \in Revs /\ Turns \subseteq Nat
  BY BoundsAssumption, TurnsAssumption DEF Revs
<1>3. OneIsOpen'
  BY <1>1 DEF HistoryInv, OneIsOpen, NewQuestion
<1>4. SlotIsTaken'
  BY <1>1 DEF HistoryInv, SlotIsTaken
<1>5. TurnsFollow'
  <2> SUFFICES ASSUME NEW u \in Turns, NEW v \in Turns, phase'[v][1] # "none", Earlier(u, v)
               PROVE  /\ phase'[u][1] # "none"
                      /\ \A s \in Revs : phase'[u][s] \notin Open
    BY DEF TurnsFollow, Earlier
  <2>1. CASE v = t
    <3>1. phase'[u][1] # "none" /\ u # t
      BY <1>1, <1>2, <2>1 DEF Earlier
    <3> QED
      BY <1>1, <2>1, <3>1 DEF Earlier, NewQuestion
  <2>2. CASE v # t
    <3>1. phase[v][1] # "none"
      BY <1>1, <1>2, <2>2
    <3>2. u # t
      BY <3>1
    <3>3. /\ phase[u][1] # "none"
          /\ \A s \in Revs : phase[u][s] \notin Open
      BY <3>1 DEF HistoryInv, TurnsFollow
    <3> QED
      BY <1>1, <1>2, <3>2, <3>3
  <2> QED
    BY <2>1, <2>2
<1>6. EarlierAreSettled'
  <2> SUFFICES ASSUME NEW v \in Turns, NEW u \in Turns, NEW q \in Revs, NEW s \in Revs,
                      run[v][q] # "none", Earlier(u, v)
               PROVE  phase'[u][s] \notin Open \cup {"accepting"}
    BY DEF EarlierAreSettled, Earlier
  <2>1. phase[u][s] \notin Open \cup {"accepting"}
    BY DEF HistoryInv, EarlierAreSettled
  <2>2. phase[v][1] # "none"
    BY EarlierPhases
  <2>3. u # t
    BY <2>2
  <2> QED
    BY <1>1, <2>1, <2>3
<1> QED
  BY <1>3, <1>4, <1>5, <1>6

LEMMA SendHistory ==
  ASSUME HistoryInv, NEW p \in Pages, NEW t \in Turns, SendNew(p, t)
  PROVE  OneIsOpen' /\ SlotIsTaken' /\ TurnsFollow' /\ EarlierAreSettled'
<1>1. 1 \in Revs /\ Turns \subseteq Nat
  BY BoundsAssumption, TurnsAssumption DEF Revs
<1>2. Cancelled(p) \in [Turns -> [Revs -> Phases]] /\ "waiting" \in Phases
  BY CancelledType DEF HistoryInv, Inv, Phases
<1>3. NewQuestion(p, t, 1)
  BY <1>1, <1>2, Set2 DEF SendNew, NewQuestion
<1>4. \A u \in Turns : Earlier(u, t) => phase[u][1] # "none"
  BY DEF SendNew, Earlier
<1>5. \A u \in Turns : Earlier(t, u) => phase[u][1] = "none"
  BY DEF SendNew, HistoryInv, TurnsFollow
<1>6. UNCHANGED <<accepting, run>>
  BY DEF SendNew, brainVars
<1> QED
  BY <1>1, <1>3, <1>4, <1>5, <1>6, SendPhases DEF HistoryInv

LEMMA MergeHistory ==
  ASSUME HistoryInv, NEW p \in Pages, SendMerged(p)
  PROVE  OneIsOpen' /\ SlotIsTaken' /\ TurnsFollow' /\ EarlierAreSettled'
<1> USE DEF Past, Closed
<1>1. PICK t \in Turns, q \in Revs : pending[p] = <<t, q>>
  BY DEF HistoryInv, Inv, TypeOK, SendMerged, Sends
<1>2. PageOf[t] = p /\ phase[t][q] \in {"waiting", "asked"}
  <2>1. pending[p] # NoSend /\ pending[p][1] = t /\ pending[p][2] = q
    BY <1>1 DEF SendMerged
  <2> QED
    BY <2>1 DEF HistoryInv, Inv, PendingIsOpen
<1>3. q + 1 \in Revs /\ q + 1 > q /\ "waiting" \in Phases
  <2>1. pending[p][2] < MaxRev /\ pending[p][2] = q
    BY <1>1 DEF SendMerged
  <2> QED
    BY <2>1, BoundsAssumption DEF Revs, Phases
<1>4. phase[t][q + 1] = "none"
  BY <1>2, <1>3 DEF HistoryInv, Inv, RevisionsInOrder
<1>5. NewQuestion(p, t, q + 1)
  <2>1. Cancelled(p) \in [Turns -> [Revs -> Phases]]
    BY CancelledType DEF HistoryInv, Inv
  <2>2. phase' = [Cancelled(p) EXCEPT ![t][q + 1] = "waiting"]
    BY <1>1 DEF SendMerged
  <2>3. \A x \in Turns, y \in Revs :
          phase'[x][y] = IF x = t /\ y = q + 1 THEN "waiting" ELSE Cancelled(p)[x][y]
    BY <1>3, <2>1, <2>2, Set2
  <2> QED
    BY <1>2, <1>4, <2>3 DEF NewQuestion
<1>6. phase[t][1] # "none"
  BY <1>2, EarlierPhases DEF HistoryInv
<1>7. \A u \in Turns : Earlier(u, t) => phase[u][1] # "none"
  BY <1>6 DEF HistoryInv, TurnsFollow
<1>8. \A u \in Turns : Earlier(t, u) => phase[u][1] = "none"
  BY <1>2 DEF HistoryInv, TurnsFollow, Open
<1>9. UNCHANGED <<accepting, run>>
  BY DEF SendMerged, brainVars
<1> QED
  BY <1>3, <1>5, <1>7, <1>8, <1>9, SendPhases DEF HistoryInv

LEMMA InterruptHistory ==
  ASSUME HistoryInv, NEW p \in Pages, Interrupt(p)
  PROVE  OneIsOpen' /\ SlotIsTaken' /\ TurnsFollow' /\ EarlierAreSettled'
<1>1. \A x \in Turns, y \in Revs :
        /\ phase'[x][y] # "dropped" => phase'[x][y] = phase[x][y]
        /\ phase'[x][y] = "none" <=> phase[x][y] = "none"
  BY CancelAdvances DEF Interrupt, HistoryInv
<1>2. UNCHANGED <<accepting, run>> /\ 1 \in Revs
  BY BoundsAssumption DEF Interrupt, brainVars, Revs
<1>3. OneIsOpen' /\ SlotIsTaken'
  BY <1>1, <1>2 DEF HistoryInv, OneIsOpen, SlotIsTaken, Open
<1>4. TurnsFollow' /\ EarlierAreSettled'
  BY <1>1, <1>2 DEF HistoryInv, TurnsFollow, EarlierAreSettled, Earlier, Open
<1> QED
  BY <1>3, <1>4

(* One coroutine moves on to v, and the page's slot is its own or free. *)
OwnSlot(t, r, v) ==
  /\ v = "asked" => phase[t][r] = "waiting" /\ accepting[PageOf[t]] = NoSend
  /\ v = "speaking" => phase[t][r] = "asked"
  /\ v = "accepting" => phase[t][r] \in {"asked", "speaking"}
  /\ v \in {"confirmed", "failed"} => phase[t][r] \in {"asked", "speaking", "accepting"}
  /\ \A p \in Pages : accepting'[p] =
       IF p # PageOf[t] THEN accepting[p]
       ELSE IF v = "accepting" THEN <<t, r>> ELSE NoSend

LEMMA MoveHistory ==
  ASSUME HistoryInv, NEW t \in Turns, NEW r \in Revs, NEW v, Moves(t, r, v),
         OwnSlot(t, r, v),
         \A x \in Turns, y \in Revs : run'[x][y] # "none" =>
           run[x][y] # "none" \/ (x = t /\ y = r /\ v = "asked")
  PROVE  OneIsOpen' /\ SlotIsTaken' /\ TurnsFollow' /\ EarlierAreSettled'
<1>1. \A x \in Turns, y \in Revs :
        phase'[x][y] = IF x = t /\ y = r THEN v ELSE phase[x][y]
  BY MoveKeepsOrder DEF HistoryInv
<1>2. \A x \in Turns, y \in Revs :
        /\ phase'[x][y] \in Open => phase[x][y] \in Open
        /\ phase'[x][y] = "none" <=> phase[x][y] = "none"
  BY <1>1 DEF OwnSlot, Moves, Open, Past
<1>3. OneIsOpen' /\ TurnsFollow'
  <2>1. 1 \in Revs
    BY BoundsAssumption DEF Revs
  <2> QED
    BY <1>2, <2>1 DEF HistoryInv, OneIsOpen, TurnsFollow, Earlier
<1>4. SlotIsTaken'
  <2> SUFFICES ASSUME NEW x \in Turns, NEW y \in Revs
               PROVE  /\ phase'[x][y] = "accepting" => accepting'[PageOf[x]] = <<x, y>>
                      /\ phase'[x][y] \in {"asked", "speaking"} =>
                           accepting'[PageOf[x]] = NoSend
    BY DEF SlotIsTaken
  <2>1. PageOf[x] \in Pages /\ <<x, y>> # NoSend
    BY TurnsAssumption DEF NoSend
  <2>2. /\ phase[x][y] = "accepting" => accepting[PageOf[x]] = <<x, y>>
        /\ phase[x][y] \in {"asked", "speaking"} => accepting[PageOf[x]] = NoSend
    BY DEF HistoryInv, SlotIsTaken
  <2>3. CASE x = t /\ y = r
    BY <1>1, <2>1, <2>3 DEF OwnSlot
  <2>4. CASE PageOf[x] # PageOf[t]
    <3>1. phase'[x][y] = phase[x][y]
      BY <1>1, <2>4
    <3>2. accepting'[PageOf[x]] = accepting[PageOf[x]]
      BY <2>1, <2>4 DEF OwnSlot
    <3> QED
      BY <2>2, <3>1, <3>2
  <2>5. CASE PageOf[x] = PageOf[t] /\ ~(x = t /\ y = r)
    <3>1. \/ accepting[PageOf[t]] = NoSend
          \/ phase[t][r] = "accepting" /\ accepting[PageOf[t]] = <<t, r>>
      BY DEF OwnSlot, HistoryInv, SlotIsTaken, Moves
    <3>2. phase[x][y] # "accepting"
      <4>1. <<x, y>> # <<t, r>>
        BY <2>5
      <4> QED
        BY <2>1, <2>5, <2>2, <3>1, <4>1
    <3>3. phase[x][y] \in {"asked", "speaking"} => v # "accepting"
      BY <2>5 DEF OwnSlot, HistoryInv, OneIsOpen, Open
    <3> QED
      BY <1>1, <2>1, <2>5, <3>2, <3>3 DEF OwnSlot
  <2> QED
    BY <2>3, <2>4, <2>5
<1>5. EarlierAreSettled'
  <2> SUFFICES ASSUME NEW x \in Turns, NEW u \in Turns, NEW y \in Revs, NEW s \in Revs,
                      run'[x][y] # "none", Earlier(u, x)
               PROVE  phase'[u][s] \notin Open \cup {"accepting"}
    BY DEF EarlierAreSettled, Earlier
  <2>1. CASE run[x][y] # "none"
    <3>1. phase[u][s] \notin Open \cup {"accepting"}
      BY <2>1 DEF HistoryInv, EarlierAreSettled
    <3> QED
      BY <1>1, <1>2, <3>1 DEF OwnSlot, Open
  <2>2. CASE x = t /\ y = r /\ v = "asked"
    <3>1. phase[t][1] # "none" /\ <<u, s>> # NoSend
      BY <2>2, EarlierPhases DEF HistoryInv, OwnSlot, NoSend
    <3>2. phase[u][s] \notin Open
      BY <2>2, <3>1 DEF HistoryInv, TurnsFollow
    <3>3. accepting[PageOf[u]] = NoSend
      BY <2>2 DEF OwnSlot, Earlier
    <3>4. phase[u][s] # "accepting"
      BY <3>1, <3>3 DEF HistoryInv, SlotIsTaken
    <3>5. u # t
      BY <2>2, TurnsAssumption DEF Earlier
    <3> QED
      BY <1>1, <3>4, <3>5, <3>2
  <2> QED
    BY <2>1, <2>2
<1> QED
  BY <1>3, <1>4, <1>5

(* The page confirms only what it was acknowledging, and then no later     *)
(* question of it was asked. *)
LEMMA PageKnows ==
  ASSUME HistoryInv, UNCHANGED <<ctx, faded>>,
         \A x \in Turns, y \in Revs :
           /\ run'[x][y] = run[x][y] \/ run'[x][y] = "sent"
           /\ phase'[x][y] = "confirmed" => phase[x][y] \in {"accepting", "confirmed"}
  PROVE  HistoryKnowsConfirmed'
<1> SUFFICES ASSUME NEW t \in Turns, NEW u \in Turns, NEW r \in Revs,
                    run'[t][r] \in {"prepared", "persisting", "staged"},
                    PageOf[u] = PageOf[t], u < t,
                    NEW s \in Revs, phase'[u][s] = "confirmed"
             PROVE  u \in ctx[t][r] \cup faded
  BY DEF HistoryKnowsConfirmed, IsConfirmed
<1>1. run[t][r] \in {"prepared", "persisting", "staged"}
  OBVIOUS
<1>2. phase[u][s] # "accepting"
  BY <1>1 DEF HistoryInv, EarlierAreSettled, Earlier
<1>3. IsConfirmed(u)
  BY <1>2 DEF IsConfirmed
<1> QED
  BY <1>1, <1>3 DEF HistoryInv, HistoryKnowsConfirmed

(* A step that leaves the page's questions, or makes none of them asked. *)
LEMMA HistoryStill ==
  ASSUME HistoryInv, UNCHANGED <<phase, accepting>>,
         \A x \in Turns, y \in Revs : run'[x][y] # "none" => run[x][y] # "none"
  PROVE  OneIsOpen' /\ SlotIsTaken' /\ TurnsFollow' /\ EarlierAreSettled'
BY DEF HistoryInv, OneIsOpen, SlotIsTaken, TurnsFollow, EarlierAreSettled, Earlier

(* The slot after the coroutine of (t, r) has moved on to v. *)
LEMMA SlotAfterMove ==
  ASSUME HistoryInv, NEW t \in Turns, NEW r \in Revs, NEW v,
         \/ v # "accepting" /\ accepting' = accepting /\ accepting[PageOf[t]] = NoSend
         \/ v # "accepting" /\ accepting' = [accepting EXCEPT ![PageOf[t]] = NoSend]
         \/ v = "accepting" /\ accepting' = [accepting EXCEPT ![PageOf[t]] = <<t, r>>]
  PROVE  \A p \in Pages : accepting'[p] =
           IF p # PageOf[t] THEN accepting[p]
           ELSE IF v = "accepting" THEN <<t, r>> ELSE NoSend
<1>1. accepting \in [Pages -> Sends \cup {NoSend}]
  BY DEF HistoryInv, Inv, TypeOK
<1> QED
  BY <1>1

(* An interruption, or a new question, confirms nothing. *)
LEMMA CancelConfirms ==
  ASSUME HistoryInv, NEW p \in Pages,
         SendMerged(p) \/ Interrupt(p) \/ \E t \in Turns : SendNew(p, t)
  PROVE  \A x \in Turns, y \in Revs :
           phase'[x][y] = "confirmed" => phase[x][y] = "confirmed"
<1>1. Cancelled(p) \in [Turns -> [Revs -> Phases]] /\ "waiting" \in Phases /\ 1 \in Revs
  BY CancelledType, BoundsAssumption DEF HistoryInv, Inv, Phases, Revs
<1>2. \A x \in Turns, y \in Revs :
        Cancelled(p)[x][y] = "confirmed" => phase[x][y] = "confirmed"
  BY CancelAdvances DEF HistoryInv, Past
<1>3. \/ phase' = Cancelled(p)
      \/ \E t \in Turns, r \in Revs : phase' = [Cancelled(p) EXCEPT ![t][r] = "waiting"]
  <2>1. CASE SendMerged(p)
    <3>1. PICK t \in Turns, q \in Revs : pending[p] = <<t, q>>
      BY <2>1 DEF HistoryInv, Inv, TypeOK, SendMerged, Sends
    <3>2. q + 1 \in Revs
      BY <2>1, <3>1, BoundsAssumption DEF SendMerged, Revs
    <3>3. phase' = [Cancelled(p) EXCEPT ![t][q + 1] = "waiting"]
      BY <2>1, <3>1 DEF SendMerged
    <3> QED
      BY <3>2, <3>3
  <2> QED
    BY <1>1, <2>1 DEF Interrupt, SendNew
<1>4. ASSUME NEW t \in Turns, NEW r \in Revs,
             phase' = [Cancelled(p) EXCEPT ![t][r] = "waiting"]
      PROVE  \A x \in Turns, y \in Revs :
               phase'[x][y] = "confirmed" => Cancelled(p)[x][y] = "confirmed"
  BY <1>1, <1>4, Set2
<1> QED
  BY <1>2, <1>3, <1>4

LEMMA PageHistory ==
  ASSUME HistoryInv, PageStep
  PROVE  /\ OneIsOpen' /\ SlotIsTaken' /\ TurnsFollow' /\ EarlierAreSettled'
         /\ HistoryKnowsConfirmed'
<1>1. UNCHANGED <<ctx, faded>>
  <2>1. UNCHANGED faded
    BY PageKeepsStore DEF storeVars
  <2>2. UNCHANGED ctx
    <3>1. ASSUME NEW p \in Pages PROVE (SendMerged(p) \/ Interrupt(p)) => UNCHANGED ctx
      BY DEF SendMerged, Interrupt, brainVars
    <3>2. ASSUME NEW p \in Pages, NEW t \in Turns PROVE SendNew(p, t) => UNCHANGED ctx
      BY DEF SendNew, brainVars
    <3>3. ASSUME NEW t \in Turns, NEW r \in Revs
          PROVE  Ask(t, r) \/ HearSentence(t, r) => UNCHANGED ctx
      BY DEF Ask, HearSentence, brainVars
    <3>4. ASSUME NEW t \in Turns, NEW r \in Revs
          PROVE  ReceiveAnswer(t, r) \/ ReceiveError(t, r) => UNCHANGED ctx
      BY DEF ReceiveAnswer, ReceiveError, brainVars
    <3>5. ASSUME NEW t \in Turns, NEW r \in Revs
          PROVE  (\/ Confirmed(t, r) \/ Refused(t, r)
                  \/ RetryAccept(t, r) \/ GiveUpAccept(t, r)) => UNCHANGED ctx
      BY DEF Confirmed, Refused, RetryAccept, GiveUpAccept, Settle, brainVars
    <3> QED
      BY <3>1, <3>2, <3>3, <3>4, <3>5, Zenon DEF PageStep
  <2> QED
    BY <2>1, <2>2
<1>2. ASSUME NEW t \in Turns, NEW r \in Revs, NEW v, Moves(t, r, v), OwnSlot(t, r, v),
             run' = run \/ (v = "asked" /\ run' = [run EXCEPT ![t][r] = "sent"]),
             v = "confirmed" => phase[t][r] = "accepting"
      PROVE  /\ OneIsOpen' /\ SlotIsTaken' /\ TurnsFollow' /\ EarlierAreSettled'
             /\ HistoryKnowsConfirmed'
  <2>1. \A x \in Turns, y \in Revs :
          \/ run'[x][y] = run[x][y]
          \/ run'[x][y] = "sent" /\ x = t /\ y = r /\ v = "asked"
    BY <1>2, TableUpdates DEF HistoryInv, Runs
  <2>2. OneIsOpen' /\ SlotIsTaken' /\ TurnsFollow' /\ EarlierAreSettled'
    BY <1>2, <2>1, MoveHistory
  <2>3. \A x \in Turns, y \in Revs :
          phase'[x][y] = "confirmed" => phase[x][y] \in {"accepting", "confirmed"}
    BY <1>2, MoveKeepsOrder DEF HistoryInv
  <2> QED
    BY <1>1, <2>1, <2>2, <2>3, PageKnows
<1>3. ASSUME NEW p \in Pages,
             SendMerged(p) \/ Interrupt(p) \/ \E t \in Turns : SendNew(p, t)
      PROVE  /\ OneIsOpen' /\ SlotIsTaken' /\ TurnsFollow' /\ EarlierAreSettled'
             /\ HistoryKnowsConfirmed'
  <2>1. OneIsOpen' /\ SlotIsTaken' /\ TurnsFollow' /\ EarlierAreSettled'
    BY <1>3, SendHistory, MergeHistory, InterruptHistory
  <2>2. run' = run
    BY <1>3 DEF SendNew, SendMerged, Interrupt, brainVars
  <2>3. \A x \in Turns, y \in Revs :
          phase'[x][y] = "confirmed" => phase[x][y] = "confirmed"
    BY <1>3, CancelConfirms
  <2> QED
    BY <1>1, <2>1, <2>2, <2>3, PageKnows
<1>4. ASSUME NEW t \in Turns, NEW r \in Revs, Ask(t, r)
      PROVE  Moves(t, r, "asked") /\ OwnSlot(t, r, "asked")
  <2>1. /\ phase[t][r] = "waiting" /\ phase' = [phase EXCEPT ![t][r] = "asked"]
        /\ accepting[PageOf[t]] = NoSend /\ accepting' = accepting
    BY <1>4 DEF Ask, MayAsk
  <2> QED
    BY <2>1, SlotAfterMove DEF Moves, OwnSlot, Past, Closed
<1>5. ASSUME NEW t \in Turns, NEW r \in Revs, NEW v \in {"speaking", "failed"},
             phase[t][r] \in {"asked", "speaking"}, v = "speaking" => phase[t][r] = "asked",
             phase' = [phase EXCEPT ![t][r] = v], accepting' = accepting
      PROVE  Moves(t, r, v) /\ OwnSlot(t, r, v)
  <2>1. accepting[PageOf[t]] = NoSend
    BY <1>5 DEF HistoryInv, SlotIsTaken
  <2> QED
    BY <1>5, <2>1, SlotAfterMove DEF Moves, OwnSlot, Past, Closed
<1>6. ASSUME NEW t \in Turns, NEW r \in Revs, ReceiveAnswer(t, r)
      PROVE  Moves(t, r, "accepting") /\ OwnSlot(t, r, "accepting")
  BY <1>6, SlotAfterMove DEF ReceiveAnswer, Moves, OwnSlot, Past, Closed
<1>7. ASSUME NEW t \in Turns, NEW r \in Revs, NEW v \in {"confirmed", "failed"},
             phase[t][r] = "accepting", Settle(t, r, v)
      PROVE  Moves(t, r, v) /\ OwnSlot(t, r, v) /\ run' = run
  <2>1. /\ phase' = [phase EXCEPT ![t][r] = v] /\ run' = run
        /\ accepting' = [accepting EXCEPT ![PageOf[t]] = NoSend]
    BY <1>7 DEF Settle, SlotAfterSettle, brainVars
  <2>2. Moves(t, r, v)
    BY <1>7, <2>1 DEF Moves, Past, Closed
  <2>3. \A p \in Pages : accepting'[p] = IF p # PageOf[t] THEN accepting[p] ELSE NoSend
    BY <2>1 DEF HistoryInv, Inv, TypeOK
  <2> QED
    BY <1>7, <2>1, <2>2, <2>3 DEF OwnSlot
<1>8. ASSUME NEW t \in Turns, NEW r \in Revs,
             \/ Ask(t, r) \/ HearSentence(t, r)
             \/ ReceiveAnswer(t, r) \/ ReceiveError(t, r)
             \/ Confirmed(t, r) \/ Refused(t, r) \/ GiveUpAccept(t, r)
      PROVE  /\ OneIsOpen' /\ SlotIsTaken' /\ TurnsFollow' /\ EarlierAreSettled'
             /\ HistoryKnowsConfirmed'
  <2>1. CASE Ask(t, r)
    BY <1>2, <1>4, <2>1 DEF Ask
  <2>2. CASE HearSentence(t, r)
    BY <1>2, <1>5, <2>2 DEF HearSentence, brainVars
  <2>3. CASE ReceiveAnswer(t, r)
    BY <1>2, <1>6, <2>3 DEF ReceiveAnswer
  <2>4. CASE ReceiveError(t, r)
    BY <1>2, <1>5, <2>4 DEF ReceiveError, brainVars
  <2>5. CASE Confirmed(t, r)
    BY <1>2, <1>7, <2>5 DEF Confirmed
  <2>6. CASE Refused(t, r) \/ GiveUpAccept(t, r)
    BY <1>2, <1>7, <2>6 DEF Refused, GiveUpAccept
  <2> QED
    BY <1>8, <2>1, <2>2, <2>3, <2>4, <2>5, <2>6
<1>9. ASSUME NEW t \in Turns, NEW r \in Revs, RetryAccept(t, r)
      PROVE  /\ OneIsOpen' /\ SlotIsTaken' /\ TurnsFollow' /\ EarlierAreSettled'
             /\ HistoryKnowsConfirmed'
  <2>1. UNCHANGED <<phase, accepting, run>>
    BY <1>9 DEF RetryAccept
  <2> QED
    BY <1>1, <2>1, HistoryStill, PageKnows
<1> QED
  BY <1>3, <1>8, <1>9 DEF PageStep

(* The handlers' and the session's steps.                                  *)
Reading == {"prepared", "persisting", "staged"}

(* What a generation reads, it reads when everything confirmed so far is   *)
(* live or has left the live window.                                       *)
LEMMA ReadersKnow ==
  ASSUME HistoryInv, phase' = phase, faded \subseteq faded',
         \A x \in Turns, y \in Revs : run'[x][y] \in Reading =>
           \/ run[x][y] \in Reading /\ ctx'[x][y] = ctx[x][y]
           \/ ctx'[x][y] = TurnsIn(live)
  PROVE  HistoryKnowsConfirmed'
<1> SUFFICES ASSUME NEW t \in Turns, NEW u \in Turns, NEW r \in Revs,
                    run'[t][r] \in Reading, PageOf[u] = PageOf[t], u < t, IsConfirmed(u)
             PROVE  u \in ctx'[t][r] \cup faded'
  BY DEF HistoryKnowsConfirmed, IsConfirmed, Reading
<1>1. CASE run[t][r] \in Reading /\ ctx'[t][r] = ctx[t][r]
  BY <1>1 DEF HistoryInv, HistoryKnowsConfirmed, Reading
<1>2. CASE ctx'[t][r] = TurnsIn(live)
  <2>1. WasRecorded(u)
    BY DEF HistoryInv, Inv, CommitsAreRecorded, IsConfirmed
  <2> QED
    BY <1>2, <2>1 DEF HistoryInv, RecordWasLive, WasRecorded
<1> QED
  BY <1>1, <1>2

LEMMA TurnsAppended ==
  ASSUME NEW seq \in Seq(Sends), NEW s \in Sends
  PROVE  TurnsIn(Append(seq, s)) = TurnsIn(seq) \cup {s[1]}
<1>1. /\ Len(seq) \in Nat /\ DOMAIN seq = 1..Len(seq)
      /\ DOMAIN Append(seq, s) = 1..(Len(seq) + 1)
      /\ Append(seq, s)[Len(seq) + 1] = s
      /\ \A i \in 1..Len(seq) : Append(seq, s)[i] = seq[i]
  BY LenProperties, AppendProperties
<1>2. DOMAIN Append(seq, s) = DOMAIN seq \cup {Len(seq) + 1}
  BY <1>1
<1> QED
  BY <1>1, <1>2 DEF TurnsIn

(* What leaves the live window is remembered as faded. *)
LEMMA CommitIsLive ==
  ASSUME HistoryInv, NEW t \in Turns, receipt[t].revision \in Revs, CommitTurn(t)
  PROVE  RecordWasLive' /\ faded \subseteq faded'
<1> DEFINE saved  == <<t, receipt[t].revision>>
           pushed == Append(live, saved)
<1>1. live \in Seq(Sends) /\ record \in Seq(Sends) /\ saved \in Sends /\ saved[1] = t
  BY DEF HistoryInv, Inv, TypeOK, Sends
<1>2. TurnsIn(pushed) = TurnsIn(live) \cup {t}
  BY <1>1, TurnsAppended
<1>3. TurnsIn(record') = TurnsIn(record) \cup {t} /\ erased' = erased
  BY <1>1, TurnsAppended DEF CommitTurn
<1>4. faded' = faded \cup (TurnsIn(pushed) \ TurnsIn(live)')
  BY DEF CommitTurn, TurnsIn
<1> HIDE DEF pushed
<1>5. TurnsIn(record)' = TurnsIn(record')
  BY DEF TurnsIn
<1> QED
  BY <1>2, <1>3, <1>4, <1>5 DEF HistoryInv, RecordWasLive

LEMMA BrainHistory ==
  ASSUME HistoryInv, BrainStep
  PROVE  /\ OneIsOpen' /\ SlotIsTaken' /\ TurnsFollow' /\ EarlierAreSettled'
         /\ RecordWasLive' /\ HistoryKnowsConfirmed'
<1>1. PICK t \in Turns, r \in Revs :
        \/ RegisterTurn(t, r) \/ Prepare(t, r) \/ PassLastCheck(t, r)
        \/ CancelRun(t, r) \/ RunFails(t, r) \/ Deadline(t, r) \/ StageTurn(t, r)
        \/ \E k \in Attempts :
             AcceptTurn(t, r, k) \/ FinishAccept(t, r, k) \/ AcceptFails(t, r, k)
  BY DEF BrainStep
<1>2. UNCHANGED <<phase, accepting>>
  BY <1>1 DEF RegisterTurn, Prepare, PassLastCheck, CancelRun, RunFails, Deadline,
     StageTurn, AcceptTurn, FinishAccept, AcceptFails, pageVars
<1>3. \/ UNCHANGED <<live, faded, record, erased>>
      \/ receipt[t].revision \in Revs /\ CommitTurn(t)
  BY <1>1 DEF RegisterTurn, Prepare, PassLastCheck, CancelRun, RunFails, Deadline,
     StageTurn, AcceptTurn, FinishAccept, AcceptFails, MayAccept, storeVars
<1>4. RecordWasLive' /\ faded \subseteq faded'
  BY <1>3, CommitIsLive DEF HistoryInv, RecordWasLive, TurnsIn
<1>5. \/ run' = run /\ ctx' = ctx
      \/ /\ run[t][r] # "none" /\ ctx' = ctx
         /\ \E v \in {"registered", "over"} : run' = [run EXCEPT ![t][r] = v]
      \/ /\ run[t][r] \in Reading /\ ctx' = ctx
         /\ \E v \in {"persisting", "staged"} : run' = [run EXCEPT ![t][r] = v]
      \/ /\ run[t][r] # "none" /\ ctx' = [ctx EXCEPT ![t][r] = TurnsIn(live)]
         /\ run' = [run EXCEPT ![t][r] = "prepared"]
  <2>1. CASE RegisterTurn(t, r) \/ CancelRun(t, r) \/ RunFails(t, r)
    BY <2>1 DEF RegisterTurn, CancelRun, RunFails
  <2>2. CASE Prepare(t, r)
    BY <2>2 DEF Prepare
  <2>3. CASE PassLastCheck(t, r) \/ StageTurn(t, r)
    BY <2>3 DEF PassLastCheck, StageTurn, Reading
  <2>4. CASE \/ Deadline(t, r)
             \/ \E k \in Attempts :
                  AcceptTurn(t, r, k) \/ FinishAccept(t, r, k) \/ AcceptFails(t, r, k)
    BY <2>4 DEF Deadline, AcceptTurn, FinishAccept, AcceptFails
  <2> QED
    BY <1>1, <2>1, <2>2, <2>3, <2>4
<1>6. ASSUME NEW v \in Runs, run' = [run EXCEPT ![t][r] = v]
      PROVE  \A x \in Turns, y \in Revs :
               run'[x][y] = IF x = t /\ y = r THEN v ELSE run[x][y]
  <2>1. run \in [Turns -> [Revs -> Runs]]
    BY DEF HistoryInv, Inv, TypeOK
  <2> QED
    BY <1>6, <2>1, Set2
<1>7. OneIsOpen' /\ SlotIsTaken' /\ TurnsFollow' /\ EarlierAreSettled'
  <2>1. \A x \in Turns, y \in Revs : run'[x][y] # "none" => run[x][y] # "none"
    BY <1>5, <1>6 DEF Runs, Reading
  <2> QED
    BY <1>2, <2>1, HistoryStill
<1>8. HistoryKnowsConfirmed'
  <2>1. ctx \in [Turns -> [Revs -> SUBSET Turns]] /\ TurnsIn(live) \in SUBSET Turns
    BY TurnsInType DEF HistoryInv, Inv, TypeOK
  <2>2. ctx' = [ctx EXCEPT ![t][r] = TurnsIn(live)] =>
          \A x \in Turns, y \in Revs :
            ctx'[x][y] = IF x = t /\ y = r THEN TurnsIn(live) ELSE ctx[x][y]
    BY <2>1, Set2
  <2>3. \A x \in Turns, y \in Revs : run'[x][y] \in Reading =>
          \/ run[x][y] \in Reading /\ ctx'[x][y] = ctx[x][y]
          \/ ctx'[x][y] = TurnsIn(live)
    BY <1>5, <1>6, <2>2 DEF Runs, Reading
  <2> QED
    BY <1>2, <1>4, <2>3, ReadersKnow
<1> QED
  BY <1>4, <1>7, <1>8

LEMMA SessionHistory ==
  ASSUME HistoryInv, SessionStep
  PROVE  /\ OneIsOpen' /\ SlotIsTaken' /\ TurnsFollow' /\ EarlierAreSettled'
         /\ RecordWasLive' /\ HistoryKnowsConfirmed'
<1>1. UNCHANGED <<phase, accepting, run, ctx>>
  BY DEF SessionStep, TimePasses, PruneSession, DeleteSession, pageVars, brainVars
<1>2. \/ UNCHANGED <<live, faded, record, erased>>
      \/ /\ faded' = faded \cup TurnsIn(live)
         /\ \/ record' = record /\ erased' = erased
            \/ record' = <<>> /\ erased' = erased \cup TurnsIn(record)
  BY DEF SessionStep, TimePasses, PruneSession, DeleteSession, RecordAfterPrune
<1>3. RecordWasLive' /\ faded \subseteq faded'
  BY <1>2 DEF HistoryInv, RecordWasLive, TurnsIn
<1>4. OneIsOpen' /\ SlotIsTaken' /\ TurnsFollow' /\ EarlierAreSettled'
  BY <1>1, HistoryStill
<1>5. HistoryKnowsConfirmed'
  BY <1>1, <1>3, ReadersKnow
<1> QED
  BY <1>3, <1>4, <1>5

LEMMA HistoryInit == Init => HistoryInv
<1> SUFFICES ASSUME Init PROVE HistoryInv
  OBVIOUS
<1>1. Inv
  BY InvInit
<1>2. \A t \in Turns, r \in Revs : phase[t][r] = "none" /\ run[t][r] = "none"
  BY DEF Init
<1>3. OneIsOpen /\ SlotIsTaken /\ EarlierAreSettled /\ HistoryKnowsConfirmed
  BY <1>2 DEF OneIsOpen, SlotIsTaken, EarlierAreSettled, HistoryKnowsConfirmed, Open
<1>4. TurnsFollow
  BY <1>2, BoundsAssumption DEF TurnsFollow, Revs
<1>5. RecordWasLive
  BY DEF Init, RecordWasLive, TurnsIn
<1> QED
  BY <1>1, <1>3, <1>4, <1>5 DEF HistoryInv

(* The page's questions follow one another in every reachable state. *)
THEOREM HistoryInvariance == Spec => []HistoryInv
<1>1. HistoryInv /\ [Next]_vars => HistoryInv'
  <2> SUFFICES ASSUME HistoryInv, [Next]_vars PROVE HistoryInv'
    OBVIOUS
  <2>1. Inv'
    BY InvNext DEF HistoryInv
  <2>2. CASE PageStep
    <3>1. RecordWasLive'
      BY <2>2, PageKeepsStore DEF storeVars, HistoryInv, RecordWasLive, TurnsIn
    <3> QED
      BY <2>1, <2>2, <3>1, PageHistory DEF HistoryInv
  <2>3. CASE BrainStep
    BY <2>1, <2>3, BrainHistory DEF HistoryInv
  <2>4. CASE SessionStep
    BY <2>1, <2>4, SessionHistory DEF HistoryInv
  <2>5. CASE UNCHANGED vars
    <3>1. UNCHANGED <<phase, accepting, run, ctx, faded, live, record, erased>>
      BY <2>5 DEF vars, pageVars, brainVars, storeVars
    <3>2. RecordWasLive'
      BY <3>1 DEF HistoryInv, RecordWasLive, TurnsIn
    <3> QED
      BY <2>1, <3>1, <3>2, HistoryStill, ReadersKnow DEF HistoryInv
  <2> QED
    BY <2>2, <2>3, <2>4, <2>5 DEF Next
<1> QED
  BY <1>1, HistoryInit, PTL DEF Spec

(* A generation's history holds what its page was told is kept. *)
THEOREM ConfirmedIsRead == Spec => []HistoryKnowsConfirmed
<1>1. HistoryInv => HistoryKnowsConfirmed
  BY DEF HistoryInv
<1> QED
  BY <1>1, HistoryInvariance, PTL

=============================================================================
