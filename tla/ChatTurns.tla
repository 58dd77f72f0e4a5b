----------------------------- MODULE ChatTurns -----------------------------
(***************************************************************************)
(* The mergeable chat turn, end to end: the page that asks, merges a       *)
(* follow-up into the pending question, interrupts and acknowledges; the   *)
(* Brain handlers /chat (or /chat/stream) and /chat/accept; and the        *)
(* SQLite store in which an answer is staged until its page accepts it.    *)
(*                                                                         *)
(* One chat session is modelled, shared by several pages (browser tabs or  *)
(* API integrations).  A turn stands for the key (owner, turn_id) of table *)
(* chat_turns; a send is one /chat request, that is a turn with a          *)
(* revision.  Answers carry no text: what an answer says is its send.      *)
(***************************************************************************)
EXTENDS Integers, Sequences, FiniteSets

CONSTANTS
  Pages,        \* clients that share the session
  Turns,        \* the turns they may start, numbered in the order of creation
  PageOf,       \* the page that owns each turn
  Personas,
  PersonaOf,    \* the persona a page talks to
  MaxRev,       \* bound on turn_revision (1_000_000 in the request schema)
  ReceiptKeep,  \* receipts kept per session: max(2 * max_session_rounds, 20)
  LiveKeep,     \* question/answer pairs kept for the model, same setting
  MaxRounds,    \* max_session_rounds: no new generation past it
  MaxSends,     \* bound on the questions asked in one behaviour
  MaxAge,       \* bound on how far time runs without activity
  NoSession

ASSUME TurnsAssumption ==
  /\ Turns \subseteq Nat
  /\ PageOf \in [Turns -> Pages]
  /\ PersonaOf \in [Pages -> Personas]
  /\ NoSession \notin Personas

ASSUME BoundsAssumption ==
  /\ MaxRev \in Nat \ {0}
  /\ ReceiptKeep \in Nat \ {0}
  /\ LiveKeep \in Nat \ {0}
  /\ MaxRounds \in Nat \ {0}
  /\ MaxSends \in Nat
  /\ MaxAge \in 0..2

VARIABLES
  (* the pages *)
  phase,      \* phase[t][r]: where the coroutine of send (t, r) is
  pending,    \* pending[p]: awaitingReply, the send a follow-up is merged into
  accepting,  \* accepting[p]: acceptingReply, the send being acknowledged
  tries,      \* tries[t][r]: /chat/accept attempts made by acceptReply
  (* Brain's handlers and the network between *)
  run,        \* run[t][r]: where _generate_chat_response is
  answer,     \* answer[t][r]: what the page will read as the outcome of /chat
  ctx,        \* ctx[t][r]: turns in the prior_messages the generation has read
  ack,        \* ack[t][r][k]: the k-th /chat/accept request and its handler
  effects,    \* effects[t]: times journal and memory were written for the turn
  (* sessions.db *)
  session,    \* the session's persona, or NoSession: table sessions
  age,        \* 0: touched just now, 1: over 5 minutes ago, 2: over the TTL ago
  receipt,    \* receipt[t]: the row of table chat_turns
  order,      \* turns with a receipt, in the order of their rowids
  live,       \* table messages, one entry per question/answer pair
  record,     \* table conversation_messages, likewise
  (* history: what the state alone does not tell *)
  faded,      \* turns that left live: window, expiry or deletion
  erased,     \* turns that left record: deletion
  lapsed      \* turns that lost a receipt: bound, expiry or deletion

pageVars  == <<phase, pending, accepting, tries>>
brainVars == <<run, answer, ctx, ack, effects>>
storeVars == <<session, age, receipt, order, live, record, faded, erased,
               lapsed>>
vars      == <<pageVars, brainVars, storeVars>>

-----------------------------------------------------------------------------
Revs     == 1..MaxRev
Sends    == Turns \X Revs
NoSend   == <<>>
Attempts == {1, 2}

Phases   == {"none", "waiting", "asked", "speaking", "accepting",
             "confirmed", "failed", "dropped"}
Runs     == {"none", "sent", "registered", "prepared", "persisting",
             "staged", "over"}
Answers  == {"none", "done", "error"}
Acks     == {"none", "sent", "committed", "ok", "stale", "failed"}

(* A row of chat_turns; revision 0 stands for no row. *)
Receipts == [revision : 0..MaxRev, staged : BOOLEAN, accepted : BOOLEAN]
NoRow    == [revision |-> 0, staged |-> FALSE, accepted |-> FALSE]

PersonaFor(t) == PersonaOf[PageOf[t]]
TurnsIn(seq)  == {seq[i][1] : i \in DOMAIN seq}

(* The newest n elements of a table in rowid order. *)
Newest_kept(seq, n) == IF Len(seq) <= n THEN seq ELSE SubSeq(seq, 1, n)
Newest(seq, n) == IF Len(seq) <= n THEN seq
                  ELSE SubSeq(seq, Len(seq) - n + 1, Len(seq))

TypeOK ==
  /\ phase \in [Turns -> [Revs -> Phases]]
  /\ pending \in [Pages -> Sends \cup {NoSend}]
  /\ accepting \in [Pages -> Sends \cup {NoSend}]
  /\ tries \in [Turns -> [Revs -> 0..2]]
  /\ run \in [Turns -> [Revs -> Runs]]
  /\ answer \in [Turns -> [Revs -> Answers]]
  /\ ctx \in [Turns -> [Revs -> SUBSET Turns]]
  /\ ack \in [Turns -> [Revs -> [Attempts -> Acks]]]
  /\ effects \in [Turns -> Nat]
  /\ session \in Personas \cup {NoSession}
  /\ age \in 0..2
  /\ receipt \in [Turns -> Receipts]
  /\ order \in Seq(Turns)
  /\ live \in Seq(Sends)
  /\ record \in Seq(Sends)
  /\ faded \subseteq Turns
  /\ erased \subseteq Turns
  /\ lapsed \subseteq Turns

Init ==
  /\ phase = [t \in Turns |-> [r \in Revs |-> "none"]]
  /\ pending = [p \in Pages |-> NoSend]
  /\ accepting = [p \in Pages |-> NoSend]
  /\ tries = [t \in Turns |-> [r \in Revs |-> 0]]
  /\ run = [t \in Turns |-> [r \in Revs |-> "none"]]
  /\ answer = [t \in Turns |-> [r \in Revs |-> "none"]]
  /\ ctx = [t \in Turns |-> [r \in Revs |-> {}]]
  /\ ack = [t \in Turns |-> [r \in Revs |-> [k \in Attempts |-> "none"]]]
  /\ effects = [t \in Turns |-> 0]
  /\ session = NoSession
  /\ age = 0
  /\ receipt = [t \in Turns |-> NoRow]
  /\ order = <<>>
  /\ live = <<>>
  /\ record = <<>>
  /\ faded = {}
  /\ erased = {}
  /\ lapsed = {}

-----------------------------------------------------------------------------
(* The page: useAvatarTextTurn, called by useAvatarChat.                   *)

(* cancel(): a coroutine that has not started to acknowledge its answer    *)
(* returns at its next check; one that has goes on.                        *)
Cancelled(p) ==
  [t \in Turns |-> [r \in Revs |->
     IF PageOf[t] = p /\ phase[t][r] \in {"waiting", "asked", "speaking"}
     THEN "dropped" ELSE phase[t][r]]]

MaySend ==
  Cardinality({s \in Sends : phase[s[1]][s[2]] # "none"}) < MaxSends

(* A question asked on its own: a fresh turn_id with revision 1. *)
SendNew(p, t) ==
  /\ MaySend
  /\ PageOf[t] = p
  /\ phase[t][1] = "none"
  /\ \A u \in Turns : PageOf[u] = p /\ u < t => phase[u][1] # "none"
  /\ phase' = [Cancelled(p) EXCEPT ![t][1] = "waiting"]
  /\ pending' = [pending EXCEPT ![p] = <<t, 1>>]
  /\ UNCHANGED <<accepting, tries, brainVars, storeVars>>

(* A follow-up while no word of the answer is out: same turn, next revision. *)
SendMerged(p) ==
  /\ MaySend
  /\ pending[p] # NoSend
  /\ pending[p][2] < MaxRev
  /\ LET t == pending[p][1]
         r == pending[p][2] + 1
     IN /\ phase' = [Cancelled(p) EXCEPT ![t][r] = "waiting"]
        /\ pending' = [pending EXCEPT ![p] = <<t, r>>]
  /\ UNCHANGED <<accepting, tries, brainVars, storeVars>>

Interrupt(p) ==
  /\ \E t \in Turns, r \in Revs :
       PageOf[t] = p /\ phase[t][r] \in {"waiting", "asked", "speaking"}
  /\ phase' = Cancelled(p)
  /\ pending' = [pending EXCEPT ![p] = NoSend]
  /\ UNCHANGED <<accepting, tries, brainVars, storeVars>>

(* The next turn's history must hold the previous accepted turn. *)
MayAsk_eager(p) == TRUE
MayAsk(p) == accepting[p] = NoSend

Ask(t, r) ==
  /\ phase[t][r] = "waiting"
  /\ MayAsk(PageOf[t])
  /\ phase' = [phase EXCEPT ![t][r] = "asked"]
  /\ run' = [run EXCEPT ![t][r] = "sent"]
  /\ UNCHANGED <<pending, accepting, tries, answer, ctx, ack, effects, storeVars>>

(* The first sentence of a streamed answer closes the merge window. *)
HearSentence(t, r) ==
  /\ phase[t][r] = "asked"
  /\ run[t][r] \in {"prepared", "persisting", "staged"}
  /\ phase' = [phase EXCEPT ![t][r] = "speaking"]
  /\ pending' = [pending EXCEPT ![PageOf[t]] = NoSend]
  /\ UNCHANGED <<accepting, tries, brainVars, storeVars>>

(* awaitingReply once a whole answer is in: cleared, never merged into. *)
WindowAfterAnswer(p) == NoSend

ReceiveAnswer(t, r) ==
  /\ phase[t][r] \in {"asked", "speaking"}
  /\ answer[t][r] = "done"
  /\ phase' = [phase EXCEPT ![t][r] = "accepting"]
  /\ pending' = [pending EXCEPT ![PageOf[t]] = WindowAfterAnswer(PageOf[t])]
  /\ accepting' = [accepting EXCEPT ![PageOf[t]] = <<t, r>>]
  /\ tries' = [tries EXCEPT ![t][r] = 1]
  /\ ack' = [ack EXCEPT ![t][r][1] = "sent"]
  /\ UNCHANGED <<run, answer, ctx, effects, storeVars>>

ReceiveError(t, r) ==
  /\ phase[t][r] \in {"asked", "speaking"}
  /\ answer[t][r] = "error"
  /\ phase' = [phase EXCEPT ![t][r] = "failed"]
  /\ pending' = [pending EXCEPT ![PageOf[t]] = NoSend]
  /\ UNCHANGED <<accepting, tries, brainVars, storeVars>>

(* The finally around acceptReply frees the slot whatever came of it. *)
SlotAfterSettle_kept(p) == accepting[p]
SlotAfterSettle(p) == NoSend

(* acceptReply settles: the page has, or has not, a confirmation. *)
Settle(t, r, outcome) ==
  /\ phase' = [phase EXCEPT ![t][r] = outcome]
  /\ accepting' = [accepting EXCEPT ![PageOf[t]] = SlotAfterSettle(PageOf[t])]
  /\ UNCHANGED <<pending, tries, brainVars, storeVars>>

Confirmed(t, r) ==
  /\ phase[t][r] = "accepting"
  /\ ack[t][r][tries[t][r]] = "ok"
  /\ Settle(t, r, "confirmed")

Refused(t, r) ==
  /\ phase[t][r] = "accepting"
  /\ ack[t][r][tries[t][r]] = "stale"
  /\ Settle(t, r, "failed")

(* A 5xx answer, a lost one or a timeout: the second attempt is the last. *)
MayRetry(n) == n < 2

RetryAccept(t, r) ==
  /\ phase[t][r] = "accepting"
  /\ MayRetry(tries[t][r])
  /\ tries' = [tries EXCEPT ![t][r] = @ + 1]
  /\ ack' = [ack EXCEPT ![t][r][tries[t][r] + 1] = "sent"]
  /\ UNCHANGED <<phase, pending, accepting, run, answer, ctx, effects, storeVars>>

GiveUpAccept(t, r) ==
  /\ phase[t][r] = "accepting"
  /\ ~MayRetry(tries[t][r])
  /\ Settle(t, r, "failed")

-----------------------------------------------------------------------------
(* SessionStore: each operation is one transaction under the store's lock. *)

MayUseSession_unbound(t) == TRUE
MayUseSession(t) == session \in {NoSession, PersonaFor(t)}

(* A revision wins only if it is newer and nothing was accepted. *)
Advances_reordered(row, r)  == row.revision = 0 \/ ~row.accepted
Advances(row, r) == row.revision = 0 \/ (r > row.revision /\ ~row.accepted)

OrderWith(t) ==
  Newest(IF receipt[t].revision = 0 THEN Append(order, t) ELSE order, ReceiptKeep)

Elements(seq) == {seq[i] : i \in DOMAIN seq}

(* Deleting rows of chat_turns.                                            *)
DropReceipts(gone) ==
  /\ receipt' = [u \in Turns |-> IF u \in gone THEN NoRow ELSE receipt[u]]
  /\ lapsed' = lapsed \cup (gone \cap Elements(order))

(* register_chat_turn on arrival of the request. *)
RegisterTurn(t, r) ==
  /\ run[t][r] = "sent"
  /\ MayUseSession(t)
  /\ session' = PersonaFor(t)
  /\ age' = 0
  /\ IF Advances(receipt[t], r)
     THEN /\ order' = OrderWith(t)
          /\ receipt' = [u \in Turns |->
               CASE u = t -> [revision |-> r, staged |-> FALSE,
                              accepted |-> receipt[t].accepted]
                 [] u # t /\ u \in Elements(OrderWith(t)) -> receipt[u]
                 [] OTHER -> NoRow]
          /\ lapsed' = lapsed \cup (Elements(order) \ Elements(OrderWith(t)))
          /\ run' = [run EXCEPT ![t][r] = "registered"]
          /\ UNCHANGED answer
     ELSE /\ run' = [run EXCEPT ![t][r] = "over"]
          /\ answer' = [answer EXCEPT ![t][r] = "error"]
          /\ UNCHANGED <<receipt, order, lapsed>>
  /\ UNCHANGED <<pageVars, ctx, ack, effects, live, record, faded, erased>>

(* _prune_expired_sessions_locked deletes the session when it is overdue;  *)
(* its receipts and live messages go with it, the record stays.            *)
Overdue(a) == a = 2 \/ (a = 1 /\ live = <<>>)

(* prepare_generation: limits, then get_or_create_session (which prunes    *)
(* first), then the history the model will see.                            *)
Prepare(t, r) ==
  /\ run[t][r] = "registered"
  /\ MayUseSession(t)
  /\ session # NoSession => age < 2
  /\ Len(live) < MaxRounds
  /\ session' = PersonaFor(t)
  /\ age' = 0
  /\ IF session # NoSession /\ Overdue(age)
     THEN DropReceipts(Turns) /\ order' = <<>>
     ELSE UNCHANGED <<receipt, order, lapsed>>
  /\ ctx' = [ctx EXCEPT ![t][r] = TurnsIn(live)]
  /\ run' = [run EXCEPT ![t][r] = "prepared"]
  /\ UNCHANGED <<pageVars, answer, ack, effects, live, record, faded, erased>>

(* The model has answered and raise_if_cancelled("persist") let it pass.   *)
PassLastCheck(t, r) ==
  /\ run[t][r] = "prepared"
  /\ run' = [run EXCEPT ![t][r] = "persisting"]
  /\ UNCHANGED <<pageVars, answer, ctx, ack, effects, storeVars>>

(* The caller has gone, or the response deadline was answered with 504.    *)
CallerGone(t, r) == phase[t][r] = "dropped" \/ answer[t][r] = "error"

CancelRun(t, r) ==
  /\ run[t][r] \in {"registered", "prepared"}
  /\ CallerGone(t, r)
  /\ run' = [run EXCEPT ![t][r] = "over"]
  /\ UNCHANGED <<pageVars, answer, ctx, ack, effects, storeVars>>

Answer(t, r, outcome) ==
  answer' = [answer EXCEPT ![t][r] = IF @ = "none" THEN outcome ELSE @]

(* The request is lost, refused by a limit or a persona, fails, or Brain   *)
(* restarts under it: the page reads an error or a broken connection.      *)
RunFails(t, r) ==
  /\ run[t][r] \in {"sent", "registered", "prepared", "persisting"}
  /\ run' = [run EXCEPT ![t][r] = "over"]
  /\ Answer(t, r, "error")
  /\ UNCHANGED <<pageVars, ctx, ack, effects, storeVars>>

(* The deadline answers for a run that is still working in its thread.     *)
Deadline(t, r) ==
  /\ run[t][r] \in {"registered", "prepared", "persisting"}
  /\ answer[t][r] = "none"
  /\ Answer(t, r, "error")
  /\ UNCHANGED <<pageVars, run, ctx, ack, effects, storeVars>>

(* stage_chat_turn updates the row of this very revision, or nothing.      *)
MayStage(row, r) == row.revision = r /\ ~row.accepted

StageTurn(t, r) ==
  /\ run[t][r] = "persisting"
  /\ IF MayStage(receipt[t], r)
     THEN /\ receipt' = [receipt EXCEPT ![t].staged = TRUE]
          /\ run' = [run EXCEPT ![t][r] = "staged"]
          /\ Answer(t, r, "done")
     ELSE /\ run' = [run EXCEPT ![t][r] = "over"]
          /\ Answer(t, r, "error")
          /\ UNCHANGED receipt
  /\ UNCHANGED <<pageVars, ctx, ack, effects, session, age, order, live, record,
                 faded, erased, lapsed>>

(* accept_chat_turn: compare, write question and answer, mark accepted, all *)
(* in one transaction; a repeated acknowledgement only reads the payload.   *)
MayAccept_anyRevision(row, r) == row.staged
MayAccept(row, r) == row.revision = r /\ row.staged

IsRepeat_forgotten(row) == FALSE
IsRepeat_staged(row) == row.staged
IsRepeat(row) == row.accepted

CommitTurn(t) ==
  LET saved  == <<t, receipt[t].revision>>   \* the payload's, whatever r says
      pushed == Append(live, saved)
  IN /\ record' = Append(record, saved)
     /\ live' = Newest(pushed, LiveKeep)
     /\ faded' = faded \cup (TurnsIn(pushed) \ TurnsIn(live'))
     /\ receipt' = [receipt EXCEPT ![t].accepted = TRUE]
     /\ session' = PersonaFor(t)
     /\ age' = 0
     /\ UNCHANGED <<order, erased, lapsed>>

AcceptTurn(t, r, k) ==
  /\ ack[t][r][k] = "sent"
  /\ \/ /\ ~MayAccept(receipt[t], r)
        /\ ack' = [ack EXCEPT ![t][r][k] = "stale"]
        /\ UNCHANGED storeVars
     \/ /\ MayAccept(receipt[t], r)
        /\ IsRepeat(receipt[t])
        /\ ack' = [ack EXCEPT ![t][r][k] = "ok"]
        /\ UNCHANGED storeVars
     \/ /\ MayAccept(receipt[t], r)
        /\ ~IsRepeat(receipt[t])
        /\ MayUseSession(t)
        /\ ack' = [ack EXCEPT ![t][r][k] = "committed"]
        /\ CommitTurn(t)
  /\ UNCHANGED <<pageVars, run, answer, ctx, effects>>

(* finalize_generation with the committed ids: journal, memory, then 200.  *)
FinishAccept(t, r, k) ==
  /\ ack[t][r][k] = "committed"
  /\ effects' = [effects EXCEPT ![t] = @ + 1]
  /\ ack' = [ack EXCEPT ![t][r][k] = "ok"]
  /\ UNCHANGED <<pageVars, run, answer, ctx, storeVars>>

(* An exception or a restart after the commit, before the answer.          *)
AcceptFails(t, r, k) ==
  /\ ack[t][r][k] = "committed"
  /\ ack' = [ack EXCEPT ![t][r][k] = "failed"]
  /\ UNCHANGED <<pageVars, run, answer, ctx, effects, storeVars>>

-----------------------------------------------------------------------------
(* The rest of the world acting on the session.                            *)

TimePasses ==
  /\ session # NoSession
  /\ age < MaxAge
  /\ age' = age + 1
  /\ UNCHANGED <<pageVars, brainVars, session, receipt, order, live, record,
                 faded, erased, lapsed>>

(* A request of any other session runs the pruning first.                  *)
RecordAfterPrune_cascades == <<>>
RecordAfterPrune == record

PruneSession ==
  /\ session # NoSession
  /\ Overdue(age)
  /\ session' = NoSession
  /\ age' = 0
  /\ DropReceipts(Turns)
  /\ order' = <<>>
  /\ live' = <<>>
  /\ record' = RecordAfterPrune
  /\ faded' = faded \cup TurnsIn(live)
  /\ UNCHANGED <<pageVars, brainVars, erased>>

(* delete_session, from the administration page.                           *)
DeleteSession ==
  /\ session # NoSession \/ record # <<>>
  /\ session' = NoSession
  /\ age' = 0
  /\ DropReceipts(Turns)
  /\ order' = <<>>
  /\ live' = <<>>
  /\ record' = <<>>
  /\ faded' = faded \cup TurnsIn(live)
  /\ erased' = erased \cup TurnsIn(record)
  /\ UNCHANGED <<pageVars, brainVars>>

-----------------------------------------------------------------------------
PageStep ==
  \/ \E p \in Pages, t \in Turns : SendNew(p, t)
  \/ \E p \in Pages : SendMerged(p) \/ Interrupt(p)
  \/ \E t \in Turns, r \in Revs :
       \/ Ask(t, r) \/ HearSentence(t, r)
       \/ ReceiveAnswer(t, r) \/ ReceiveError(t, r)
       \/ Confirmed(t, r) \/ Refused(t, r)
       \/ RetryAccept(t, r) \/ GiveUpAccept(t, r)

BrainStep ==
  \E t \in Turns, r \in Revs :
    \/ RegisterTurn(t, r) \/ Prepare(t, r) \/ PassLastCheck(t, r)
    \/ CancelRun(t, r) \/ RunFails(t, r) \/ Deadline(t, r) \/ StageTurn(t, r)
    \/ \E k \in Attempts :
         AcceptTurn(t, r, k) \/ FinishAccept(t, r, k) \/ AcceptFails(t, r, k)

SessionStep == TimePasses \/ PruneSession \/ DeleteSession

Next == PageStep \/ BrainStep \/ SessionStep

(* The page's coroutine never waits without a timer or an answer: the two  *)
(* attempts of acceptReply carry AbortSignal.timeout, and /chat is bounded *)
(* by its deadline (or its connection breaks).  The user and the network   *)
(* owe nothing: no fairness for them.                                      *)
PageProgress(t, r) ==
  \/ Ask(t, r) \/ ReceiveAnswer(t, r) \/ ReceiveError(t, r)
  \/ Confirmed(t, r) \/ Refused(t, r) \/ RetryAccept(t, r) \/ GiveUpAccept(t, r)

RunProgress(t, r) == RunFails(t, r) \/ Deadline(t, r) \/ StageTurn(t, r)

Fairness ==
  \A t \in Turns, r \in Revs :
    WF_vars(PageProgress(t, r)) /\ WF_vars(RunProgress(t, r))

Spec     == Init /\ [][Next]_vars
FairSpec == Spec /\ Fairness

-----------------------------------------------------------------------------
(* Properties.                                                             *)

InRecord(t)  == t \in TurnsIn(record)
IsConfirmed(t) == \E r \in Revs : phase[t][r] = "confirmed"

(* A turn is in the record at most once, whatever was retried, reordered,  *)
(* pruned or registered again, and never again after its conversation was  *)
(* deleted (accept_chat_turn with acceptReply's two attempts).             *)
RecordedOnce ==
  /\ \A i, j \in DOMAIN record : record[i][1] = record[j][1] => i = j
  /\ TurnsIn(record) \cap erased = {}

(* What is recorded is the last version of the question its page sent: a   *)
(* merged question never leaves the answer to its shorter form behind.     *)
RecordedIsLatest ==
  \A i \in DOMAIN record : \A s \in Revs :
    s > record[i][2] => phase[record[i][1]][s] = "none"

(* A page that was told its answer is kept can find it in the record until *)
(* someone deletes the conversation, crashes and expiry notwithstanding.   *)
ConfirmedIsRecorded ==
  \A t \in Turns : IsConfirmed(t) => InRecord(t) \/ t \in erased

(* The history a generation reads holds every earlier turn of the page     *)
(* that is, or ever gets, confirmed, unless it left the live window.       *)
HistoryKnowsConfirmed ==
  \A t, u \in Turns, r \in Revs :
    /\ run[t][r] \in {"prepared", "persisting", "staged"}
    /\ PageOf[u] = PageOf[t] /\ u < t
    /\ IsConfirmed(u)
    => u \in ctx[t][r] \cup faded

(* Journal and memory are written at most once for a turn, and only for a  *)
(* turn that was recorded.                                                 *)
EffectsOnce ==
  \A t \in Turns : /\ effects[t] <= 1
                   /\ effects[t] = 1 => InRecord(t) \/ t \in erased

(* A request that arrives late does not take a turn back to an older       *)
(* revision while the turn's receipt is kept (register_chat_turn).         *)
ReorderedNeverWins ==
  \A t \in Turns, r \in Revs :
    run[t][r] \in {"registered", "prepared", "persisting", "staged"}
      => receipt[t].revision >= r \/ t \in lapsed

(* The history shown to the model is the end of the conversation record,   *)
(* though the two tables are pruned by different rules.                    *)
LiveIsTail ==
  live = SubSeq(record, Len(record) - Len(live) + 1, Len(record))

(* All of a session's live history was written under one persona, the one  *)
(* the session is bound to, across expiry and reuse of the session id.     *)
OnePersona ==
  \A i \in DOMAIN live : PersonaFor(live[i][1]) = session

(* The record only grows, except when the conversation is deleted.         *)
RecordKept ==
  [][ \/ \A i \in DOMAIN record : i \in DOMAIN record' /\ record'[i] = record[i]
      \/ TurnsIn(record) \subseteq erased' /\ record' = <<>> ]_vars

(* Every question the page sends gets an outcome: confirmed, an error, or  *)
(* it was interrupted.  In particular the wait for the previous turn's     *)
(* acknowledgement ends.                                                   *)
EverySendSettles ==
  \A t \in Turns, r \in Revs :
    phase[t][r] # "none" ~> phase[t][r] \in {"confirmed", "failed", "dropped"}

(* The protocol implements the ledger it stands for.                       *)
Recorded == [i \in DOMAIN record |-> record[i][1]]
Told     == {t \in Turns : IsConfirmed(t)}
Ledger   == INSTANCE TurnLedger WITH ledger <- Recorded, told <- Told
LedgerSpec == Ledger!Spec
=============================================================================
