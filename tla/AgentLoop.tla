------------------------------ MODULE AgentLoop ------------------------------
(***************************************************************************)
(* One chat turn in Brain: rounds in which the model is asked and the      *)
(* tools it calls are run, until it answers in words.  What has to be read *)
(* is read before or in the first round; the number of rounds, the turn's  *)
(* budget and the caller's leaving end the loop.                           *)
(***************************************************************************)
EXTENDS Naturals

CONSTANTS
  Tools,       \* registered: the three that may have to be called, and others
  MaxRounds,   \* agent_loop_max_rounds
  FollowUps,   \* max_followup_tool_rounds of each reply mode; "fast" has no web tools
  Settings     \* combinations of the chat_* settings: see SettingsType

Modes == DOMAIN FollowUps

(* prefetch, always: chat_prefetch_knowledge_search and _always; force:    *)
(* chat_force_knowledge_search; exclude: the knowledge search is not       *)
(* offered again after the first round (chat_answer_pass_excludes_...).    *)
SettingsType == [prefetch : BOOLEAN, always : BOOLEAN, force : BOOLEAN, exclude : BOOLEAN]

ASSUME AgentLoopAssumption ==
  /\ {"knowledge", "web", "memory"} \subseteq Tools
  /\ MaxRounds \in Nat \ {0}
  /\ FollowUps \in [Modes -> Nat]
  /\ Settings \subseteq SettingsType

(* A turn: its route (no tools at all; tools, but nothing forced; a slash  *)
(* command; an ordinary question), what its decision wants read, its mode, *)
(* and whether the text is listened to sentence by sentence.               *)
Undecided == [knowledge |-> "unsure", web |-> FALSE, memory |-> FALSE]
Decisions == [knowledge : {"yes", "no", "unsure"}, web : BOOLEAN, memory : BOOLEAN]
TurnType == [route : {"direct", "tool", "slash", "ordinary"}, command : Tools,
             decision : Decisions, mode : Modes, listened : BOOLEAN, settings : Settings]
Turns == {t \in TurnType :
            /\ t.route \in {"direct", "tool"} => t.decision = Undecided
            /\ t.route # "slash" => t.command = "knowledge"}

VARIABLES
  turn,
  phase,      \* where the turn stands
  iteration,
  prefetched, \* the knowledge base was read before the first round
  flags,      \* which retries were used, and by how much the answer is put off
  asked,      \* the request under way: the tools it offers, is it streamed, is a call forced
  calls,      \* the tool calls to run
  done,       \* the tools that were run (tool_steps)
  reply,      \* what kind of text the turn ended with
  cancelled,  \* the caller has left
  expired,    \* the turn's budget is used up
  late,       \* requests to the model that began after that
  rounds      \* rounds in which tools the model chose were run

vars == <<turn, phase, iteration, prefetched, flags, asked, calls, done, reply,
          cancelled, expired, late, rounds>>

Phases == {"new", "round", "asking", "reading", "calling", "running",
           "lastRound", "lastAsking", "replied", "failed", "gone"}
Ended == {"replied", "failed", "gone"}
Texts == {"none", "blank", "words", "call"}
NoRequest == [offered |-> {}, streamed |-> FALSE, forced |-> "no"]

TypeOK ==
  /\ turn \in Turns
  /\ phase \in Phases
  /\ iteration \in 0..MaxRounds
  /\ prefetched \in BOOLEAN
  /\ flags \in [hallucination : BOOLEAN, empty : BOOLEAN, later : 0..1]
  /\ asked \in [offered : SUBSET Tools, streamed : BOOLEAN,
                forced : {"no", "any"} \cup Tools]
  /\ calls \subseteq Tools /\ done \subseteq Tools
  /\ reply \in Texts
  /\ cancelled \in BOOLEAN /\ expired \in BOOLEAN
  /\ late \in 0..(MaxRounds + 1) /\ rounds \in 0..MaxRounds

Init ==
  /\ turn \in Turns
  /\ phase = "new"
  /\ iteration = 0
  /\ prefetched = FALSE
  /\ flags = [hallucination |-> FALSE, empty |-> FALSE, later |-> 0]
  /\ asked = NoRequest
  /\ calls = {} /\ done = {}
  /\ reply = "none"
  /\ cancelled = FALSE /\ expired = FALSE
  /\ late = 0 /\ rounds = 0

-----------------------------------------------------------------------------
(* What the turn must read.                                                *)

Offered == IF turn.mode = "fast" THEN Tools \ {"web"} ELSE Tools

(* With "prefetch always" every ordinary turn reads the knowledge base.    *)
Always == turn.route = "ordinary" /\ turn.settings.prefetch /\ turn.settings.always
Knowledge == IF Always THEN "yes" ELSE turn.decision.knowledge
MayForceKnowledge == turn.route = "ordinary" /\ Knowledge # "no"

ForcesWeb    == turn.decision.web /\ "web" \in Offered
ForcesMemory == turn.decision.memory
Planned == {t \in Tools : \/ t = "knowledge" /\ Knowledge = "yes"
                          \/ t = "web" /\ ForcesWeb
                          \/ t = "memory" /\ ForcesMemory}

(* _resolve_forced_first_tool.                                             *)
FirstForced ==
  IF turn.route = "slash" THEN turn.command
  ELSE IF \/ ForcesWeb \/ ForcesMemory
          \/ MayForceKnowledge /\ (turn.settings.force \/ Knowledge = "yes")
       THEN "any" ELSE "no"

Prefetches ==
  /\ turn.settings.prefetch
  /\ FirstForced = "any" /\ MayForceKnowledge /\ Planned = {"knowledge"}

LaterTools ==
  IF FirstForced = "any" /\ turn.settings.exclude THEN Offered \ {"knowledge"} ELSE Offered

(* From this round on the model may only answer; flags.later is the round  *)
(* given back to a model that asked for the knowledge base once more.      *)
AnswerOnly_later(i) == FirstForced = "any" /\ i > 1 + FollowUps[turn.mode] + flags.later
AnswerOnly(i) == FirstForced = "any" /\ i >= 1 + FollowUps[turn.mode] + flags.later

(* _ensure_*: the reads that are added to the calls of a forced round: to  *)
(* none, and to some.                                                      *)
AddedToNone_nothing == {}
AddedToNone == Planned
AddedToSome ==
  Planned \cup IF MayForceKnowledge /\ turn.settings.force THEN {"knowledge"} ELSE {}

-----------------------------------------------------------------------------
(* The rounds.                                                             *)

Stays == UNCHANGED <<turn, cancelled, expired>>

(* raise_if_cancelled.                                                     *)
Left ==
  /\ cancelled
  /\ phase \in {"round", "reading", "calling", "lastRound"}
  /\ phase' = "gone"
  /\ UNCHANGED <<iteration, prefetched, flags, asked, calls, done, reply, late, rounds>>
  /\ Stays

Begin ==
  /\ phase = "new"
  /\ prefetched' = (turn.route # "direct" /\ Prefetches)
  /\ phase' = IF turn.route = "direct" THEN "lastRound"
              ELSE IF Prefetches THEN "reading" ELSE "round"
  /\ calls' = IF prefetched' THEN {"knowledge"} ELSE {}
  /\ UNCHANGED <<iteration, flags, asked, done, reply, late, rounds>>
  /\ Stays

(* Out of rounds, or of time after the first one: a last request without   *)
(* tools (ToolPhaseError).                                                 *)
OutOfRounds == iteration = MaxRounds
TooLate_never == FALSE
TooLate == iteration >= 1 /\ expired
GiveUp ==
  /\ phase = "round"
  /\ OutOfRounds \/ (~cancelled /\ TooLate)
  /\ phase' = "lastRound"
  /\ UNCHANGED <<iteration, prefetched, flags, asked, calls, done, reply, late, rounds>>
  /\ Stays

Asks(offered, streamed, forced) ==
  /\ asked' = [offered |-> offered, streamed |-> streamed, forced |-> forced]
  /\ late' = late + (IF expired THEN 1 ELSE 0)

Ask ==
  /\ phase = "round"
  /\ ~cancelled
  /\ ~OutOfRounds /\ ~TooLate
  /\ LET forced == IF iteration = 0 /\ ~prefetched THEN FirstForced ELSE "no"
     IN Asks(CASE iteration = 0 /\ ~prefetched -> Offered
               [] iteration > 0 /\ AnswerOnly(iteration) -> {}
               [] OTHER -> LaterTools,
             \/ turn.listened /\ forced = "no"
             \/ IF FirstForced = "no" \/ prefetched
                THEN prefetched \/ iteration = 0 ELSE iteration >= 1,
             forced)
  /\ phase' = "asking"
  /\ UNCHANGED <<iteration, prefetched, flags, calls, done, reply, rounds>>
  /\ Stays

(* What a request can come to: calls, some text, or neither.  A stream     *)
(* drops the text beside calls and lets blank text through.                *)
Answers ==
  {a \in [calls : SUBSET Tools, text : Texts] :
     /\ asked.streamed /\ a.calls # {} => a.text = "none"
     /\ a.text = "blank" => asked.streamed /\ a.calls = {}
     /\ a.calls # {} \/ a.text # "none"}

(* The calls of a forced round are completed; others that were not offered *)
(* are dropped.                                                            *)
Completed(a) == IF asked.forced = "any" /\ a.calls = {} THEN AddedToNone ELSE a.calls
Runnable(a) ==
  (Completed(a) \cap asked.offered)
    \cup IF asked.forced = "any" /\ Completed(a) # {} THEN AddedToSome ELSE {}

CallsTools(a) ==
  /\ Runnable(a) # {}
  /\ calls' = Runnable(a)
  /\ phase' = "calling"
  /\ UNCHANGED <<iteration, flags, reply>>

NextRound_same(i) == i
NextRound(i) == i + 1

(* Once more, with a message that says what was wrong.                     *)
Again(newFlags) ==
  /\ phase' = "round"
  /\ iteration' = NextRound(iteration)
  /\ flags' = newFlags
  /\ UNCHANGED <<calls, reply>>

Silent(a) == a.text \in {"none", "blank"}

RetryUnoffered(a) ==
  /\ Runnable(a) = {} /\ Completed(a) # {} /\ Silent(a)
  /\ Again([flags EXCEPT !.later =
       IF /\ prefetched /\ iteration = 0 /\ FirstForced = "any"
          /\ Completed(a) \ asked.offered = {"knowledge"} THEN @ + 1 ELSE @])

InWords(a) == Runnable(a) = {} /\ (Completed(a) = {} \/ ~Silent(a))

RetryHallucinated(a) ==
  /\ InWords(a) /\ a.text = "call" /\ ~flags.hallucination
  /\ Again([flags EXCEPT !.hallucination = TRUE])

RetryEmpty(a) ==
  /\ InWords(a) /\ Silent(a) /\ ~flags.empty
  /\ Again([flags EXCEPT !.empty = TRUE])

Accept(a) ==
  /\ InWords(a)
  /\ a.text = "call" => flags.hallucination
  /\ Silent(a) => flags.empty
  /\ phase' = IF Silent(a) THEN "failed" ELSE "replied"
  /\ reply' = a.text
  /\ UNCHANGED <<iteration, flags, calls>>

Answered ==
  /\ phase = "asking"
  /\ \E a \in Answers :
       CallsTools(a) \/ RetryUnoffered(a) \/ RetryHallucinated(a) \/ RetryEmpty(a) \/ Accept(a)
  /\ asked' = NoRequest
  /\ UNCHANGED <<prefetched, done, late, rounds>>
  /\ Stays

(* Every provider failed, or nothing came back; or the caller was gone     *)
(* when a chunk or the next provider was due.                              *)
AskFails ==
  /\ phase \in {"asking", "lastAsking"}
  /\ \/ phase' = "failed"
     \/ cancelled /\ phase' = "gone"
  /\ UNCHANGED <<iteration, prefetched, flags, asked, calls, done, reply, late, rounds>>
  /\ Stays

(* _append_tool_turns: the tools run, and whatever they return or however  *)
(* they fail is a step of the turn.                                        *)
MayRun_always == TRUE
MayRun == ~cancelled
RunTools ==
  /\ phase \in {"reading", "calling"}
  /\ MayRun
  /\ phase' = "running"
  /\ rounds' = rounds + (IF phase = "calling" THEN 1 ELSE 0)
  /\ UNCHANGED <<iteration, prefetched, flags, asked, calls, done, reply, late>>
  /\ Stays

ToolsDone ==
  /\ phase = "running"
  /\ done' = done \cup calls
  /\ calls' = {}
  /\ phase' = "round"
  /\ iteration' = IF rounds = 0 THEN iteration ELSE NextRound(iteration)
  /\ UNCHANGED <<prefetched, flags, asked, reply, late, rounds>>
  /\ Stays

(* _single_turn: no tools are offered, and words are needed.               *)
LastAsk ==
  /\ phase = "lastRound"
  /\ ~cancelled
  /\ Asks({}, turn.listened, "no")
  /\ phase' = "lastAsking"
  /\ UNCHANGED <<iteration, prefetched, flags, calls, done, reply, rounds>>
  /\ Stays

LastAnswered ==
  /\ phase = "lastAsking"
  /\ \E a \in Answers :
       /\ phase' = IF Silent(a) THEN "failed" ELSE "replied"
       /\ reply' = a.text
  /\ asked' = NoRequest
  /\ UNCHANGED <<iteration, prefetched, flags, calls, done, late, rounds>>
  /\ Stays

(* The caller leaves; the budget ends.                                     *)
Around == UNCHANGED <<turn, phase, iteration, prefetched, flags, asked, calls, done, reply,
                      late, rounds>>
CallerLeaves ==
  phase \notin Ended /\ ~cancelled /\ cancelled' = TRUE /\ UNCHANGED expired /\ Around
BudgetEnds ==
  phase \notin Ended /\ ~expired /\ expired' = TRUE /\ UNCHANGED cancelled /\ Around

Step ==
  \/ Left \/ Begin \/ GiveUp \/ Ask \/ Answered \/ AskFails \/ RunTools \/ ToolsDone
  \/ LastAsk \/ LastAnswered

Next == Step \/ CallerLeaves \/ BudgetEnds

(* The thread of the turn runs, and requests and tools end (they have time *)
(* limits).                                                                *)
Spec     == Init /\ [][Next]_vars
FairSpec == Spec /\ WF_vars(Step)

-----------------------------------------------------------------------------
(* Properties.                                                             *)

(* An ordinary question is not answered before everything its decision     *)
(* wants read was read, whatever the model called, left out or was asked   *)
(* to repeat, and however the loop ended (_ensure_*, prefetch).            *)
ReadBeforeAnswer ==
  phase = "replied" /\ turn.route = "ordinary" => Planned \subseteq done

(* After a forced start the model has its follow-up rounds and no more,    *)
(* the round it is given back included (answer_only_from).                 *)
FewToolRounds == FirstForced = "any" => rounds <= 1 + FollowUps[turn.mode]

(* A turn whose budget is used up asks the model twice more at most: in    *)
(* its first round, and for the answer (_turn_budget_exhausted).           *)
FewLateRequests == late <= 2

(* Once the caller has left, no request and no tool is started             *)
(* (raise_if_cancelled).                                                   *)
StopsWhenCancelled ==
  [][cancelled => phase' \notin ({"asking", "lastAsking", "running"} \ {phase})]_vars

(* Every turn ends (run_agent_loop, execute_generation).                   *)
TurnsEnd == <>(phase \in Ended)
=============================================================================
