--------------------------- MODULE AgentLoopProofs ---------------------------
(***************************************************************************)
(* The safety properties of AgentLoop, for any tools, settings, modes and  *)
(* number of rounds: Inv is inductive.                                     *)
(***************************************************************************)
EXTENDS AgentLoop, TLAPS

(* A round that begins leaves room for its number; rounds with tools and   *)
(* the round that was given back are different ones.                       *)
RoundsCounted ==
  /\ phase \in {"new", "reading"} => iteration = 0
  /\ phase = "reading" => prefetched
  /\ phase \in {"asking", "calling"} => iteration < MaxRounds
  /\ phase = "running" =>
       IF rounds = 0 THEN prefetched /\ iteration = 0 ELSE iteration < MaxRounds
  /\ rounds + flags.later <= iteration + IF phase = "running" /\ rounds > 0 THEN 1 ELSE 0

(* No tools are run in a round that is for the answer only.                *)
AnswerRounds ==
  /\ phase = "asking" /\ AnswerOnly(iteration) => asked.offered = {} /\ asked.forced = "no"
  /\ phase = "calling" => ~AnswerOnly(iteration)
  /\ FewToolRounds

(* The requests after the end of the budget: the first round's, and the    *)
(* last one.                                                               *)
LateCounted ==
  /\ \/ phase \in {"new", "reading"}
     \/ phase = "round" /\ iteration = 0
     \/ phase = "running" /\ rounds = 0
     => late = 0
  /\ phase \notin {"lastAsking"} \cup Ended => late <= 1
  /\ FewLateRequests

(* Where the reads that were planned stand.                                *)
ReadAhead ==
  turn.route = "ordinary" =>
    \/ phase \in {"new", "failed", "gone"}
    \/ Planned \subseteq done
    \/ phase \in {"reading", "calling", "running"} /\ Planned \subseteq calls
    \/ phase = "round" /\ iteration = 0 /\ ~prefetched /\ FirstForced = "any"
    \/ phase = "asking" /\ asked.forced = "any"

Inv == TypeOK /\ RoundsCounted /\ AnswerRounds /\ LateCounted /\ ReadAhead

-----------------------------------------------------------------------------
(* What the turn must read does not change. *)

LEMMA SameTurn ==
  ASSUME turn' = turn
  PROVE  /\ FirstForced' = FirstForced /\ Planned' = Planned
         /\ Prefetches' = Prefetches /\ LaterTools' = LaterTools /\ Offered' = Offered
BY DEF FirstForced, Planned, Prefetches, LaterTools, Offered, ForcesWeb,
       ForcesMemory, MayForceKnowledge, Knowledge, Always

LEMMA ReadsType ==
  ASSUME TypeOK
  PROVE  /\ FirstForced \in {"no", "any"} \cup Tools
         /\ Planned \subseteq Tools
         /\ Offered \subseteq Tools /\ LaterTools \subseteq Tools
         /\ FollowUps[turn.mode] \in Nat
<1>1. turn \in TurnType
  BY DEF TypeOK, Turns
<1>2. turn.mode \in Modes /\ turn.command \in Tools
  BY <1>1 DEF TurnType
<1>3. FollowUps[turn.mode] \in Nat
  BY <1>2, AgentLoopAssumption
<1>4. Offered \subseteq Tools
  BY DEF Offered
<1>5. QED BY <1>2, <1>3, <1>4 DEF FirstForced, Planned, LaterTools

(* A question whose decision wants something read starts with a forced     *)
(* call, and only the knowledge base is read beforehand.                   *)
LEMMA PlannedIsForced ==
  ASSUME turn.route = "ordinary", Planned # {}
  PROVE  FirstForced = "any"
BY DEF Planned, FirstForced, MayForceKnowledge

LEMMA PrefetchedIsPlanned ==
  ASSUME Prefetches
  PROVE  Planned = {"knowledge"}
BY DEF Prefetches

-----------------------------------------------------------------------------
LEMMA InitInv == Init => Inv
<1>1. SUFFICES ASSUME Init PROVE Inv
  OBVIOUS
<1>2. TypeOK
  <2>1. MaxRounds \in Nat
    BY AgentLoopAssumption
  <2>2. flags \in [hallucination : BOOLEAN, empty : BOOLEAN, later : 0..1]
    BY <1>1 DEF Init
  <2>3. iteration \in 0..MaxRounds /\ late \in 0..(MaxRounds + 1) /\ rounds \in 0..MaxRounds
    BY <1>1, <2>1 DEF Init
  <2>4. asked \in [offered : SUBSET Tools, streamed : BOOLEAN,
                   forced : {"no", "any"} \cup Tools]
    BY <1>1 DEF Init, NoRequest
  <2>5. QED BY <1>1, <2>2, <2>3, <2>4 DEF Init, TypeOK, Phases, Texts
<1>3. FollowUps[turn.mode] \in Nat
  BY <1>2, ReadsType
<1>4. QED
  BY <1>1, <1>2, <1>3
     DEF Init, Inv, RoundsCounted, AnswerRounds, LateCounted, ReadAhead,
         FewToolRounds, FewLateRequests

LEMMA NextInv == Inv /\ [Next]_vars => Inv'
<1> SUFFICES ASSUME Inv, [Next]_vars PROVE Inv'
  OBVIOUS
<1>0. TypeOK /\ RoundsCounted /\ AnswerRounds /\ LateCounted /\ ReadAhead
  BY DEF Inv
<1>a. FollowUps[turn.mode] \in Nat /\ MaxRounds \in Nat \ {0}
  BY <1>0, ReadsType, AgentLoopAssumption
<1>b. late \in Nat /\ (phase \notin {"lastAsking", "replied", "failed", "gone"} => late <= 1)
  BY <1>0 DEF TypeOK, LateCounted, Ended
<1>1. CASE UNCHANGED vars
  <2>1. FirstForced' = FirstForced /\ Planned' = Planned
    BY <1>1, SameTurn DEF vars
  <2>2. TypeOK'
    BY <1>0, <1>1 DEF TypeOK, vars
  <2>3. RoundsCounted' /\ LateCounted' /\ ReadAhead'
    BY <1>0, <1>1, <2>1 DEF vars, RoundsCounted, LateCounted, ReadAhead, FewLateRequests
  <2>4. AnswerRounds'
    BY <1>0, <1>1, <2>1 DEF vars, AnswerRounds, AnswerOnly, FewToolRounds
  <2>5. QED BY <2>2, <2>3, <2>4 DEF Inv
<1>2. CASE Left
  <2>1. FirstForced' = FirstForced /\ Planned' = Planned /\ turn' = turn
    BY <1>2, SameTurn DEF Left, Stays
  <2>2. TypeOK'
    BY <1>0, <1>2 DEF TypeOK, Phases, Left, Stays
  <2>3. RoundsCounted'
    BY <1>0, <1>2 DEF RoundsCounted, Left
  <2>4. AnswerRounds'
    BY <1>0, <1>2, <2>1 DEF AnswerRounds, FewToolRounds, Left
  <2>5. LateCounted'
    BY <1>0, <1>2 DEF LateCounted, FewLateRequests, Ended, Left
  <2>6. ReadAhead'
    BY <1>2 DEF ReadAhead, Left
  <2>7. QED BY <2>2, <2>3, <2>4, <2>5, <2>6 DEF Inv
<1>3. CASE Begin
  <2>1. FirstForced' = FirstForced /\ Planned' = Planned /\ turn' = turn
    BY <1>3, SameTurn DEF Begin, Stays
  <2>2. TypeOK'
    BY <1>0, <1>3, AgentLoopAssumption DEF TypeOK, Phases, Begin, Stays
  <2>3. RoundsCounted'
    BY <1>0, <1>3 DEF RoundsCounted, Begin
  <2>4. AnswerRounds'
    BY <1>0, <1>3, <2>1 DEF AnswerRounds, FewToolRounds, Begin
  <2>5. LateCounted'
    BY <1>0, <1>3 DEF LateCounted, FewLateRequests, Begin
  <2>6. ReadAhead'
    BY <1>0, <1>3, <2>1, PlannedIsForced, PrefetchedIsPlanned
       DEF RoundsCounted, ReadAhead, Begin
  <2>7. QED BY <2>2, <2>3, <2>4, <2>5, <2>6 DEF Inv
<1>4. CASE GiveUp
  <2>1. FirstForced' = FirstForced /\ Planned' = Planned /\ turn' = turn
    BY <1>4, SameTurn DEF GiveUp, Stays
  <2>2. TypeOK'
    BY <1>0, <1>4 DEF TypeOK, Phases, GiveUp, Stays
  <2>3. RoundsCounted'
    BY <1>0, <1>4 DEF RoundsCounted, GiveUp
  <2>4. AnswerRounds'
    BY <1>0, <1>4, <2>1 DEF AnswerRounds, FewToolRounds, GiveUp
  <2>5. LateCounted'
    BY <1>0, <1>4 DEF LateCounted, FewLateRequests, Ended, GiveUp
  <2>6. ReadAhead'
    <3>1. iteration # 0
      <4>1. iteration = MaxRounds \/ iteration >= 1
        BY <1>4 DEF GiveUp, OutOfRounds, TooLate
      <4>2. QED BY <1>a, <4>1
    <3>2. QED BY <1>0, <1>4, <2>1, <3>1 DEF ReadAhead, GiveUp
  <2>7. QED BY <2>2, <2>3, <2>4, <2>5, <2>6 DEF Inv
<1>5. CASE Ask
  <2>1. FirstForced' = FirstForced /\ Planned' = Planned /\ turn' = turn
    BY <1>5, SameTurn DEF Ask, Stays
  <2>2. TypeOK'
    <3>1. late <= 1 /\ late \in Nat
      BY <1>0, <1>5 DEF LateCounted, Ended, Ask, TypeOK
    <3>2. late' \in 0..(MaxRounds + 1)
      BY <1>a, <1>5, <3>1 DEF Ask, Asks
    <3>3. asked' \in [offered : SUBSET Tools, streamed : BOOLEAN,
                     forced : {"no", "any"} \cup Tools]
      BY <1>0, <1>5, ReadsType DEF Ask, Asks
    <3>4. QED BY <1>0, <1>5, <3>2, <3>3 DEF TypeOK, Ask, Stays, Phases
  <2>3. RoundsCounted'
    BY <1>0, <1>a, <1>5 DEF TypeOK, RoundsCounted, Ask, OutOfRounds
  <2>4. AnswerRounds'
    BY <1>0, <1>a, <1>5, <2>1
       DEF TypeOK, AnswerRounds, AnswerOnly, FewToolRounds, Ask, Asks
  <2>5. LateCounted'
    BY <1>0, <1>5 DEF TypeOK, LateCounted, FewLateRequests, Ended, Ask, Asks, TooLate
  <2>6. ReadAhead'
    BY <1>0, <1>5, <2>1 DEF ReadAhead, Ask, Asks
  <2>7. QED BY <2>2, <2>3, <2>4, <2>5, <2>6 DEF Inv
<1>6. CASE Answered
  <2>1. FirstForced' = FirstForced /\ Planned' = Planned /\ turn' = turn
    BY <1>6, SameTurn DEF Answered, Stays
  <2>2. PICK a \in Answers :
          CallsTools(a) \/ RetryUnoffered(a) \/ RetryHallucinated(a) \/ RetryEmpty(a) \/ Accept(a)
    BY <1>6 DEF Answered
  <2>3. /\ phase = "asking" /\ iteration \in Nat /\ iteration < MaxRounds
        /\ rounds \in Nat /\ flags.later \in 0..1 /\ rounds + flags.later <= iteration
        /\ late \in Nat /\ late <= 1
        /\ a.calls \subseteq Tools /\ a.text \in Texts
        /\ UNCHANGED <<turn, prefetched, done, late, rounds, cancelled, expired>>
        /\ asked' = NoRequest
    BY <1>0, <1>6
       DEF TypeOK, RoundsCounted, LateCounted, Ended, Answers, Answered, Stays
  <2>4. Runnable(a) \subseteq Tools
    BY <1>0, <2>3, ReadsType, AgentLoopAssumption
       DEF Runnable, Completed, AddedToNone, AddedToSome
  <2>5. NoRequest \in [offered : SUBSET Tools, streamed : BOOLEAN,
                      forced : {"no", "any"} \cup Tools]
    BY DEF NoRequest
  <2>6. CASE CallsTools(a)
    <3>1. /\ phase' = "calling" /\ calls' = Runnable(a) /\ Runnable(a) # {}
          /\ UNCHANGED <<iteration, flags, reply>>
      BY <2>6 DEF CallsTools
    <3>2. TypeOK'
      BY <1>0, <2>3, <2>4, <2>5, <3>1 DEF TypeOK, Phases
    <3>3. RoundsCounted' /\ LateCounted'
      <4>1. RoundsCounted'
        BY <2>3, <3>1 DEF RoundsCounted
      <4>2. LateCounted'
        BY <2>3, <3>1 DEF LateCounted, FewLateRequests
      <4>3. QED BY <4>1, <4>2
    <3>4. ~AnswerOnly(iteration)
      BY <1>0, <2>3, <3>1 DEF AnswerRounds, Runnable
    <3>5. AnswerRounds'
      BY <1>0, <2>1, <2>3, <3>1, <3>4 DEF AnswerRounds, AnswerOnly, FewToolRounds
    <3>6. asked.forced = "any" => Planned \subseteq Runnable(a)
      BY <3>1 DEF Runnable, AddedToSome
    <3>7. ReadAhead'
      BY <1>0, <2>1, <2>3, <3>1, <3>6 DEF ReadAhead
    <3>8. QED BY <3>2, <3>3, <3>5, <3>7 DEF Inv
  <2>7. ASSUME Runnable(a) = {}
        PROVE  turn.route = "ordinary" => Planned \subseteq done
    BY <1>0, <2>3, <2>7 DEF ReadAhead, Runnable, Completed, AddedToNone, AddedToSome
  <2>8. ASSUME NEW f \in [hallucination : BOOLEAN, empty : BOOLEAN, later : 0..1],
               Again(f), Runnable(a) = {}, f.later # flags.later => iteration = 0 /\ f.later = 1
        PROVE  Inv'
    <3>1. /\ phase' = "round" /\ iteration' = iteration + 1 /\ flags' = f
          /\ UNCHANGED <<calls, reply>>
      BY <2>8 DEF Again, NextRound
    <3>2. TypeOK'
      BY <1>0, <1>a, <2>3, <2>5, <3>1 DEF TypeOK, Phases
    <3>3. RoundsCounted' /\ LateCounted'
      BY <2>3, <3>1 DEF RoundsCounted, LateCounted, FewLateRequests
    <3>4. AnswerRounds'
      BY <1>0, <2>1, <2>3, <3>1 DEF AnswerRounds, FewToolRounds
    <3>5. ReadAhead'
      BY <2>1, <2>3, <2>7, <2>8 DEF ReadAhead
    <3>6. QED BY <3>2, <3>3, <3>4, <3>5 DEF Inv
  <2>9. flags \in [hallucination : BOOLEAN, empty : BOOLEAN, later : 0..1]
    BY <1>0 DEF TypeOK
  <2>10. CASE RetryUnoffered(a)
    <3> DEFINE f == [flags EXCEPT !.later =
         IF /\ prefetched /\ iteration = 0 /\ FirstForced = "any"
            /\ Completed(a) \ asked.offered = {"knowledge"} THEN @ + 1 ELSE @]
    <3>1. Again(f) /\ Runnable(a) = {}
      BY <2>10 DEF RetryUnoffered
    <3>2. iteration = 0 => flags.later = 0
      BY <2>3
    <3>3. f \in [hallucination : BOOLEAN, empty : BOOLEAN, later : 0..1]
      BY <2>9, <3>2
    <3>4. f.later # flags.later => iteration = 0 /\ f.later = 1
      BY <3>2
    <3>5. QED BY <2>8, <3>1, <3>3, <3>4
  <2>11. CASE RetryHallucinated(a)
    <3> DEFINE f == [flags EXCEPT !.hallucination = TRUE]
    <3>1. Again(f) /\ Runnable(a) = {}
      BY <2>11 DEF RetryHallucinated, InWords
    <3>2. f \in [hallucination : BOOLEAN, empty : BOOLEAN, later : 0..1] /\ f.later = flags.later
      BY <2>9
    <3>3. QED BY <2>8, <3>1, <3>2
  <2>12. CASE RetryEmpty(a)
    <3> DEFINE f == [flags EXCEPT !.empty = TRUE]
    <3>1. Again(f) /\ Runnable(a) = {}
      BY <2>12 DEF RetryEmpty, InWords
    <3>2. f \in [hallucination : BOOLEAN, empty : BOOLEAN, later : 0..1] /\ f.later = flags.later
      BY <2>9
    <3>3. QED BY <2>8, <3>1, <3>2
  <2>13. CASE Accept(a)
    <3>1. /\ phase' \in {"failed", "replied"} /\ reply' = a.text /\ Runnable(a) = {}
          /\ UNCHANGED <<iteration, flags, calls>>
      BY <2>13 DEF Accept, InWords
    <3>2. TypeOK'
      BY <1>0, <2>3, <2>5, <3>1 DEF TypeOK, Phases
    <3>3. RoundsCounted' /\ LateCounted'
      BY <2>3, <3>1 DEF RoundsCounted, LateCounted, FewLateRequests
    <3>4. AnswerRounds'
      BY <1>0, <2>1, <2>3, <3>1 DEF AnswerRounds, FewToolRounds
    <3>5. ReadAhead'
      BY <2>1, <2>3, <2>7, <3>1 DEF ReadAhead
    <3>6. QED BY <3>2, <3>3, <3>4, <3>5 DEF Inv
  <2>14. QED BY <2>2, <2>6, <2>10, <2>11, <2>12, <2>13
<1>7. CASE AskFails
  <2>1. FirstForced' = FirstForced /\ Planned' = Planned /\ turn' = turn
    BY <1>7, SameTurn DEF AskFails, Stays
  <2>2. TypeOK'
    BY <1>0, <1>7 DEF TypeOK, Phases, AskFails, Stays
  <2>3. RoundsCounted'
    BY <1>0, <1>7 DEF RoundsCounted, AskFails
  <2>4. AnswerRounds'
    BY <1>0, <1>7, <2>1 DEF AnswerRounds, FewToolRounds, AskFails
  <2>5. LateCounted'
    BY <1>0, <1>7 DEF LateCounted, FewLateRequests, Ended, AskFails
  <2>6. ReadAhead'
    BY <1>7 DEF ReadAhead, AskFails
  <2>7. QED BY <2>2, <2>3, <2>4, <2>5, <2>6 DEF Inv
<1>8. CASE RunTools
  <2>0. /\ rounds \in Nat /\ iteration \in Nat /\ flags.later \in Nat
        /\ rounds + flags.later <= iteration
        /\ phase = "reading" => iteration = 0 /\ rounds = 0
        /\ phase = "calling" => iteration < MaxRounds
    BY <1>0, <1>8 DEF TypeOK, RoundsCounted, RunTools
  <2>1. FirstForced' = FirstForced /\ Planned' = Planned /\ turn' = turn
    BY <1>8, SameTurn DEF RunTools, Stays
  <2>2. TypeOK'
    <3>1. rounds' \in 0..MaxRounds
      BY <1>a, <1>8, <2>0 DEF RunTools
    <3>2. QED BY <1>0, <1>8, <3>1 DEF TypeOK, Phases, RunTools, Stays
  <2>3. RoundsCounted'
    BY <1>0, <1>8, <2>0 DEF RoundsCounted, RunTools
  <2>4. AnswerRounds'
    BY <1>0, <1>a, <1>8, <2>1
       DEF TypeOK, RoundsCounted, AnswerRounds, AnswerOnly, FewToolRounds, RunTools
  <2>5. LateCounted'
    <3>1. late \in Nat /\ late <= 1 /\ (phase = "reading" => late = 0)
      BY <1>0, <1>b, <1>8 DEF LateCounted, RunTools
    <3>2. phase' = "running" /\ late' = late /\ (rounds' = 0 => phase = "reading")
      BY <1>8, <2>0 DEF RunTools
    <3>3. QED BY <3>1, <3>2 DEF LateCounted, FewLateRequests
  <2>6. ReadAhead'
    BY <1>0, <1>8, <2>1 DEF ReadAhead, RunTools
  <2>7. QED BY <2>2, <2>3, <2>4, <2>5, <2>6 DEF Inv
<1>9. CASE ToolsDone
  <2>1. FirstForced' = FirstForced /\ Planned' = Planned /\ turn' = turn
    BY <1>9, SameTurn DEF ToolsDone, Stays
  <2>2. TypeOK'
    BY <1>0, <1>a, <1>9 DEF TypeOK, Phases, RoundsCounted, ToolsDone, Stays, NextRound
  <2>3. RoundsCounted'
    BY <1>0, <1>9 DEF TypeOK, RoundsCounted, ToolsDone, NextRound
  <2>4. AnswerRounds'
    BY <1>0, <1>9, <2>1 DEF AnswerRounds, FewToolRounds, ToolsDone
  <2>5. LateCounted'
    BY <1>0, <1>9 DEF TypeOK, LateCounted, FewLateRequests, Ended, ToolsDone, NextRound
  <2>6. ReadAhead'
    BY <1>0, <1>9, <2>1 DEF ReadAhead, ToolsDone
  <2>7. QED BY <2>2, <2>3, <2>4, <2>5, <2>6 DEF Inv
<1>10. CASE LastAsk
  <2>0. late <= 1 /\ late \in Nat
    BY <1>b, <1>10 DEF LastAsk
  <2>a. late' \in 0..2 /\ phase' = "lastAsking"
    <3>1. late' = late + 1 \/ late' = late + 0
      BY <1>10 DEF LastAsk, Asks
    <3>2. phase' = "lastAsking"
      BY <1>10 DEF LastAsk
    <3>3. QED BY <2>0, <3>1, <3>2
  <2>1. FirstForced' = FirstForced /\ Planned' = Planned /\ turn' = turn
    BY <1>10, SameTurn DEF LastAsk, Stays
  <2>2. TypeOK'
    <3>1. late' \in 0..(MaxRounds + 1)
      BY <1>a, <2>a
    <3>2. asked' \in [offered : SUBSET Tools, streamed : BOOLEAN,
                     forced : {"no", "any"} \cup Tools]
      BY <1>0, <1>10 DEF LastAsk, Asks, TypeOK, Turns, TurnType
    <3>3. QED BY <1>0, <1>10, <3>1, <3>2 DEF TypeOK, LastAsk, Stays, Phases
  <2>3. RoundsCounted'
    BY <1>0, <1>10 DEF RoundsCounted, LastAsk
  <2>4. AnswerRounds'
    BY <1>0, <1>10, <2>1 DEF AnswerRounds, FewToolRounds, LastAsk
  <2>5. LateCounted'
    BY <2>a DEF LateCounted, FewLateRequests
  <2>6. ReadAhead'
    BY <1>0, <1>10, <2>1 DEF ReadAhead, LastAsk
  <2>7. QED BY <2>2, <2>3, <2>4, <2>5, <2>6 DEF Inv
<1>11. CASE LastAnswered
  <2>1. FirstForced' = FirstForced /\ Planned' = Planned /\ turn' = turn
    BY <1>11, SameTurn DEF LastAnswered, Stays
  <2>2. TypeOK'
    BY <1>0, <1>11 DEF TypeOK, Phases, LastAnswered, Stays, Answers, NoRequest
  <2>3. RoundsCounted'
    BY <1>0, <1>11 DEF RoundsCounted, LastAnswered
  <2>4. AnswerRounds'
    BY <1>0, <1>11, <2>1 DEF AnswerRounds, FewToolRounds, LastAnswered
  <2>5. LateCounted'
    BY <1>0, <1>11 DEF LateCounted, FewLateRequests, Ended, LastAnswered
  <2>6. ReadAhead'
    BY <1>0, <1>11, <2>1 DEF ReadAhead, LastAnswered
  <2>7. QED BY <2>2, <2>3, <2>4, <2>5, <2>6 DEF Inv
<1>12. CASE CallerLeaves
  <2>1. FirstForced' = FirstForced /\ Planned' = Planned /\ turn' = turn
    BY <1>12, SameTurn DEF CallerLeaves, Around
  <2>2. TypeOK'
    BY <1>0, <1>12 DEF TypeOK, CallerLeaves, Around
  <2>3. RoundsCounted'
    BY <1>0, <1>12 DEF RoundsCounted, CallerLeaves, Around
  <2>4. AnswerRounds'
    BY <1>0, <1>12, <2>1
       DEF AnswerRounds, AnswerOnly, FewToolRounds, CallerLeaves, Around
  <2>5. LateCounted'
    BY <1>0, <1>12 DEF LateCounted, FewLateRequests, CallerLeaves, Around
  <2>6. ReadAhead'
    BY <1>0, <1>12, <2>1 DEF ReadAhead, CallerLeaves, Around
  <2>7. QED BY <2>2, <2>3, <2>4, <2>5, <2>6 DEF Inv
<1>13. CASE BudgetEnds
  <2>1. FirstForced' = FirstForced /\ Planned' = Planned /\ turn' = turn
    BY <1>13, SameTurn DEF BudgetEnds, Around
  <2>2. TypeOK'
    BY <1>0, <1>13 DEF TypeOK, BudgetEnds, Around
  <2>3. RoundsCounted'
    BY <1>0, <1>13 DEF RoundsCounted, BudgetEnds, Around
  <2>4. AnswerRounds'
    BY <1>0, <1>13, <2>1 DEF AnswerRounds, AnswerOnly, FewToolRounds, BudgetEnds, Around
  <2>5. LateCounted'
    BY <1>0, <1>13 DEF LateCounted, FewLateRequests, BudgetEnds, Around
  <2>6. ReadAhead'
    BY <1>0, <1>13, <2>1 DEF ReadAhead, BudgetEnds, Around
  <2>7. QED BY <2>2, <2>3, <2>4, <2>5, <2>6 DEF Inv
<1>14. QED
  BY <1>1, <1>2, <1>3, <1>4, <1>5, <1>6, <1>7, <1>8, <1>9, <1>10, <1>11, <1>12, <1>13
     DEF Next, Step

-----------------------------------------------------------------------------
(* What is planned stands done or ahead in every reachable state, and the  *)
(* rounds are counted.                                                     *)
THEOREM Invariance == Spec => []Inv
BY InitInv, NextInv, PTL DEF Spec

(* A turn keeps its type, whatever the model answers. *)
THEOREM TypeCorrect == Spec => []TypeOK
<1>1. Inv => TypeOK
  BY DEF Inv
<1>2. QED BY Invariance, <1>1, PTL

(* No ordinary question is answered before what its decision wants read    *)
(* was read.                                                               *)
THEOREM PlannedReadsDone == Spec => []ReadBeforeAnswer
<1>1. Inv => ReadBeforeAnswer
  BY DEF Inv, ReadAhead, ReadBeforeAnswer
<1>2. QED BY Invariance, <1>1, PTL

(* Rounds with tools stay within the follow-ups of the mode. *)
THEOREM ToolRoundsBounded == Spec => []FewToolRounds
<1>1. Inv => FewToolRounds
  BY DEF Inv, AnswerRounds
<1>2. QED BY Invariance, <1>1, PTL

(* After its budget has ended a turn makes two requests at most. *)
THEOREM LateRequestsBounded == Spec => []FewLateRequests
<1>1. Inv => FewLateRequests
  BY DEF Inv, LateCounted
<1>2. QED BY Invariance, <1>1, PTL

(* A turn whose caller has left starts nothing more. *)
THEOREM CancelledStarts == Spec => StopsWhenCancelled
<1>1. [Next]_vars =>
        [cancelled => phase' \notin ({"asking", "lastAsking", "running"} \ {phase})]_vars
  <2> SUFFICES ASSUME Next, cancelled
               PROVE  phase' \notin ({"asking", "lastAsking", "running"} \ {phase})
    OBVIOUS
  <2>1. CASE Answered
    BY <2>1
       DEF Answered, CallsTools, RetryUnoffered, RetryHallucinated, RetryEmpty,
           Accept, Again
  <2>2. CASE ~Answered
    BY <2>2
       DEF Next, Step, Left, Begin, GiveUp, Ask, AskFails, RunTools, ToolsDone,
           LastAsk, LastAnswered, CallerLeaves, BudgetEnds, Around, MayRun
  <2>3. QED BY <2>1, <2>2
<1>2. QED BY <1>1, PTL DEF Spec, StopsWhenCancelled
=============================================================================
