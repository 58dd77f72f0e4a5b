SPECIFICATION Spec
CONSTANTS
  MaxText = 5
  MaxDelta = 2
  Unstreamed <- OtherReplies
INVARIANTS SentInTime SplitLikeWhole AnswerAddsUp NamesStayWhole CallsAreHeld
CHECK_DEADLOCK FALSE
