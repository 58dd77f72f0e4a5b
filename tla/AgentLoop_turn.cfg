SPECIFICATION FairSpec
CONSTANTS
  Tools = {"knowledge", "web", "memory"}
  MaxRounds = 3
  FollowUps <- FastAndStandard
  Settings <- SomeSettings
INVARIANTS ReadBeforeAnswer FewToolRounds FewLateRequests
PROPERTIES StopsWhenCancelled TurnsEnd
CHECK_DEADLOCK FALSE
