SPECIFICATION FairSpec
CONSTANTS
  Processes = {"p"}
  Threads = {1, 2, 3}
  ProcessOf <- Together
  Operations = {"o1", "o2"}
  Bases <- TwoBases
  MaxAttempts = 2
  Budget = 1
  CoolDown = 2
  CallTime = 1
INVARIANTS SoleProbe OneFlight
PROPERTIES OperationsEnd
