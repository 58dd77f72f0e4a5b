SPECIFICATION FairSpec
CONSTANTS
  Processes = {"p", "q"}
  Threads = {1, 2}
  ProcessOf <- Apart
  Operations = {"o1", "o2"}
  Bases <- TwoBases
  MaxAttempts = 2
  Budget = 1
  CoolDown = 2
  CallTime = 1
PROPERTIES SharedCircuit
