SPECIFICATION Spec
CONSTANTS
  Workers = {a, b}
  LastEvent = 1
  MaxAttempts = 2
  MaxAckTries = 2
  MaxErrors = 1
  MaxRestarts = 1
  MaxExpiries = 1
  MaxWriteErrors = 1
  MaxPrunes = 1
  Nobody = nobody
SYMMETRY InstancesAlike
INVARIANTS AckedIsQueued CompletedWasDelivered
PROPERTIES TerminalStays SentIsFinal PromiseSpec
CHECK_DEADLOCK FALSE
