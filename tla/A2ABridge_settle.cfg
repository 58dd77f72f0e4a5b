SPECIFICATION FairSpec
CONSTANTS
  Workers = {a, b}
  LastEvent = 1
  MaxAttempts = 2
  MaxAckTries = 2
  MaxErrors = 1
  MaxRestarts = 1
  MaxExpiries = 1
  MaxWriteErrors = 1
  MaxPrunes = 0
  Nobody = nobody
PROPERTIES EventSettles
CHECK_DEADLOCK FALSE
