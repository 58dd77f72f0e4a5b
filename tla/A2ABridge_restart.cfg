SPECIFICATION FairSpec
CONSTANTS
  Workers = {a}
  LastEvent = 1
  MaxAttempts = 2
  MaxAckTries = 2
  MaxErrors = 0
  MaxRestarts = 1
  MaxExpiries = 0
  MaxWriteErrors = 0
  MaxPrunes = 0
  Nobody = nobody
PROPERTIES ReservedReplyRetried
CHECK_DEADLOCK FALSE
