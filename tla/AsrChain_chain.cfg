SPECIFICATION FairSpec
CONSTANTS
  Threshold = 1
  CoolDown = 2
  DownFor = 1
  Engines = {"breeze", "r2t2"}
  Orders <- OneOrder
  Requests = {1, 2}
  NodeSeconds = 2
  ChainSeconds = 1
  MinSeconds = 1
INVARIANTS WithinDeadline TriedBeforeFailing
PROPERTIES RecoversByItself RequestsEnd
