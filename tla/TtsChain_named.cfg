SPECIFICATION FairSpec
CONSTANTS
  Threshold = 1
  CoolDown = 1
  DownFor = 1
  Engines = {"voxcpm", "edge-tts"}
  Edge = "edge-tts"
  Chains <- OneChain
  Named = {"voxcpm"}
  PartnerLists <- Alone
  Requests = {1, 2}
  NodeSeconds = 2
  EdgeSeconds = 1
  HopsSeconds = 2
  MinSeconds = 1
  Ends = {1, 3}
INVARIANTS WithinDeadline EdgeIsTried
PROPERTIES RequestsEnd
