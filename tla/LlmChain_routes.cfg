SPECIFICATION FairSpec
CONSTANTS
  KeyOrder <- TwoKeys
  OpenAt = 2
  ShortCool = 1
  LongCool = 1
  CoolAt = 2
  QuotaSeconds = 2
  TransientSeconds = 1
  Hops = {"gemini", "openai"}
  KeyOf <- HopKeys
  Chains <- ChainOrPool
  Requests = {1, 2}
  Kinds <- ChatAndBatch
  MaxHops = 2
  Budget = 2
  MinHop = 1
  ConnectLimit = 1
  ReadLimit = 2
  WholeLimit = 1
  TotalLimit = 1
INVARIANTS EndsInTime NeverStops
PROPERTIES RecoversOrder
