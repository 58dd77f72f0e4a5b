SPECIFICATION FairSpec
CONSTANTS
  Pages = {1, 2}
  Turns = {1, 2, 3}
  PageOf <- TwoPages
  Personas = {"host", "guide"}
  PersonaOf <- OwnPersona
  MaxRev = 1
  ReceiptKeep = 2
  LiveKeep = 2
  MaxRounds = 2
  MaxSends = 2
  MaxAge = 2
  NoSession = "none"
INVARIANTS OnePersona HistoryKnowsConfirmed
PROPERTIES RecordKept EverySendSettles
CHECK_DEADLOCK FALSE
