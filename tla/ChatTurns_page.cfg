SPECIFICATION Spec
CONSTANTS
  Pages = {1}
  Turns = {1, 2}
  PageOf <- OnePage
  Personas = {"host"}
  PersonaOf <- SamePersona
  MaxRev = 2
  ReceiptKeep = 1
  LiveKeep = 1
  MaxRounds = 1
  MaxSends = 3
  MaxAge = 0
  NoSession = "none"
INVARIANTS RecordedOnce RecordedIsLatest ConfirmedIsRecorded EffectsOnce ReorderedNeverWins LiveIsTail
PROPERTIES LedgerSpec
CHECK_DEADLOCK FALSE
