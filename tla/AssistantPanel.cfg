SPECIFICATION Spec
CONSTANTS
  NULL = NULL
  Older = {0}
  HISTORY_LIMIT = 2
  MaxOps = 4
  MaxInFlight = 2
INVARIANTS
  BusyWithTheTurn
  TranscriptIsItsOwn
  HandledOnce
PROPERTIES
  TurnsEnd
