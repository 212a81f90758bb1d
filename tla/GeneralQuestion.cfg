SPECIFICATION Spec
CONSTANTS
  MaxRequests = 1
  HistoryLimit = 4
  ContextLimit = 2
  MaxChunks = 1
  MaxClears = 0
  MaxFaults = 0
  Kinds <- GeneralKind
CHECK_DEADLOCK FALSE
INVARIANT GeneralQuestionsAnswered
