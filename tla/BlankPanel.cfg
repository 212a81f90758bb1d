SPECIFICATION Spec
CONSTANTS
  TicksPerHour = 4
  SomePending = 0
  ManyPending = 0
  ManyProcessing = 0
  Jobs = {1}
  Polls = {p1}
  Sla <- OneHour
  MaxAge = 5
  MaxRetries = 0
  MaxFaults = 0
INVARIANT RiskTableShown
CHECK_DEADLOCK FALSE
