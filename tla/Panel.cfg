SPECIFICATION FairSpec
CONSTANTS
  TicksPerHour = 4
  SomePending = 0
  ManyPending = 0
  ManyProcessing = 0
  Jobs = {1}
  Polls = {p1, p2}
  Sla <- OneHour
  MaxAge = 5
  MaxRetries = 1
  MaxFaults = 1
INVARIANT TypeOK
INVARIANT ListsWaitingJobs
PROPERTY ScoreIsFair
PROPERTY UrgentJobsFlagged
PROPERTY PanelCatchesUp
CHECK_DEADLOCK FALSE
