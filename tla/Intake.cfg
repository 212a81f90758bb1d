SPECIFICATION FairSpec
CONSTANTS
  TicksPerHour = 1
  SomePending = 1
  ManyPending = 2
  ManyProcessing = 1
  MaxTickets = 3
  MaxCount = 50
  Counts <- SmallCounts
  BatchSize = 2
  Forms = {4, 5}
  Texts <- SmallTexts
  LLMAnswers <- SmallAnswers
  FormTickets <- SmallForms
  MaxAsked = 2
  MaxFaults = 1
INVARIANT TypeOK
INVARIANT ReportIsExact
INVARIANT OneBatchAtATime
INVARIANT UrgentFirst
INVARIANT SubmittedOnce
PROPERTY SimulationEnds
CHECK_DEADLOCK FALSE
