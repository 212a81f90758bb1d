SPECIFICATION FairSpec
CONSTANTS
  MaxRequests = 3
  HistoryLimit = 4
  ContextLimit = 2
  MaxChunks = 1
  MaxClears = 1
  MaxFaults = 1
  Kinds <- TicketKinds
INVARIANT TypeOK
INVARIANT HistoryIsTurns
INVARIANT ContextIsTurns
INVARIANT RemembersLastTurn
INVARIANT ShownIsStored
INVARIANT RightBubble
PROPERTY KeepsConversation
PROPERTY EveryAnswerEnds
CHECK_DEADLOCK FALSE
