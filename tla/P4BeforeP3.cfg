SPECIFICATION Spec
CONSTANTS
  Jobs = {j1, j2}
  MaxRetries = 3
  Step = 3
  BackOff = 1
  Asked <- LowLevels
  Start = 5
  MaxClock = 6
CHECK_DEADLOCK FALSE
PROPERTY ServesAsAsked
