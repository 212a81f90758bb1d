SPECIFICATION Spec
CONSTANTS
  Jobs = {j1, j2, j3}
  MaxRetries = 3
  Step = 3
  BackOff = 1
  Asked <- Levels
  Start = 5
  MaxClock = 9
SYMMETRY JobSymmetry
CHECK_DEADLOCK FALSE
INVARIANT TypeOK
PROPERTY ServesInOrder
PROPERTY RetriedBehindFresh
