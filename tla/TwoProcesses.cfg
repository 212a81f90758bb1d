SPECIFICATION ApartSpec
CONSTANTS
  j1 = j1
  j2 = j2
  w1 = w1
  w2 = w2
  p1 = p1
  p2 = p2
  r1 = r1
  r2 = r2
  NoJob = NoJob
  Jobs = {j1, j2}
  Workers = {w1, w2}
  Pools = {p1, p2}
  Requests = {r1, r2}
  PoolOf <- TwoPools
  MaxRetries = 2
  Batched = FALSE
  CrashAt <- AllPoints
  ErrorAt <- ReportedErrors
  SlowJobs = FALSE
  Shutdowns = TRUE
  MaxFaults = 2
  MaxRetryCalls = 2
  MaxFailures = 10
SYMMETRY Symmetry
INVARIANT Exclusive
INVARIANT RetryBudget
INVARIANT CompletedAtMostOnce
PROPERTY FollowsLifecycle
PROPERTY CompletedIsFinal
