SPECIFICATION Spec
CONSTANTS
  j1 = j1
  j2 = j2
  w1 = w1
  w2 = w2
  p1 = p1
  p2 = p2
  r1 = r1
  r2 = r2
  NoJob = NoJob
  Jobs = {j1}
  Workers = {w1, w2}
  Pools = {p1, p2}
  Requests = {r1}
  PoolOf <- TwoPools
  MaxRetries = 2
  Batched = TRUE
  CrashAt <- OnlyRun
  ErrorAt <- NoPoints
  SlowJobs = FALSE
  Shutdowns = FALSE
  MaxFaults = 1
  MaxRetryCalls = 0
  MaxFailures = 10
PROPERTY CompletedIsFinal
