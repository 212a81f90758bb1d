SPECIFICATION FairSpec
CONSTANTS
  j1 = j1
  j2 = j2
  w1 = w1
  w2 = w2
  p1 = p1
  p2 = p2
  r1 = r1
  r2 = r2
  NoJob = NoJob
  Jobs = {j1, j2}
  Workers = {w1, w2}
  Pools = {p1}
  Requests = {r1}
  PoolOf <- OnePool
  MaxRetries = 2
  Batched = TRUE
  CrashAt <- SafePoints
  ErrorAt <- SafePoints
  SlowJobs = FALSE
  Shutdowns = FALSE
  MaxFaults = 2
  MaxRetryCalls = 1
  MaxFailures = 10
INVARIANT TypeOK
INVARIANT NothingLost
INVARIANT DeadLetterExact
PROPERTY FollowsPlaces
PROPERTY EventuallySettled
