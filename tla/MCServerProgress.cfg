SPECIFICATION MCSpec
CONSTANTS
  p1 = p1
  p2 = p2
  p3 = p3
  NoKey = NoKey
  NoFile = NoFile
  Procs <- MCProcs
  MaxCrashes = 2
  Callers <- MCProcs
  Configs <- MCConfigs
  Slugs <- MCSlugs
  Refs <- MCRefs
  MaxJobs = 3
  MaxFaults = 1
  Scans <- MCProcs
  Limit = 1
  Tickets <- MCTickets
  Keys <- MCProcs
  CandidateLists <- MCCandidateLists
  MaxPending = 2
  MaxColdBuilds = 1
  MaxIndexes = 1
INVARIANTS
  LockSafe
  LimiterSafe
  JobsSafe
  AskSafe
PROPERTIES
  DeadLockRecovered
  LimiterDrains
  ScansKept
  ScansSettle
  QueueDrains
  TicketsSettle
CHECK_DEADLOCK FALSE
