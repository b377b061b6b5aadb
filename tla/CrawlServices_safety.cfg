SPECIFICATION Spec
CONSTANTS
  h1 = h1
  h2 = h2
  h3 = h3
  h4 = h4
  l1 = l1
  w1 = w1
  w2 = w2
  j1 = j1
  j2 = j2
  r1 = r1
  r2 = r2
  r3 = r3
  d1 = d1
  d2 = d2
  d3 = d3
  k1 = k1
  k2 = k2
  k3 = k3
  ja = ja
  jb = jb
  a1 = a1
  a2 = a2
  b1 = b1
  c1 = c1
  c2 = c2
  c3 = c3
  c4 = c4
  f1 = f1
  f2 = f2
  u1 = u1
  None = None
  Main = Main
  ScanItems <- MCItems
  HighItems <- MCHighItems
  ScanWorkers <- MCScanWorkers
  LaneSize = 2
  HighRatio = 1
  MaxOrphans = 1
  StateJobs <- MCStateJobs
  Publishes <- MCPublishes
  Target <- MCTarget
  StateInputs <- MCStateInputs
  BatchSize = 1
  RetryLimit = 1
  Writes <- MCWrites
  DbInputs <- MCDbInputs
  DbWorkers <- MCDbWorkers
  Lane <- MCLane
  DbCapacity = 1
  StatementTries = 2
  Jobs <- MCJobs
  Runs <- MCRuns
  JobOfRun <- MCJobOfRun
  BlockModes <- MCBlockModes
  SlotLimit = 1
  MaxCancels = 1
  Claimers <- MCClaimers
  JobOfClaimer <- MCJobOfClaimer
  Fallbacks <- MCFallbacks
  MaxBrowsers = 3
  Permits = 2
  Attempts = 2
  SyncAfterDownload = TRUE
  MaxCrashes = 1
  Urls <- MCUrls
  CounterKeys <- MCCounterKeys
  MaxClears = 1
  MaxCount = 2
  MaxFails = 1
  MaxExpired = 1
SYMMETRY MCSymmetry
INVARIANTS
  TypeOK
  JoinSound
  OneWorkerPerItem
  LowNotStarved
  NoStrandedState
  QuietIsLatest
  ThrottledIsSent
  LocksMatchRuns
  SlotsBacked
  OverlapsPaidFor
  BrowsersAccounted
  StudyExact
PROPERTIES
  HashMovesOn
  RowMovesOn
  ExecutedOnce
CHECK_DEADLOCK FALSE
