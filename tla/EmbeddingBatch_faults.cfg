SPECIFICATION FairSpec
CONSTANTS
  i1 = i1
  i2 = i2
  j1 = j1
  b1 = b1
  b2 = b2
  c1 = c1
  c2 = c2
  k1 = k1
  None = None
  Items <- MCItems1
  Jobs <- MCJobs
  JobOf <- MCJobOf1
  Batches <- MCBatches1
  Callbacks <- MCCallbacks
  Cancels <- MCCancels
  MaxAttempts = 1
  MaxWait = 1
  MaxRedisFail = 1
  MaxRestarts = 1
INVARIANTS
  DoneImpliesUpserted
  ContextKept
PROPERTIES
  CleanupEnds
CHECK_DEADLOCK FALSE
