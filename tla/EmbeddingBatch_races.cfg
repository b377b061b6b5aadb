SPECIFICATION Spec
CONSTANTS
  i1 = i1
  i2 = i2
  j1 = j1
  b1 = b1
  b2 = b2
  c1 = c1
  c2 = c2
  k1 = k1
  None = None
  Items <- MCItems
  Jobs <- MCJobs
  JobOf <- MCJobOf
  Batches <- MCBatches
  Callbacks <- MCCallbacks
  Cancels <- MCCancels
  MaxAttempts = 1
  MaxWait = 1
  MaxRedisFail = 0
  MaxRestarts = 0
SYMMETRY MCSymmetry
INVARIANTS
  TypeOK
  PendingBacked
  PendingExact
  CancelSticks
PROPERTIES
  CleanupWaitsForCallbacks
CHECK_DEADLOCK FALSE
