SPECIFICATION Spec
CONSTANTS
  a1 = a1
  a2 = a2
  b1 = b1
  a = a
  b = b
  Runs <- MCRuns
  Jobs <- MCJobs
  JobOf <- MCJobOf
  Main = Main
  BlockModes <- MCBlockModes
  SlotLimit = 2
  MaxExpired = 0
  MaxFails = 0
  MaxCancels = 0
  None = None
INVARIANT SameJobOnce
CHECK_DEADLOCK FALSE
