SPECIFICATION FairSpec
CONSTANTS
  j1 = j1
  j2 = j2
  None = None
  Jobs <- MCJobs
  MaxSeq = 3
  MaxRev = 1
  TaskLimit = 2
  Faults = TRUE
  Inputs <- MCAllInputs
INVARIANTS
  TypeOK
  NoLostWakeup
  QuietMeansSent
  LogBeforeSend
PROPERTIES
  SentInOrder
  SlotKeepsProgress
  Settles
CHECK_DEADLOCK FALSE
