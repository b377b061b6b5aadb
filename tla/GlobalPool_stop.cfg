SPECIFICATION Spec
CONSTANTS
  j1 = j1
  j2 = j2
  j3 = j3
  Grace = Grace
  None = None
  Jobs <- MCJobs
  Permits = 1
PROPERTIES
  StopMarksStopped
CHECK_DEADLOCK FALSE
