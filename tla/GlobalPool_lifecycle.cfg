SPECIFICATION FairSpec
CONSTANTS
  j1 = j1
  j2 = j2
  j3 = j3
  Grace = Grace
  None = None
  Jobs <- MCJobs3
  Permits = 2
INVARIANTS
  TypeOK
  PermitsBalanced
  ServedHasWorkers
  ReadyMeansUp
PROPERTIES
  StartSettles
  IdlePoolStops
