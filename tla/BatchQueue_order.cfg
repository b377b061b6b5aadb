SPECIFICATION FairSpec
CONSTANTS
  j1 = j1
  j2 = j2
  w1 = w1
  w2 = w2
  a1 = a1
  a2 = a2
  a3 = a3
  b1 = b1
  None = None
  Jobs <- MCJob1
  Items <- MCItems3
  JobOf <- MCJobOf3
  Workers <- MCWorkers
  BatchSize = 2
  Capacity = 1
  Ending <- MCJob1
INVARIANTS
  TypeOK
  InOrder
  DrainSound
PROPERTIES
  AnyJobServed
CHECK_DEADLOCK FALSE
