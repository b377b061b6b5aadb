SPECIFICATION FairSpec
CONSTANTS
  j1 = j1
  j2 = j2
  w1 = w1
  w2 = w2
  a1 = a1
  a2 = a2
  a3 = a3
  b1 = b1
  None = None
  Jobs <- MCJobs
  Items <- MCItemsTwoJobs
  JobOf <- MCJobOfTwoJobs
  Workers <- MCWorker1
  BatchSize = 2
  Capacity = 1
  Ending <- MCNone
PROPERTIES
  AnyJobServed
CHECK_DEADLOCK FALSE
