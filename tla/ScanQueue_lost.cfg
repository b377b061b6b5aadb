SPECIFICATION Spec
CONSTANTS
  h1 = h1
  l1 = l1
  w1 = w1
  None = None
  Items <- MCItemPair
  HighItems <- MCHighItem
  Workers <- MCWorker
  Capacity = 1
  HighRatio = 1
  MaxOrphans = 0
INVARIANTS
  NoItemLost
CHECK_DEADLOCK FALSE
