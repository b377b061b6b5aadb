SPECIFICATION Spec
CONSTANTS
  j1 = j1
  j2 = j2
  None = None
  Jobs <- MCJob1
  MaxSeq = 3
  MaxRev = 0
  TaskLimit = 1
  Faults = FALSE
  Inputs <- MCTwoInputs
PROPERTIES
  TerminalProtected
CHECK_DEADLOCK FALSE
