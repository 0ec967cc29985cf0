SPECIFICATION Spec
CONSTANTS
  MaxObj = 3
  Graphs <- MCGraphs
  MaxRefs = 16
  MaxEdits = 2
  None = None
INVARIANTS
  Restores
  LocksReturned
  GrowsOnlyOnCycles
CHECK_DEADLOCK FALSE
