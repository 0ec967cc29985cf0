CONSTANTS
  t1 = t1  t2 = t2  Callers <- MCCallers
  NClasses = 2  PoolUnits = 4  ArenaPools = 2  MaxArenas = 1
  SysBlocks = 1  MaxUnits = 3  MaxLive = 3
  Junk = Junk  Nil = Nil
SPECIFICATION Spec
SYMMETRY MCSymmetry
CHECK_DEADLOCK FALSE
INVARIANTS Disjoint DataIntact BlocksAccounted PoolsLinked
