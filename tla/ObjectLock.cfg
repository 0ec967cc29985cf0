CONSTANTS
  t1 = t1
  t2 = t2
  t3 = t3
  NoThread = NoThread
  NoObject = NoObject
  Threads = {t1, t2, t3}
  Objects = {1, 2}
  CntMod = 8
  MaxNest = 2
  Unreadable <- MCUnreadable
  Unwritable = {}
  RdNotify = {2}
  Ordered = FALSE
SPECIFICATION Spec
INVARIANTS TypeOK CountsAreLocks Exclusion
PROPERTY ImplementsRWLock
CHECK_DEADLOCK FALSE
