SPECIFICATION MCSpec
CONSTANTS
  root = root
  a = a
  b = b
  n = n
  Objects = {root, a, n}
  Root = root
  Heap = {root, a}
  Links <- NewLinks
  MemMgr = mem_mgr
  Threads = {t1, t2}
  MaxOps = 2
  None = none
INVARIANTS
  TypeOK
  NothingContainedFreed
  NoUnmarkedBehindScanned
  MarksExactWhenUndisturbed
  DeadlocksAreCrossed
SYMMETRY ThreadSymmetry
