CONSTANTS
  m1 = m1  m2 = m2  m3 = m3  u1 = u1
  Main1 = m1  MoreMains <- MCMoreMains  UserThreads <- MCUserThreads
  MemMgr = MemMgr  Console = Console
  MaxThreads = 3
  None = None
SPECIFICATION MCSpec
INVARIANTS TypeOK HandedOver FindsItself MainsDistinct HangsKnown
PROPERTIES WaitsForCounted Ends
