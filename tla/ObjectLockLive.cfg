CONSTANTS
  t1 = t1
  t2 = t2
  t3 = t3
  NoThread = NoThread
  NoObject = NoObject
  Threads = {t1, t2}
  Objects = {1, 2}
  CntMod = 8
  MaxNest = 2
  Unreadable <- MCUnreadable
  Unwritable <- MCUnwritable
  RdNotify = {2}
  Ordered = TRUE
SPECIFICATION FairSpec
PROPERTIES WriteLockReturns ReadLockReturns
