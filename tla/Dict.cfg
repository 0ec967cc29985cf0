SPECIFICATION Spec
CONSTANTS
  t1 = t1
  t2 = t2
  Threads = {t1, t2}
  NoThread = NoThread
  zero = zero
  five = five
  minus = minus
  Keys = {zero, five, minus}
  a = a
  b = b
  NoKey = NoKey
  NoValue = NoValue
  Hash <- MCHash
  Unhashable = {mutable}
  AsSymbol <- MCAsSymbol
  Garbage = Garbage
  Others <- MCOthers
  Values = {a}
  Ops <- MCOps
  HashWords = 64
  SizeWords = 64
  InitialSize = 4
  MaxPercentFull = 66
  PadPercent = 150
  MaxSize = 6
  MaxReads = 2
  CntMod = 8
INVARIANTS WriterAlone LenIsLive
 
CHECK_DEADLOCK FALSE
ACTION_CONSTRAINT Followed
