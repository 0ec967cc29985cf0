CONSTANTS
  v1 = v1
  v2 = v2
  NoValue = NoValue
  Keys = {3, 6, 9, 15}
  Values = {v1, v2}
  AInit = 4
  MaxFull = 66
  Padding = 300
SPECIFICATION Spec
SYMMETRY Symmetry
INVARIANTS LenIsLive
PROPERTIES ImplementsMap ScanVisitsAll
CHECK_DEADLOCK FALSE
