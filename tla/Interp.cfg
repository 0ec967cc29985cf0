CONSTANTS
  Programs <- MCPrograms
  MaxAsk = 2
SPECIFICATION Spec
INVARIANTS Agrees NoCorruption RegistersMatch FramesAccounted
PROPERTIES Terminates
