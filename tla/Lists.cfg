SPECIFICATION AllSpec
CONSTANTS
  Item = {1, 2, 3}
  Garbage = Garbage
  None = None
  NotASequence = NotASequence
  Slices <- MCSlices
  Values <- MCValues
  Indices <- MCIndices
  Times <- MCTimes
  MaxLen = 4
  Texts <- MCTexts
  Parts <- MCParts
  ByteStrings <- MCByteStrings
  Behinds <- MCBehinds
  Specs <- MCSpecs
INVARIANTS Exact
CHECK_DEADLOCK FALSE
