CONSTANTS
  Programs <- MCUnnamed
  MaxAsk = 2
SPECIFICATION Spec
INVARIANTS Reraised
