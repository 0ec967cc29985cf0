\* Digits of 4 bits and an i64_t of 12: an immediate has three digits, and decimal and
\* hexadecimal texts are within a digit's base.  Karatsuba from three digits on.
CONSTANTS
  SHIFT = 4
  BASE = 16
  WORD = 12
  KARATSUBA_CUTOFF = 2
  ShortLiteral = 4
  MAX_UNICODE = 20
  None = None
  Samples <- MCSamples
  Texts <- MCTexts
SPECIFICATION Spec
INVARIANT Exact
PROPERTY LoopEnds
