---------------------------- MODULE MCAttrTable ----------------------------
EXTENDS AttrTable, TLC

CONSTANTS v1, v2

\* Values are stored and compared, nothing else.
Symmetry == Permutations(Values)
=============================================================================
