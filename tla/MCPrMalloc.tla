----------------------------- MODULE MCPrMalloc -----------------------------
(* Two threads and three pools of four units, with blocks of one and two    *)
(* units; a pool has four or two blocks.                                    *)
EXTENDS PrMalloc, TLC

CONSTANTS t1, t2
MCCallers == {t1, t2}
MCSymmetry == Permutations(MCCallers)
=============================================================================
