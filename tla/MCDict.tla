------------------------------- MODULE MCDict -------------------------------
(***************************************************************************)
(* The instance of Dict for TLC.                                           *)
(***************************************************************************)
EXTENDS Dict, TLC

CONSTANTS t1, t2, zero, five, minus, a, b

\* 0 and 5 share the first slot of their chain; -1, masked, starts elsewhere, and is
\* the mark of a deleted entry.
MCHash == zero :> 0 @@ five :> 5 @@ minus :> -1
MCAsSymbol == [k \in Keys |-> IF k = five THEN zero ELSE NoKey]
MCOps == t1 :> {"get", "list", "iter", "init", "store", "set", "del", "default",
                "pop", "clear", "update", "updateSelf"}
         @@ t2 :> {"pop"}
MCOthers == {<<<<five, b>>, <<zero, a>>>>}

\* The table is not followed past two overlapping popItem! calls or a write beside a
\* reader, and only past one deletion of a deleted entry.
Followed == ~overlap /\ recounts <= 1
=============================================================================
