---------------------------- MODULE MCObjectLock ----------------------------
EXTENDS ObjectLock

CONSTANTS t1, t2, t3

\* Object 1 is written by t1 alone, object 2 by t2; t3 may not read object 2.
MCUnreadable == {<<t3, 2>>} \intersect (Threads \X Objects)
MCUnwritable == {<<t, o>> \in Threads \X Objects : t # (IF o = 1 THEN t1 ELSE t2)}
=============================================================================
