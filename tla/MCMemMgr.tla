----------------------------- MODULE MCMemMgr -----------------------------
(* Instances for TLC: the root holds a, and a holds b where there is a b;   *)
(* n is created by a thread.                                                *)
EXTENDS MemMgr

CONSTANTS root, a, b, n

LinksOf(objs) == [o \in objs |-> CASE o = root -> {a} [] o = a -> {b} \cap objs [] OTHER -> {}]
NewLinks == LinksOf({root, a, n})
OldLinks == LinksOf({root, a, b})
ThreadSymmetry == Permutations(Threads)

\* A deadlocked system does nothing, for ever: with this step TLC's own check for
\* deadlocks shows that a state that is not Deadlocked has a next one.
Stopped == Deadlocked /\ UNCHANGED vars
MCSpec == Init /\ [][Next \/ Stopped]_vars
=============================================================================
