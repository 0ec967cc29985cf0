----------------------------- MODULE MCThreads -----------------------------
(* Up to three scripts, a thread of a script and the memory manager. *)
EXTENDS Threads

CONSTANTS m1, m2, m3, u1

MCMoreMains == {m2, m3}
MCUserThreads == {u1}

\* With three scripts all are on the command line; with -i the memory manager is
\* disabled.
MCInit ==
  /\ Init
  /\ m3 \in to_start => {m1, m2} \subseteq to_start /\ ~interactive
  /\ interactive => MemMgr \notin to_start

\* A process that hangs or has exited does nothing, for ever: with this step TLC's
\* own check for deadlocks shows that a state which is neither has a next one.
Stopped == (Hangs \/ console = "exited") /\ UNCHANGED vars
MCSpec == MCInit /\ [][Next \/ Stopped]_vars /\ Fairness
=============================================================================
