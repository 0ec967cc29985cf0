------------------------------- MODULE RWLock -------------------------------
(***************************************************************************)
(* What the OBJECT LOCKING section of prothon.h promises: per object, a    *)
(* re-entrant lock that many threads may hold for reading or one thread    *)
(* may hold for writing, and never both at once.  Which calls wait, poll   *)
(* or overtake each other is left to the implementation (ObjectLock).      *)
(***************************************************************************)
EXTENDS Naturals

CONSTANTS Threads, Objects, NoThread

VARIABLES readers,   \* readers[t][o]: how many read locks t holds on o
          writer     \* writer[o]: the thread that may modify o, or NoThread

vars == <<readers, writer>>

Init == /\ readers = [t \in Threads |-> [o \in Objects |-> 0]]
        /\ writer = [o \in Objects |-> NoThread]

Read(t, o) == /\ writer[o] = NoThread
              /\ readers' = [readers EXCEPT ![t][o] = @ + 1]
              /\ UNCHANGED writer

EndRead(t, o) == /\ readers[t][o] > 0
                 /\ readers' = [readers EXCEPT ![t][o] = @ - 1]
                 /\ UNCHANGED writer

Write(t, o) == /\ writer[o] = NoThread
               /\ \A u \in Threads : readers[u][o] = 0
               /\ writer' = [writer EXCEPT ![o] = t]
               /\ UNCHANGED readers

EndWrite(t, o) == /\ writer[o] = t
                  /\ writer' = [writer EXCEPT ![o] = NoThread]
                  /\ UNCHANGED readers

Next == \E t \in Threads, o \in Objects :
          Read(t, o) \/ EndRead(t, o) \/ Write(t, o) \/ EndWrite(t, o)

Spec == Init /\ [][Next]_vars
=============================================================================
