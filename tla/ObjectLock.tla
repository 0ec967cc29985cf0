----------------------------- MODULE ObjectLock -----------------------------
(***************************************************************************)
(* The per-object read/write lock of lock.c, as several threads run it.    *)
(*                                                                         *)
(* An object carries a spinlock `wrlock`, a count of read locks and a      *)
(* count of waiting writers.  A write lock IS the spinlock, kept after     *)
(* write_lock returns.  A thread remembers its own read locks in its       *)
(* lockstack.  Writers that find readers poll on write_cond, under the     *)
(* one write_mutex of the whole program.                                   *)
(*                                                                         *)
(* One step runs from an acquisition of the spinlock to the point where    *)
(* the code frees it or blocks: nothing in between is visible to a thread  *)
(* that respects the spinlock.  Polls that find nothing changed are        *)
(* stuttering steps.                                                       *)
(***************************************************************************)
EXTENDS Naturals, FiniteSets

CONSTANTS
  Threads,      \* interpreter threads
  Objects,      \* the shared objects, numbered: Ordered callers follow the order
  NoThread,     \* value of a free spinlock or mutex
  NoObject,     \* target of a thread that is in no lock call
  CntMod,       \* counters are bit fields: arithmetic is modulo CntMod (2^7)
  MaxNest,      \* bound: read locks one thread nests on one object
  Unreadable,   \* pairs <<t, o>> with ist->access < obj->rd_access
  Unwritable,   \* pairs <<t, o>> with ist->access < obj->wr_access
  RdNotify,     \* objects with the rd_notify bit
  Ordered       \* TRUE: callers nest read locks in object order, write alone

ASSUME LockAssumption ==
  /\ IsFiniteSet(Threads) /\ NoThread \notin Threads
  /\ NoObject \notin Objects
  /\ MaxNest \in Nat \ {0} /\ CntMod \in Nat
  /\ Cardinality(Threads) * MaxNest < CntMod
  /\ Unreadable \subseteq Threads \X Objects
  /\ Unwritable \subseteq Threads \X Objects
  /\ RdNotify \subseteq Objects
  /\ Ordered \in BOOLEAN

VARIABLES
  wrlock,          \* wrlock[o]: who took the spinlock and kept it past a step
  rdlock_cnt,      \* rdlock_cnt[o]: the 7-bit count of read locks
  wrlock_req_cnt,  \* wrlock_req_cnt[o]: the 7-bit count of waiting writers
  immutable,       \* immutable[o]: locks on o are no-ops or errors
  lockstack,       \* lockstack[t][o]: how often o is in t's lockstack
  write_mutex,     \* the thread in write_mutex, outside timedwait
  pc,              \* where thread t is in a lock call
  target           \* the object of that call

vars == <<wrlock, rdlock_cnt, wrlock_req_cnt, immutable, lockstack,
          write_mutex, pc, target>>

Returned == {"idle", "failed"}   \* no call in progress; "failed": it returned TRUE
Reading == {"read_lock", "read_notified", "read_wait"}
Waiting == {"write_wait", "write_get"}   \* counted in wrlock_req_cnt
Writing == {"write_lock", "write_mutex"} \union Waiting

TypeOK ==
  /\ wrlock \in [Objects -> Threads \union {NoThread}]
  /\ rdlock_cnt \in [Objects -> 0 .. CntMod - 1]
  /\ wrlock_req_cnt \in [Objects -> 0 .. CntMod - 1]
  /\ immutable \in [Objects -> BOOLEAN]
  /\ lockstack \in [Threads -> [Objects -> Nat]]
  /\ write_mutex \in Threads \union {NoThread}
  /\ pc \in [Threads -> Returned \union Reading \union Writing
                          \union {"read_unlock"}]
  /\ target \in [Threads -> Objects \union {NoObject}]
  /\ \A t \in Threads : pc[t] \in Returned <=> target[t] = NoObject

Init ==
  /\ wrlock = [o \in Objects |-> NoThread]
  /\ rdlock_cnt = [o \in Objects |-> 0]
  /\ wrlock_req_cnt = [o \in Objects |-> 0]
  /\ immutable \in [Objects -> BOOLEAN]
  /\ lockstack = [t \in Threads |-> [o \in Objects |-> 0]]
  /\ write_mutex = NoThread
  /\ pc = [t \in Threads |-> "idle"]
  /\ target = [t \in Threads |-> NoObject]

-----------------------------------------------------------------------------
(* Helpers *)

Free(o) == wrlock[o] = NoThread

\* Mutant: read_unlock counts down twice.
DecTwice(cnt, o) == [cnt EXCEPT ![o] = @ - 2]

Inc(cnt, o) == [cnt EXCEPT ![o] = (@ + 1) % CntMod]
Dec(cnt, o) == [cnt EXCEPT ![o] = (@ + CntMod - 1) % CntMod]

\* The thread holds the write lock of o: write_lock has returned FALSE.
Holds(t, o) == wrlock[o] = t /\ ~(pc[t] = "write_mutex" /\ target[t] = o)

HoldsNothing(t) == \A o \in Objects : lockstack[t][o] = 0 /\ wrlock[o] # t

Goto(t, label) == /\ pc' = [pc EXCEPT ![t] = label]
                  /\ UNCHANGED target

Return(t, result) == /\ pc' = [pc EXCEPT ![t] = result]
                     /\ target' = [target EXCEPT ![t] = NoObject]

Call(t, label, o) == /\ pc[t] \in Returned
                     /\ pc' = [pc EXCEPT ![t] = label]
                     /\ target' = [target EXCEPT ![t] = o]
                     /\ UNCHANGED <<wrlock, rdlock_cnt, wrlock_req_cnt, immutable,
                                    lockstack, write_mutex>>

counters == <<rdlock_cnt, wrlock_req_cnt>>

-----------------------------------------------------------------------------
(* read_lock *)

\* clist_push(lockstack, obj); obj->rdlock_cnt++
TakeRead(t, o) ==
  /\ lockstack' = [lockstack EXCEPT ![t][o] = @ + 1]
  /\ rdlock_cnt' = Inc(rdlock_cnt, o)
  /\ UNCHANGED <<wrlock, wrlock_req_cnt, immutable, write_mutex>>

ReadDenied(t) ==
  LET o == target[t] IN
  /\ pc[t] = "read_lock" /\ Free(o)
  /\ <<t, o>> \in Unreadable
  /\ Return(t, "failed")
  /\ UNCHANGED <<wrlock, counters, immutable, lockstack, write_mutex>>

\* The spinlock is freed for the callback and then taken again.
ReadNotify(t) ==
  LET o == target[t] IN
  /\ pc[t] = "read_lock" /\ Free(o)
  /\ <<t, o>> \notin Unreadable
  /\ o \in RdNotify
  /\ Goto(t, "read_notified")
  /\ UNCHANGED <<wrlock, counters, immutable, lockstack, write_mutex>>

\* Mutant: the body of read_lock without get_wrlock.
ReadCheckedNoSpin(t) ==
  LET o == target[t] IN
  \/ pc[t] = "read_lock" /\ <<t, o>> \notin Unreadable /\ o \notin RdNotify
  \/ pc[t] = "read_notified"

\* Past the access check and the notification, with the spinlock.
ReadChecked(t) ==
  LET o == target[t] IN
  /\ \/ pc[t] = "read_lock" /\ <<t, o>> \notin Unreadable /\ o \notin RdNotify
     \/ pc[t] = "read_notified"
  /\ Free(o)

ReadImmutable(t) ==
  /\ ReadChecked(t)
  /\ immutable[target[t]]
  /\ Return(t, "idle")
  /\ UNCHANGED <<wrlock, counters, immutable, lockstack, write_mutex>>

\* Mutant: no exception for a thread that already reads o.
OvertakesNever(t, o) == wrlock_req_cnt[o] = 0

\* Writers wait: a thread that reads o already goes past them.
Overtakes(t, o) == wrlock_req_cnt[o] = 0 \/ lockstack[t][o] > 0

ReadGrant(t) ==
  LET o == target[t] IN
  /\ ReadChecked(t)
  /\ ~immutable[o]
  /\ Overtakes(t, o)
  /\ TakeRead(t, o)
  /\ Return(t, "idle")

ReadDefer(t) ==
  LET o == target[t] IN
  /\ ReadChecked(t)
  /\ ~immutable[o]
  /\ ~Overtakes(t, o)
  /\ Goto(t, "read_wait")
  /\ UNCHANGED <<wrlock, counters, immutable, lockstack, write_mutex>>

\* The poll of the while loop that finds no waiting writer.
ReadResume(t) ==
  LET o == target[t] IN
  /\ pc[t] = "read_wait" /\ Free(o)
  /\ wrlock_req_cnt[o] = 0
  /\ TakeRead(t, o)
  /\ Return(t, "idle")

(* read_lock_try: one attempt, an answer at once *)
ReadLockTry(t, o) ==
  /\ pc[t] \in Returned /\ Free(o)
  /\ <<t, o>> \notin Unreadable
  /\ ~immutable[o]
  /\ wrlock_req_cnt[o] = 0
  /\ TakeRead(t, o)
  /\ UNCHANGED <<pc, target>>

(* read_unlock *)
ReadUnlock(t) ==
  LET o == target[t] IN
  /\ pc[t] = "read_unlock" /\ Free(o)
  /\ \/ /\ immutable[o]
        /\ UNCHANGED <<rdlock_cnt, lockstack>>
     \/ /\ ~immutable[o]
        /\ lockstack[t][o] > 0
        /\ rdlock_cnt' = Dec(rdlock_cnt, o)
        /\ lockstack' = [lockstack EXCEPT ![t][o] = @ - 1]
  /\ Return(t, "idle")
  /\ UNCHANGED <<wrlock, wrlock_req_cnt, immutable, write_mutex>>

-----------------------------------------------------------------------------
(* write_lock *)

WriteRefused(t) ==
  LET o == target[t] IN
  /\ pc[t] = "write_lock" /\ Free(o)
  /\ <<t, o>> \in Unwritable \/ immutable[o]
  /\ Return(t, "failed")
  /\ UNCHANGED <<wrlock, counters, immutable, lockstack, write_mutex>>

WriteChecked(t) ==
  LET o == target[t] IN
  /\ pc[t] = "write_lock" /\ Free(o)
  /\ <<t, o>> \notin Unwritable /\ ~immutable[o]

\* Mutant: the test of rdlock_cnt dropped.
WriteGrantAny(t) ==
  LET o == target[t] IN
  /\ WriteChecked(t)
  /\ wrlock' = [wrlock EXCEPT ![o] = t]
  /\ Return(t, "idle")
  /\ UNCHANGED <<counters, immutable, lockstack, write_mutex>>

\* No readers: the spinlock is kept.  Writers that poll are not considered.
WriteGrant(t) ==
  LET o == target[t] IN
  /\ WriteChecked(t)
  /\ rdlock_cnt[o] = 0
  /\ wrlock' = [wrlock EXCEPT ![o] = t]
  /\ Return(t, "idle")
  /\ UNCHANGED <<counters, immutable, lockstack, write_mutex>>

\* Readers: write_mutex is requested while the spinlock is held.
WriteBlock(t) ==
  LET o == target[t] IN
  /\ WriteChecked(t)
  /\ rdlock_cnt[o] # 0 /\ lockstack[t][o] = 0
  /\ wrlock' = [wrlock EXCEPT ![o] = t]
  /\ Goto(t, "write_mutex")
  /\ UNCHANGED <<counters, immutable, lockstack, write_mutex>>

\* A read lock of the caller's own: an error, which takes the caller's
\* read locks out of the count and leaves them in its lockstack.
WriteUpgrade(t) ==
  LET o == target[t] IN
  /\ WriteChecked(t)
  /\ rdlock_cnt[o] # 0 /\ lockstack[t][o] > 0
  /\ rdlock_cnt' = [rdlock_cnt EXCEPT ![o] = (@ + CntMod - lockstack[t][o]) % CntMod]
  /\ Return(t, "failed")
  /\ UNCHANGED <<wrlock, wrlock_req_cnt, immutable, lockstack, write_mutex>>

\* With write_mutex: register, free the spinlock, and sleep in timedwait,
\* which frees write_mutex.
WriteSleep(t) ==
  LET o == target[t] IN
  /\ pc[t] = "write_mutex" /\ write_mutex = NoThread
  /\ wrlock_req_cnt' = Inc(wrlock_req_cnt, o)
  /\ wrlock' = [wrlock EXCEPT ![o] = NoThread]
  /\ Goto(t, "write_wait")
  /\ UNCHANGED <<rdlock_cnt, immutable, lockstack, write_mutex>>

\* timedwait returns, by broadcast or after PAUSE_MS, with write_mutex.
WriteWake(t) ==
  /\ pc[t] = "write_wait" /\ write_mutex = NoThread
  /\ write_mutex' = t
  /\ Goto(t, "write_get")
  /\ UNCHANGED <<wrlock, counters, immutable, lockstack>>

\* Mutant: the last wrlock_req_cnt-- missing.
WriteRetryKeepsRequest(t) ==
  LET o == target[t] IN
  /\ pc[t] = "write_get" /\ Free(o)
  /\ write_mutex' = NoThread
  /\ \/ /\ rdlock_cnt[o] = 0
        /\ wrlock' = [wrlock EXCEPT ![o] = t]
        /\ Return(t, "idle")
     \/ /\ rdlock_cnt[o] # 0
        /\ UNCHANGED wrlock
        /\ Goto(t, "write_wait")
  /\ UNCHANGED <<counters, immutable, lockstack>>

\* The spinlock is taken again: no readers left, or back to sleep.
WriteRetry(t) ==
  LET o == target[t] IN
  /\ pc[t] = "write_get" /\ Free(o)
  /\ write_mutex' = NoThread
  /\ \/ /\ rdlock_cnt[o] = 0
        /\ wrlock_req_cnt' = Dec(wrlock_req_cnt, o)
        /\ wrlock' = [wrlock EXCEPT ![o] = t]
        /\ Return(t, "idle")
     \/ /\ rdlock_cnt[o] # 0
        /\ UNCHANGED <<wrlock_req_cnt, wrlock>>
        /\ Goto(t, "write_wait")
  /\ UNCHANGED <<rdlock_cnt, immutable, lockstack>>

(* write_lock_try: one attempt, an answer at once *)
WriteLockTry(t, o) ==
  /\ pc[t] \in Returned /\ Free(o)
  /\ <<t, o>> \notin Unwritable /\ ~immutable[o]
  /\ rdlock_cnt[o] = 0 /\ wrlock_req_cnt[o] = 0
  /\ wrlock' = [wrlock EXCEPT ![o] = t]
  /\ UNCHANGED <<counters, immutable, lockstack, write_mutex, pc, target>>

(* write_unlock: returns at once, without unlocking, on an immutable object *)
WriteUnlock(t, o) ==
  /\ pc[t] \in Returned /\ wrlock[o] = t
  /\ wrlock' = IF immutable[o] THEN wrlock ELSE [wrlock EXCEPT ![o] = NoThread]
  /\ UNCHANGED <<counters, immutable, lockstack, write_mutex, pc, target>>

\* set_immutable, clr_immutable
SetImmutable(t, o, b) ==
  /\ pc[t] \in Returned /\ Free(o)
  /\ immutable' = [immutable EXCEPT ![o] = b]
  /\ UNCHANGED <<wrlock, counters, lockstack, write_mutex, pc, target>>

-----------------------------------------------------------------------------
(* The callers.  No caller re-takes a lock it holds for writing (get_wrlock *)
(* would spin on itself), write-locks what it reads, unlocks what it does   *)
(* not hold, or changes the immutable bit of an object others use.          *)

MayRead(t, o) ==
  /\ wrlock[o] # t
  /\ lockstack[t][o] < MaxNest
  /\ Ordered => \A p \in Objects : wrlock[p] # t /\ (lockstack[t][p] > 0 => p <= o)

MayWrite(t, o) ==
  /\ wrlock[o] # t
  /\ lockstack[t][o] = 0
  /\ Ordered => HoldsNothing(t)

Unshared(o) == \A t \in Threads : target[t] # o /\ lockstack[t][o] = 0

CallReadLock(t, o)   == MayRead(t, o) /\ Call(t, "read_lock", o)
CallWriteLock(t, o)  == MayWrite(t, o) /\ Call(t, "write_lock", o)
CallReadUnlock(t, o) == lockstack[t][o] > 0 /\ Call(t, "read_unlock", o)
TryRead(t, o)        == MayRead(t, o) /\ ReadLockTry(t, o)
TryWrite(t, o)       == MayWrite(t, o) /\ WriteLockTry(t, o)
Freeze(t, o, b)      == Unshared(o) /\ SetImmutable(t, o, b)

LockStep(t) ==
  \/ ReadDenied(t) \/ ReadNotify(t) \/ ReadImmutable(t)
  \/ ReadGrant(t) \/ ReadDefer(t) \/ ReadResume(t) \/ ReadUnlock(t)
  \/ WriteRefused(t) \/ WriteGrant(t) \/ WriteBlock(t)
  \/ WriteSleep(t) \/ WriteWake(t) \/ WriteRetry(t)

CallStep(t) == \E o \in Objects :
  \/ CallReadLock(t, o) \/ CallReadUnlock(t, o) \/ TryRead(t, o)
  \/ CallWriteLock(t, o) \/ TryWrite(t, o) \/ WriteUnlock(t, o)
  \/ \E b \in BOOLEAN : Freeze(t, o, b)

Next == \E t \in Threads : LockStep(t) \/ CallStep(t)

Spec == Init /\ [][Next]_vars

\* Fairness: a thread is scheduled, and a poll of a spinlock or mutex that is
\* free again and again finds it free at last; critical sections are finite,
\* so that a thread leaves each level of read nesting and each write lock.
Fairness == \A t \in Threads :
  /\ SF_vars(LockStep(t))
  /\ \A o \in Objects :
       /\ WF_vars(WriteUnlock(t, o))
       /\ \A n \in 1 .. MaxNest :
            SF_vars(CallReadUnlock(t, o) /\ lockstack[t][o] = n)

FairSpec == Spec /\ Fairness

\* Callers that also write-lock an object they read: lock.c answers with an
\* exception, and def_write_lock runs into it under a nested read lock.
CallUpgrade(t, o) == lockstack[t][o] > 0 /\ Call(t, "write_lock", o)

UpgradeNext ==
  \/ Next
  \/ \E t \in Threads : WriteUpgrade(t) \/ \E o \in Objects : CallUpgrade(t, o)

UpgradeSpec == Init /\ [][UpgradeNext]_vars

-----------------------------------------------------------------------------
(* Properties *)

\* The read locks that threads hold on o, one element for each.
ReadLocks(o) == {l \in Threads \X (1 .. MaxNest) : l[2] <= lockstack[l[1]][o]}
Waiters(o) == {t \in Threads : pc[t] \in Waiting /\ target[t] = o}

\* The two counters in the object agree with what the threads did: every read
\* lock is counted once, and every writer that sleeps or polls is counted once
\* (read_lock, read_unlock and write_lock update them in separate sections).
CountsAreLocks == \A o \in Objects :
  /\ rdlock_cnt[o] = Cardinality(ReadLocks(o))
  /\ wrlock_req_cnt[o] = Cardinality(Waiters(o))

\* OBJECT LOCKING: "when it is write-locked there can be no read locks", in
\* any thread, and no one modifies an immutable object.
Exclusion == \A t \in Threads, o \in Objects :
  Holds(t, o) => ~immutable[o] /\ \A u \in Threads : lockstack[u][o] = 0

\* Who may modify o: a thread in write_mutex has the spinlock, and no answer.
Writer == [o \in Objects |->
  IF wrlock[o] # NoThread /\ Holds(wrlock[o], o) THEN wrlock[o] ELSE NoThread]
Abstract == INSTANCE RWLock WITH readers <- lockstack, writer <- Writer

\* Every step is one of the abstract lock's: read_unlock never leaves a writer
\* beside a reader, write_lock never returns while another thread holds o.
ImplementsRWLock == Abstract!Spec

\* OBJECT LOCKING: a suspended write_lock "succeeds" once the readers unlocked.
WriteLockReturns == \A t \in Threads : pc[t] \in Writing ~> pc[t] \in Returned

\* "the suspended read_lock calls can proceed": also past a row of writers.
ReadLockReturns == \A t \in Threads : pc[t] \in Reading ~> pc[t] \in Returned

=============================================================================
