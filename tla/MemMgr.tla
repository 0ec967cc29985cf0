------------------------------ MODULE MemMgr ------------------------------
(***************************************************************************)
(* The memory manager thread (memory_mgr.c): it clears the marks of all    *)
(* objects, marks what the root contains, and frees what is neither marked *)
(* nor delete-locked, while other threads store and remove references.     *)
(*                                                                         *)
(* An object lock is a spinlock, read locks, and requests for writing that *)
(* wait in write_mutex; here no process locks an object twice, so its read *)
(* locks are the set of its readers.  A reference is an attribute, a       *)
(* prototype of an object with attributes, or an item that objList_        *)
(* returns.  A section under object_list_lock or to_be_scanned_list_lock   *)
(* is one step.  The list of objects is a set, walked in any order: an     *)
(* object created during a walk is put before its start and not visited.   *)
(***************************************************************************)
EXTENDS Naturals, FiniteSets, SequencesExt

CONSTANTS
  Objects, Root,  \* Root is OBJ(ROOT_GLOBALS)
  Heap, Links,    \* the objects at the start, and their references
  MemMgr, Threads,
  MaxOps,         \* bound: operations of all threads together
  None

ASSUME MemMgrAssumption ==
  /\ IsFiniteSet(Objects) /\ IsFiniteSet(Threads)
  /\ Heap \subseteq Objects /\ Root \in Heap
  /\ Links \in [Objects -> SUBSET Heap]
  /\ MemMgr \notin Threads /\ None \notin Objects \union Threads \union {MemMgr}
  /\ MaxOps \in Nat

VARIABLES
  obj_list,     \* the objects of the next_obj chain from obj_list_root
  refs,         \* refs[o]: the objects o refers to
  state,        \* obj->state
  scanned,      \* the objects with the scanned bit
  del_locked,   \* the objects with the del_locked bit
  readers,      \* who has read-locked the object: rdlock_cnt and the lockstacks
  wrlock,       \* the spinlock's holder, who also writes the object
  waiting,      \* waiting[p]: where p is in write_lock, when it found readers
  phase, to_be_scanned,
  mm,           \* the memory manager: where it is, its obj, what is left to visit
                \* (of the list, or of the values of obj), and its val
  thr,          \* thr[t]: where t is in a call, its object and parameter
  ops,
  undisturbed   \* history: no thread was in a call since the marks were cleared

heap == <<obj_list, refs, del_locked>>
marks == <<state, scanned>>
locks == <<readers, wrlock, waiting>>
vars == <<heap, marks, locks, phase, to_be_scanned, mm, thr, ops, undisturbed>>

Procs == Threads \union {MemMgr}
Phases == {"clearing", "marking", "deleting"}   \* MM_PHASE_...
Idle == [pc |-> "idle", op |-> None, obj |-> None, val |-> None]

TypeOK ==
  /\ obj_list \subseteq Objects
  /\ refs \in [Objects -> SUBSET Objects]
  /\ state \in [Objects -> {"marked", "unmarked"}]
  /\ scanned \subseteq Objects /\ del_locked \subseteq Objects
  /\ readers \in [Objects -> SUBSET Procs]
  /\ wrlock \in [Objects -> Procs \union {None}]
  /\ waiting \in [Procs -> {"no", "mutex", "cond", "woken"}]
  /\ phase \in Phases
  /\ to_be_scanned \in Seq(Objects) /\ IsInjective(to_be_scanned)
  /\ mm \in [pc : {"clear", "root", "read", "vals", "mark", "pop", "sleep", "sweep"},
             obj : Objects, todo : SUBSET Objects, val : Objects \union {None}]
  /\ thr \in [Threads -> [pc : {"idle", "self", "param", "release", "write", "store", "barrier",
                                "relock", "unlock", "return"},
                          op : {"set", "del", "append", None},
                          obj : Objects \union {None}, val : Objects \union {None}]]
  /\ ops \in 0 .. MaxOps

Init ==
  /\ obj_list = Heap /\ refs = Links
  /\ state = [o \in Objects |-> "marked"]    \* OBJ_STATE_NEW_OR_MARKED is 0
  /\ scanned = {} /\ del_locked = Heap
  /\ readers = [o \in Objects |-> {}] /\ wrlock = [o \in Objects |-> None]
  /\ waiting = [p \in Procs |-> "no"]
  /\ phase = "clearing" /\ to_be_scanned = <<>>
  /\ \E o \in Heap : mm = [pc |-> "clear", obj |-> o, todo |-> Heap \ {o}, val |-> None]
  /\ thr = [t \in Threads |-> Idle]
  /\ ops = 0 /\ undisturbed = TRUE

-----------------------------------------------------------------------------
(* Locks *)

\* The object that p locks next, or unlocks.
Target(p) ==
  IF p = MemMgr THEN IF mm.pc = "mark" THEN mm.val ELSE mm.obj
  ELSE IF thr[p].pc \in {"param", "return"} THEN thr[p].val ELSE thr[p].obj

WantsWrite(p) ==
  IF p = MemMgr THEN mm.pc \in {"clear", "root", "mark"} ELSE thr[p].pc = "write"

\* wrlock_req_cnt, as the processes that it counts.
Requests(o) == {p \in Procs : waiting[p] \in {"cond", "woken"} /\ Target(p) = o}

\* A reader stands back for requests unless it has a read lock already.
CanRead(p, o) == wrlock[o] = None /\ (Requests(o) = {} \/ p \in readers[o])

ReadLock(p, o) ==
  /\ CanRead(p, o)
  /\ readers' = [readers EXCEPT ![o] = @ \union {p}]
  /\ state' = [state EXCEPT ![o] = "marked"]
  /\ UNCHANGED <<wrlock, waiting>>

ReadUnlock(p, o) ==
  /\ wrlock[o] = None
  /\ readers' = [readers EXCEPT ![o] = @ \ {p}]
  /\ UNCHANGED <<wrlock, waiting>>

\* write_lock ends: there are no readers, and write_mutex is left.
CanWrite(p, o) == wrlock[o] = None /\ readers[o] = {} /\ waiting[p] \in {"no", "woken"}
EndWait(p) == waiting' = [waiting EXCEPT ![p] = "no"]

\* write_lock and mm_write_lock find readers: the process requests write_mutex,
\* and keeps the spinlock.
AwaitReaders(p) ==
  LET o == Target(p) IN
  /\ WantsWrite(p) /\ waiting[p] = "no"
  /\ wrlock[o] = None /\ readers[o] # {}
  /\ wrlock' = [wrlock EXCEPT ![o] = p]
  /\ waiting' = [waiting EXCEPT ![p] = "mutex"]
  /\ UNCHANGED <<heap, marks, readers, phase, to_be_scanned, mm, thr, ops, undisturbed>>

MutexFree == \A p \in Procs : waiting[p] # "woken"

\* With write_mutex: the request is counted, the spinlock freed, and the process
\* sleeps in timedwait, without write_mutex.
Sleep(p) ==
  /\ waiting[p] = "mutex" /\ MutexFree
  /\ wrlock' = [wrlock EXCEPT ![Target(p)] = None]
  /\ waiting' = [waiting EXCEPT ![p] = "cond"]
  /\ UNCHANGED <<heap, marks, readers, phase, to_be_scanned, mm, thr, ops, undisturbed>>

\* timedwait returns, by a broadcast or after PAUSE_MS, with write_mutex.
Wake(p) ==
  /\ waiting[p] = "cond" /\ MutexFree
  /\ waiting' = [waiting EXCEPT ![p] = "woken"]
  /\ UNCHANGED <<heap, marks, readers, wrlock, phase, to_be_scanned, mm, thr, ops, undisturbed>>

\* The spinlock is taken again, and there are still readers.
SleepAgain(p) ==
  LET o == Target(p) IN
  /\ waiting[p] = "woken" /\ wrlock[o] = None /\ readers[o] # {}
  /\ waiting' = [waiting EXCEPT ![p] = "cond"]
  /\ UNCHANGED <<heap, marks, readers, wrlock, phase, to_be_scanned, mm, thr, ops, undisturbed>>

LockNext(p) == AwaitReaders(p) \/ Sleep(p) \/ Wake(p) \/ SleepAgain(p)

-----------------------------------------------------------------------------
(* The list of objects, and what the root contains *)

\* mm_write_lock, the two assignments, mm_write_unlock.
Mark(o) ==
  /\ CanWrite(MemMgr, o) /\ EndWait(MemMgr)
  /\ state' = [state EXCEPT ![o] = "marked"]
  /\ scanned' = scanned \union {o}
  /\ UNCHANGED <<readers, wrlock>>

\* Mutant: an object is scanned once for every time it was put on the list.
PushAll(s, o) == Append(s, o)

\* clist_append to the list of objects to scan.  clist_pop_dups takes every
\* entry of the object it pops, so an object counts at its last entry only.
Push(s, o) ==
  IF o \in Range(s) THEN Append(RemoveAt(s, CHOOSE i \in DOMAIN s : s[i] = o), o)
  ELSE Append(s, o)

\* "recursively contained in the root globals container": the root, and what
\* contained objects refer to.
Contained ==
  {o \in Objects : \A S \in SUBSET Objects :
     Root \in S /\ (\A x \in S : refs[x] \subseteq S) => o \in S}

-----------------------------------------------------------------------------
(* Other threads.  set_attr and del_attr write-lock the object.  The call of *)
(* a C function (append!) read-locks the object and its parameter around     *)
(* the function, which unlocks the object, write-locks it for the change,    *)
(* and read-locks it again (def_write_lock and def_write_unlock).            *)

Call(t, op, o, v) ==
  /\ thr[t] = Idle /\ ops < MaxOps
  /\ thr' = [thr EXCEPT ![t] =
       [pc |-> IF op = "append" THEN "self" ELSE "write", op |-> op, obj |-> o, val |-> v]]
  /\ ops' = ops + 1
  /\ undisturbed' = FALSE

Goto(t, pc) ==
  /\ thr' = [thr EXCEPT ![t] = IF pc = "idle" THEN Idle ELSE [@ EXCEPT !.pc = pc]]
  /\ UNCHANGED <<heap, scanned, phase, to_be_scanned, mm, ops, undisturbed>>

\* Mutant: a new object is not delete-locked.
NewObjectUnlocked(v) ==
  /\ v \notin obj_list
  /\ obj_list' = obj_list \union {v}
  /\ UNCHANGED <<refs, del_locked>>

\* new_object: into the list, delete-locked.
NewObject(v) ==
  /\ v \notin obj_list
  /\ obj_list' = obj_list \union {v}
  /\ del_locked' = del_locked \union {v}
  /\ UNCHANGED refs

\* set_attr with a value found in some container, del_attr, or append! with a
\* parameter, which may be the list itself.
CallExisting(t, op, o, v) ==
  /\ {o, v} \subseteq Contained
  /\ op = "del" => v \in refs[o]
  /\ Call(t, op, o, v)
  /\ UNCHANGED <<heap, marks, locks, phase, to_be_scanned, mm>>

CallNew(t, o, v) ==
  /\ o \in Contained
  /\ NewObject(v)
  /\ Call(t, "set", o, v)
  /\ UNCHANGED <<marks, locks, phase, to_be_scanned, mm>>

\* pre_call_lock; a parameter that is the object itself is not locked again.
LockSelf(t) ==
  /\ thr[t].pc = "self"
  /\ ReadLock(t, thr[t].obj)
  /\ Goto(t, IF thr[t].val = thr[t].obj THEN "release" ELSE "param")

LockParam(t) ==
  /\ thr[t].pc = "param"
  /\ ReadLock(t, thr[t].val)
  /\ Goto(t, "release")

\* def_write_lock
Release(t) ==
  /\ thr[t].pc = "release"
  /\ ReadUnlock(t, thr[t].obj)
  /\ Goto(t, "write")
  /\ UNCHANGED state

WriteLock(t) ==
  LET o == thr[t].obj IN
  /\ thr[t].pc = "write"
  /\ CanWrite(t, o) /\ EndWait(t)
  /\ wrlock' = [wrlock EXCEPT ![o] = t]
  /\ Goto(t, "store")
  /\ UNCHANGED <<state, readers>>

AfterUnlock(t) == IF thr[t].op = "append" THEN "relock" ELSE "idle"

Stored(t) ==
  [refs EXCEPT ![thr[t].obj] =
     IF thr[t].op = "del" THEN @ \ {thr[t].val} ELSE @ \union {thr[t].val}]

\* Mutant: write_unlock does not put the object back on the list.
StoreNoBarrier(t) ==
  LET o == thr[t].obj IN
  /\ thr[t].pc = "store"
  /\ refs' = Stored(t)
  /\ state' = [state EXCEPT ![o] = "marked"]
  /\ thr' = [thr EXCEPT ![t] = IF @.op = "append" THEN [@ EXCEPT !.pc = "relock"] ELSE Idle]
  /\ wrlock' = [wrlock EXCEPT ![o] = None]
  /\ UNCHANGED <<scanned, obj_list, del_locked, readers, waiting>>
  /\ UNCHANGED <<phase, to_be_scanned, mm, ops, undisturbed>>

\* The change, and write_unlock up to its test of the phase, which no lock
\* protects: an object already scanned is to be scanned again.
Store(t) ==
  LET o == thr[t].obj
      again == phase = "marking" /\ o \in scanned
      next == IF again THEN "barrier" ELSE AfterUnlock(t)
  IN
  /\ thr[t].pc = "store"
  /\ refs' = Stored(t)
  /\ state' = [state EXCEPT ![o] = "marked"]
  /\ scanned' = IF again THEN scanned \ {o} ELSE scanned
  /\ thr' = [thr EXCEPT ![t] = IF next = "idle" THEN Idle ELSE [@ EXCEPT !.pc = next]]
  /\ wrlock' = IF again THEN wrlock ELSE [wrlock EXCEPT ![o] = None]
  /\ UNCHANGED <<obj_list, del_locked, readers, waiting>>
  /\ UNCHANGED <<phase, to_be_scanned, mm, ops, undisturbed>>

\* The rest of write_unlock: under the list's lock the phase is tested again.
Barrier(t) ==
  LET o == thr[t].obj IN
  /\ thr[t].pc = "barrier"
  /\ to_be_scanned' = IF phase = "marking" THEN Push(to_be_scanned, o) ELSE to_be_scanned
  /\ wrlock' = [wrlock EXCEPT ![o] = None]
  /\ thr' = [thr EXCEPT ![t] = IF @.op = "append" THEN [@ EXCEPT !.pc = "relock"] ELSE Idle]
  /\ UNCHANGED <<heap, marks, readers, waiting, phase, mm, ops, undisturbed>>

Relock(t) ==
  /\ thr[t].pc = "relock"
  /\ ReadLock(t, thr[t].obj)
  /\ Goto(t, "unlock")

\* post_call_unlock
UnlockSelf(t) ==
  /\ thr[t].pc = "unlock"
  /\ ReadUnlock(t, thr[t].obj)
  /\ Goto(t, IF thr[t].val = thr[t].obj THEN "idle" ELSE "return")
  /\ UNCHANGED state

Return(t) ==
  /\ thr[t].pc = "return"
  /\ ReadUnlock(t, thr[t].val)
  /\ Goto(t, "idle")
  /\ UNCHANGED state

-----------------------------------------------------------------------------
(* The memory manager *)

\* One object of the walk that clears the marks, and the step to the next one.
Clear ==
  /\ mm.pc = "clear"
  /\ CanWrite(MemMgr, mm.obj) /\ EndWait(MemMgr)
  /\ state' = [state EXCEPT ![mm.obj] = "unmarked"]
  /\ scanned' = scanned \ {mm.obj}
  /\ \/ \E o \in mm.todo : /\ mm' = [mm EXCEPT !.obj = o, !.todo = @ \ {o}]
                           /\ UNCHANGED phase
     \/ /\ mm.todo = {}
        /\ mm' = [mm EXCEPT !.pc = "root", !.obj = Root]
        /\ phase' = "marking"
  /\ UNCHANGED <<heap, readers, wrlock, to_be_scanned, thr, ops, undisturbed>>

MarkRoot ==
  /\ mm.pc = "root"
  /\ Mark(Root)
  /\ mm' = [mm EXCEPT !.pc = "read"]
  /\ UNCHANGED <<heap, phase, to_be_scanned, thr, ops, undisturbed>>

ScanObject ==
  /\ mm.pc = "read"
  /\ ReadLock(MemMgr, mm.obj)
  /\ mm' = [mm EXCEPT !.pc = "vals", !.todo = refs[mm.obj] \ {mm.obj}]
  /\ UNCHANGED <<heap, scanned, phase, to_be_scanned, thr, ops, undisturbed>>

\* The scanned bit of a value is tested without its lock.
TestValue(v) ==
  /\ mm.pc = "vals" /\ v \in mm.todo
  /\ mm' = IF v \in scanned THEN [mm EXCEPT !.todo = @ \ {v}]
           ELSE [mm EXCEPT !.pc = "mark", !.val = v]
  /\ UNCHANGED <<heap, marks, locks, phase, to_be_scanned, thr, ops, undisturbed>>

\* Mutant: the value is marked and not put on the list.
MarkValueOnly ==
  /\ mm.pc = "mark"
  /\ Mark(mm.val)
  /\ mm' = [mm EXCEPT !.pc = "vals", !.todo = @ \ {mm.val}, !.val = None]
  /\ UNCHANGED <<to_be_scanned, heap, phase, thr, ops, undisturbed>>

MarkValue ==
  /\ mm.pc = "mark"
  /\ Mark(mm.val)
  /\ to_be_scanned' = Push(to_be_scanned, mm.val)
  /\ mm' = [mm EXCEPT !.pc = "vals", !.todo = @ \ {mm.val}, !.val = None]
  /\ UNCHANGED <<heap, phase, thr, ops, undisturbed>>

\* Mutant: the object stays read-locked.
ScanDoneKeepsLock ==
  /\ mm.pc = "vals" /\ mm.todo = {}
  /\ mm' = [mm EXCEPT !.pc = "pop"]
  /\ UNCHANGED <<heap, marks, locks, phase, to_be_scanned, thr, ops, undisturbed>>

ScanDone ==
  /\ mm.pc = "vals" /\ mm.todo = {}
  /\ ReadUnlock(MemMgr, mm.obj)
  /\ mm' = [mm EXCEPT !.pc = "pop"]
  /\ UNCHANGED <<heap, marks, phase, to_be_scanned, thr, ops, undisturbed>>

\* clist_pop_dups, or clist_pop when a second look at the list, a millisecond
\* after it was found empty, finds an object there.
Pop ==
  /\ mm.pc \in {"pop", "sleep"} /\ to_be_scanned # <<>>
  /\ mm' = [mm EXCEPT !.pc = "read", !.obj = Last(to_be_scanned)]
  /\ to_be_scanned' = Front(to_be_scanned)
  /\ UNCHANGED <<heap, marks, locks, phase, thr, ops, undisturbed>>

ListEmpty ==
  /\ mm.pc = "pop" /\ to_be_scanned = <<>>
  /\ mm' = [mm EXCEPT !.pc = "sleep"]
  /\ UNCHANGED <<heap, marks, locks, phase, to_be_scanned, thr, ops, undisturbed>>

EndMarking ==
  /\ mm.pc = "sleep" /\ to_be_scanned = <<>>
  /\ phase' = "deleting"
  /\ \E o \in obj_list : mm' = [mm EXCEPT !.pc = "sweep", !.obj = o, !.todo = obj_list \ {o}]
  /\ UNCHANGED <<heap, marks, locks, to_be_scanned, thr, ops, undisturbed>>

Condemned(o) == state[o] # "marked"

\* Every object is delete-locked from its creation and del_unlock does nothing,
\* so no object is freed: the branch that calls final_ and unlinks the object is
\* never entered.
Sweep ==
  /\ mm.pc = "sweep"
  /\ obj_list' = obj_list \ {o \in {mm.obj} \ del_locked : Condemned(o)}
  /\ \/ \E o \in mm.todo : /\ mm' = [mm EXCEPT !.obj = o, !.todo = @ \ {o}]
                           /\ UNCHANGED <<phase, undisturbed>>
     \/ /\ mm.todo = {}
        /\ \E o \in obj_list' : mm' = [mm EXCEPT !.pc = "clear", !.obj = o, !.todo = obj_list' \ {o}]
        /\ phase' = "clearing"
        /\ undisturbed' = \A t \in Threads : thr[t].pc = "idle"
  /\ UNCHANGED <<refs, del_locked, marks, locks, to_be_scanned, thr, ops>>

MemMgrNext ==
  \/ Clear \/ MarkRoot
  \/ ScanObject \/ (\E v \in Objects : TestValue(v)) \/ MarkValue \/ ScanDone
  \/ Pop \/ ListEmpty \/ EndMarking \/ Sweep

ThreadNext(t) ==
  \/ \E op \in {"set", "del", "append"}, o, v \in Objects : CallExisting(t, op, o, v)
  \/ \E o, v \in Objects : CallNew(t, o, v)
  \/ LockSelf(t) \/ LockParam(t) \/ Release(t) \/ WriteLock(t) \/ Store(t) \/ Barrier(t)
  \/ Relock(t) \/ UnlockSelf(t) \/ Return(t)

Next ==
  \/ MemMgrNext
  \/ \E t \in Threads : ThreadNext(t)
  \/ \E p \in Procs : LockNext(p)

Spec == Init /\ [][Next]_vars

-----------------------------------------------------------------------------
(* Properties *)

\* "The garbage collection process ... will delete any object that isn't
\* recursively contained in the root globals container" (prothon.h): what is
\* contained stays.
NothingContainedFreed == Contained \subseteq obj_list

\* An object that was scanned and is not to be scanned again refers to marked
\* objects only: write_unlock notices every change of an object that has the
\* scanned bit.
NoUnmarkedBehindScanned ==
  phase = "marking" =>
    \A o \in scanned \ (Range(to_be_scanned) \union {mm.obj}) :
      \A v \in refs[o] : ~Condemned(v)

\* Without calls of other threads the marks are exact: at the start of the sweep
\* an object is marked if and only if the root contains it.
MarksExactWhenUndisturbed ==
  mm.pc = "sweep" /\ undisturbed =>
    \A o \in obj_list : ~Condemned(o) <=> o \in Contained

\* Who holds write_mutex spins on an object whose spinlock is held.
MutexStuck == \E p \in Procs : waiting[p] = "woken" /\ wrlock[Target(p)] # None

\* What can make a step other than looking again, in timedwait's loop, whether the
\* readers are gone: the guards of the actions, without ENABLED.
WriterRunnable(p) ==
  \/ waiting[p] = "no" /\ wrlock[Target(p)] = None
  \/ waiting[p] = "mutex" /\ ~MutexStuck
  \/ /\ waiting[p] \in {"cond", "woken"} /\ ~MutexStuck
     /\ wrlock[Target(p)] = None /\ readers[Target(p)] = {}

MemMgrRunnable ==
  \/ WantsWrite(MemMgr) /\ WriterRunnable(MemMgr)
  \/ mm.pc = "read" /\ CanRead(MemMgr, mm.obj)
  \/ mm.pc = "vals" /\ (mm.todo # {} \/ wrlock[mm.obj] = None)
  \/ mm.pc \in {"pop", "sleep", "sweep"}

Runnable(t) ==
  \/ thr[t].pc = "idle" /\ ops < MaxOps
  \/ WantsWrite(t) /\ WriterRunnable(t)
  \/ thr[t].pc \in {"self", "param", "relock"} /\ CanRead(t, Target(t))
  \/ thr[t].pc \in {"release", "unlock", "return"} /\ wrlock[Target(t)] = None
  \/ thr[t].pc \in {"store", "barrier"}

Deadlocked == ~MemMgrRunnable /\ \A t \in Threads : ~Runnable(t)

\* One process has write_mutex and spins for an object; another has the spinlock
\* of that object and waits for write_mutex.
MutexCrossed ==
  \E p, q \in Procs : /\ p # q /\ waiting[p] = "woken" /\ waiting[q] = "mutex"
                     /\ wrlock[Target(p)] = q

\* A thread in a call of a C function keeps a read lock, of the object or of its
\* parameter, and waits for an object that another process has read-locked.
CallCrossed ==
  /\ \A o \in Objects : wrlock[o] = None
  /\ \E t \in Threads : /\ \E o \in Objects : t \in readers[o]
                        /\ \E p \in Procs \ {t} : p \in readers[Target(t)]

\* The system stops in these two ways only: never on the two lists, never with an
\* object being written, never the memory manager by itself.
DeadlocksAreCrossed == Deadlocked => MutexCrossed \/ CallCrossed

\* What the doc says of the sweep, before the delete lock saves the object: when
\* marking ends with no call under way, every contained object is marked.
MarkingIsComplete ==
  [][phase = "marking" /\ phase' = "deleting" /\ thr = [t \in Threads |-> Idle] =>
       \A o \in Contained : ~Condemned(o)]_vars
=============================================================================
