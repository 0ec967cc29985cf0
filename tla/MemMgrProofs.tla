--------------------------- MODULE MemMgrProofs ---------------------------
(***************************************************************************)
(* For any objects, references, threads and number of calls: the root      *)
(* contains only objects that were not freed, and no unmarked object is    *)
(* hidden behind one that the memory manager has scanned; the system stops *)
(* only where write_mutex and a spinlock, or the read locks of calls,      *)
(* cross.                                                                  *)
(***************************************************************************)
EXTENDS MemMgr, SequenceTheorems, TLAPS

\* What refers to what: everything known to a process or to an object is in the
\* list, and everything in the list is delete-locked.
HeapOK ==
  /\ Root \in obj_list /\ obj_list \subseteq del_locked
  /\ \A o \in Objects : refs[o] \subseteq obj_list
  /\ \A t \in Threads : thr[t].pc # "idle" => {thr[t].obj, thr[t].val} \subseteq obj_list
  /\ scanned \subseteq obj_list /\ Range(to_be_scanned) \subseteq obj_list
  /\ mm.obj \in obj_list /\ mm.todo \subseteq obj_list
  /\ mm.pc = "mark" => mm.val \in obj_list

\* A thread that stores has the object for itself; the memory manager reads the
\* object whose values it looks at.
LocksOK ==
  /\ \A t \in Threads : thr[t].pc \in {"store", "barrier"} =>
       wrlock[thr[t].obj] = t /\ readers[thr[t].obj] = {}
  /\ mm.pc \in {"vals", "mark"} => MemMgr \in readers[mm.obj]

\* A process that waits is in write_lock; while it waits for write_mutex it has the
\* spinlock of its object.
WaitsOK ==
  \A p \in Procs :
    /\ waiting[p] # "no" => WantsWrite(p)
    /\ waiting[p] = "mutex" => wrlock[Target(p)] = p

\* The phase follows the memory manager's steps, and marking starts at the root,
\* with no scanned bit set.
PhaseOK ==
  /\ phase = "clearing" <=> mm.pc = "clear"
  /\ phase = "deleting" <=> mm.pc = "sweep"
  /\ mm.pc = "clear" => scanned \subseteq mm.todo \union {mm.obj}
  /\ mm.pc = "root" => scanned = {} /\ mm.obj = Root

Scanning == mm.pc \in {"read", "vals", "mark"}

\* In the marking phase: scanned objects are marked, and so is what they refer
\* to, but for those that will be scanned or are being scanned.
TriColour ==
  phase = "marking" =>
    /\ \A o \in scanned : state[o] = "marked"
    /\ \A o \in scanned \ Range(to_be_scanned) :
         ~(Scanning /\ o = mm.obj) =>
           \A v \in refs[o] : state[v] = "marked"
    /\ mm.pc \in {"vals", "mark"} =>
         /\ state[mm.obj] = "marked"
         /\ \A v \in refs[mm.obj] : v \in mm.todo \/ state[v] = "marked"

IndInv == TypeOK /\ HeapOK /\ LocksOK /\ WaitsOK /\ PhaseOK /\ TriColour

-----------------------------------------------------------------------------
(* The list of objects to scan *)

\* An object put on the list is on it once, and nothing else changes.
LEMMA PushFacts ==
  ASSUME NEW s \in Seq(Objects), IsInjective(s), NEW o \in Objects
  PROVE  /\ Push(s, o) \in Seq(Objects) /\ IsInjective(Push(s, o))
         /\ Range(Push(s, o)) = Range(s) \union {o}
<1>1. CASE o \notin Range(s)
  <2>1. Push(s, o) = Append(s, o)
    BY <1>1 DEF Push
  <2>2. /\ Append(s, o) \in Seq(Objects) /\ Len(Append(s, o)) = Len(s) + 1
        /\ DOMAIN Append(s, o) = 1 .. Len(s) + 1
        /\ \A i \in 1 .. Len(s) : Append(s, o)[i] = s[i]
        /\ Append(s, o)[Len(s) + 1] = o
        /\ DOMAIN s = 1 .. Len(s) /\ Len(s) \in Nat
    OBVIOUS
  <2> QED
    BY <1>1, <2>1, <2>2 DEF Range, IsInjective
<1>2. CASE o \in Range(s)
  <2>1. PICK i \in DOMAIN s : i = CHOOSE j \in DOMAIN s : s[j] = o
    BY <1>2 DEF Range
  <2>2. s[i] = o
    BY <1>2, <2>1 DEF Range
  <2>3. i \in 1 .. Len(s) /\ DOMAIN s = 1 .. Len(s) /\ Len(s) \in Nat
    OBVIOUS
  <2> DEFINE front == SubSeq(s, 1, i - 1)
             rear == SubSeq(s, i + 1, Len(s))
             rest == front \o rear
             q == Append(rest, o)
  <2>4. Push(s, o) = q
    BY <1>2, <2>1 DEF Push, RemoveAt
  <2>5. /\ front \in Seq(Objects) /\ Len(front) = i - 1
        /\ \A k \in 1 .. i - 1 : front[k] = s[k]
    BY <2>3
  <2>6. /\ rear \in Seq(Objects) /\ Len(rear) = Len(s) - i
        /\ \A k \in 1 .. Len(s) - i : rear[k] = s[i + k]
    BY <2>3
  <2> HIDE DEF front, rear
  <2>7. /\ rest \in Seq(Objects) /\ Len(rest) = Len(s) - 1
        /\ \A k \in 1 .. i - 1 : rest[k] = s[k]
        /\ \A k \in i .. Len(s) - 1 : rest[k] = s[k + 1]
    <3>1. rest \in Seq(Objects) /\ Len(rest) = Len(s) - 1
      <4>1. rest \in Seq(Objects) /\ Len(rest) = Len(front) + Len(rear)
        BY <2>5, <2>6, ConcatProperties
      <4> QED
        BY <2>3, <2>5, <2>6, <4>1
    <3>2. \A k \in 1 .. i - 1 : rest[k] = s[k]
      BY <2>3, <2>5, <2>6
    <3>3. ASSUME NEW k \in i .. Len(s) - 1 PROVE rest[k] = s[k + 1]
      <4>1. rest[k] = rear[k - (i - 1)]
        BY <2>3, <2>5, <2>6
      <4>2. k - (i - 1) \in 1 .. Len(s) - i /\ i + (k - (i - 1)) = k + 1
        BY <2>3
      <4> QED
        BY <2>6, <4>1, <4>2
    <3> QED
      BY <3>1, <3>2, <3>3
  <2> HIDE DEF rest
  <2>8. /\ q \in Seq(Objects) /\ DOMAIN q = 1 .. Len(s)
        /\ q[Len(s)] = o
        /\ \A k \in 1 .. i - 1 : q[k] = s[k]
        /\ \A k \in i .. Len(s) - 1 : q[k] = s[k + 1]
    <3>1. /\ q \in Seq(Objects) /\ Len(q) = Len(rest) + 1 /\ q[Len(rest) + 1] = o
          /\ \A k \in 1 .. Len(rest) : q[k] = rest[k]
      BY <2>7, AppendProperties
    <3>2. Len(rest) = Len(s) - 1 /\ Len(rest) + 1 = Len(s) /\ Len(s) \in Nat
      BY <2>3, <2>7
    <3>3. DOMAIN q = 1 .. Len(q)
      BY <3>1
    <3> HIDE DEF q
    <3> QED
      BY <2>3, <2>7, <3>1, <3>2, <3>3, SMTT(60)
  <2> HIDE DEF q
  <2>9. \A j, k \in 1 .. Len(s) : s[j] = s[k] => j = k
    BY <2>3 DEF IsInjective
  <2>10. IsInjective(q)
    BY <2>2, <2>3, <2>8, <2>9 DEF IsInjective
  <2>11. ASSUME NEW k \in DOMAIN q PROVE \E j \in DOMAIN s : q[k] = s[j]
    <3>1. k \in 1 .. Len(s) /\ Len(s) \in Nat /\ DOMAIN s = 1 .. Len(s) /\ i \in 1 .. Len(s)
      BY <2>3, <2>8
    <3>2. CASE k \in 1 .. i - 1
      <4>1. q[k] = s[k] /\ k \in DOMAIN s
        BY <2>8, <3>1, <3>2
      <4> QED
        BY <4>1
    <3>3. CASE k \in i .. Len(s) - 1
      <4>1. q[k] = s[k + 1]
        BY <2>8, <3>3
      <4>2. k + 1 \in DOMAIN s
        BY <3>1, <3>3
      <4> QED
        BY <4>1, <4>2
    <3>4. CASE k = Len(s)
      <4>1. q[k] = s[i]
        BY <2>2, <2>8, <3>4
      <4> QED
        BY <4>1
    <3>5. k \in 1 .. i - 1 \/ k \in i .. Len(s) - 1 \/ k = Len(s)
      BY <3>1
    <3> QED
      BY <3>2, <3>3, <3>4, <3>5
  <2>12. ASSUME NEW j \in DOMAIN s PROVE \E k \in DOMAIN q : q[k] = s[j]
    <3>1. CASE j < i
      BY <2>3, <2>8, <3>1
    <3>2. CASE j = i
      BY <2>2, <2>3, <2>8, <3>2
    <3>3. CASE j > i
      <4>1. j - 1 \in i .. Len(s) - 1 /\ (j - 1) + 1 = j
        BY <2>3, <3>3
      <4> QED
        BY <2>3, <2>8, <4>1, SMTT(60)
    <3> QED
      BY <2>3, <3>1, <3>2, <3>3
  <2>13. Range(q) = Range(s)
    BY <2>11, <2>12 DEF Range
  <2> QED
    BY <1>2, <2>4, <2>8, <2>10, <2>13
<1> QED
  BY <1>1, <1>2

\* The last object is taken off the list, and nothing else changes.
LEMMA PopFacts ==
  ASSUME NEW s \in Seq(Objects), IsInjective(s), s # <<>>
  PROVE  /\ Last(s) \in Objects
         /\ Front(s) \in Seq(Objects) /\ IsInjective(Front(s))
         /\ Range(s) = Range(Front(s)) \union {Last(s)}
<1>1. Len(s) \in Nat \ {0} /\ DOMAIN s = 1 .. Len(s)
  OBVIOUS
<1>2. /\ Front(s) \in Seq(Objects) /\ DOMAIN Front(s) = 1 .. Len(s) - 1
      /\ \A i \in 1 .. Len(s) - 1 : Front(s)[i] = s[i]
  BY <1>1 DEF Front
<1>3. Last(s) = s[Len(s)] /\ Last(s) \in Objects
  BY <1>1 DEF Last
<1>4. IsInjective(Front(s))
  BY <1>1, <1>2 DEF IsInjective
<1>5. Range(s) = Range(Front(s)) \union {Last(s)}
  BY <1>1, <1>2, <1>3 DEF Range
<1> QED
  BY <1>2, <1>3, <1>4, <1>5

-----------------------------------------------------------------------------
(* Every step keeps the invariant *)

\* The list is closed under references and holds the root.
LEMMA ContainedInList ==
  ASSUME TypeOK, HeapOK
  PROVE  Contained \subseteq obj_list
<1>1. obj_list \in SUBSET Objects /\ Root \in obj_list
  BY DEF TypeOK, HeapOK
<1>2. \A x \in obj_list : refs[x] \subseteq obj_list
  BY <1>1 DEF HeapOK
<1> QED
  BY <1>1, <1>2 DEF Contained

\* A step of one process leaves what the others wait for.
LEMMA OthersWait ==
  ASSUME IndInv, NEW q \in Procs, waiting' \in [Procs -> {"no", "mutex", "cond", "woken"}],
         waiting'[q] = "no",
         \A p \in Procs \ {q} : /\ waiting'[p] = waiting[p]
                                /\ Target(p)' = Target(p) /\ WantsWrite(p)' = WantsWrite(p),
         \A o \in Objects : \A p \in Procs \ {q} : wrlock[o] = p => wrlock'[o] = p,
         \A p \in Procs : waiting[p] = "mutex" => Target(p) \in Objects
  PROVE  WaitsOK'
BY DEF IndInv, WaitsOK

LEMMA ThreadsApart ==
  ASSUME NEW t \in Threads, mm' = mm, \A u \in Threads \ {t} : thr'[u] = thr[u]
  PROVE  \A p \in Procs \ {t} : Target(p)' = Target(p) /\ WantsWrite(p)' = WantsWrite(p)
BY MemMgrAssumption DEF Procs, Target, WantsWrite

LEMMA MemMgrApart ==
  ASSUME thr' = thr
  PROVE  \A p \in Procs \ {MemMgr} : Target(p)' = Target(p) /\ WantsWrite(p)' = WantsWrite(p)
BY DEF Target, WantsWrite

\* What a process waits for is an object.
LEMMA WaitsForObjects ==
  ASSUME TypeOK, HeapOK, NEW p \in Procs, WantsWrite(p)
  PROVE  Target(p) \in Objects
<1>1. obj_list \subseteq Objects
  BY DEF TypeOK
<1>2. CASE p = MemMgr
  BY <1>1, <1>2 DEF HeapOK, Target
<1>3. CASE p # MemMgr
  <2>1. p \in Threads /\ thr[p].pc = "write"
    BY <1>3 DEF Procs, WantsWrite
  <2>2. thr[p].obj \in Objects
    BY <1>1, <2>1 DEF HeapOK
  <2> QED
    BY <1>3, <2>1, <2>2 DEF Target
<1> QED
  BY <1>2, <1>3

\* A step that is only about locks leaves the heap and its marks, but that a reader
\* may mark an object.
LEMMA OnlyLocks ==
  ASSUME IndInv, UNCHANGED <<heap, scanned, phase, to_be_scanned, mm>>,
         \A o \in Objects : state[o] = "marked" => state'[o] = "marked",
         \A t \in Threads : thr'[t].pc # "idle" =>
            thr[t].pc # "idle" /\ thr'[t].obj = thr[t].obj /\ thr'[t].val = thr[t].val
  PROVE  HeapOK' /\ PhaseOK' /\ TriColour'
<1> USE DEF IndInv, heap
<1>1. HeapOK'
  BY DEF HeapOK
<1>2. PhaseOK'
  BY DEF PhaseOK
<1>3. TriColour'
  BY DEF TypeOK, HeapOK, TriColour, Scanning
<1> QED
  BY <1>1, <1>2, <1>3

\* Where a thread goes in its call.
LEMMA GotoFacts ==
  ASSUME TypeOK, NEW t \in Threads, thr[t].pc # "idle",
         NEW s \in {"idle", "self", "param", "release", "write", "store", "barrier",
                    "relock", "unlock", "return"},
         thr' = [thr EXCEPT ![t] = IF s = "idle" THEN Idle ELSE [@ EXCEPT !.pc = s]]
  PROVE  /\ thr' \in [Threads -> [pc : {"idle", "self", "param", "release", "write", "store",
                                        "barrier", "relock", "unlock", "return"},
                                  op : {"set", "del", "append", None},
                                  obj : Objects \union {None}, val : Objects \union {None}]]
         /\ thr'[t].pc = s /\ \A u \in Threads \ {t} : thr'[u] = thr[u]
         /\ s # "idle" => thr'[t].obj = thr[t].obj /\ thr'[t].val = thr[t].val /\ thr'[t].op = thr[t].op
         /\ s = "idle" => thr'[t] = Idle
BY DEF TypeOK, Idle

LEMMA CallExistingInv ==
  ASSUME IndInv, NEW t \in Threads, NEW op \in {"set", "del", "append"},
         NEW o \in Objects, NEW v \in Objects, CallExisting(t, op, o, v)
  PROVE  IndInv'
<1> USE MemMgrAssumption DEF IndInv, CallExisting, Call, Idle, heap, marks, locks
<1>0. {o, v} \subseteq obj_list
  BY ContainedInList
<1>1. TypeOK'
  BY DEF TypeOK, HeapOK, Phases, Procs
<1>2. HeapOK'
  BY <1>0 DEF TypeOK, HeapOK
<1>3. LocksOK'
  BY DEF TypeOK, LocksOK
<1>4. WaitsOK'
  BY ThreadsApart, OthersWait, WaitsForObjects DEF TypeOK, WaitsOK, WantsWrite, Procs
<1>5. PhaseOK'
  BY DEF TypeOK, PhaseOK, HeapOK
<1>6. TriColour'
  BY DEF TypeOK, HeapOK, LocksOK, PhaseOK, TriColour, Scanning
<1> QED
  BY <1>1, <1>2, <1>3, <1>4, <1>5, <1>6

LEMMA CallNewInv ==
  ASSUME IndInv, NEW t \in Threads, NEW o \in Objects, NEW v \in Objects, CallNew(t, o, v)
  PROVE  IndInv'
<1> USE MemMgrAssumption DEF IndInv, CallNew, NewObject, Call, Idle, heap, marks, locks
<1>0. o \in obj_list
  BY ContainedInList
<1>1. TypeOK'
  BY DEF TypeOK, HeapOK, Phases, Procs
<1>2. HeapOK'
  BY <1>0 DEF TypeOK, HeapOK
<1>3. LocksOK'
  BY DEF TypeOK, LocksOK
<1>4. WaitsOK'
  BY ThreadsApart, OthersWait, WaitsForObjects DEF TypeOK, WaitsOK, WantsWrite, Procs
<1>5. PhaseOK'
  BY DEF TypeOK, PhaseOK, HeapOK
<1>6. TriColour'
  BY DEF TypeOK, HeapOK, LocksOK, PhaseOK, TriColour, Scanning
<1> QED
  BY <1>1, <1>2, <1>3, <1>4, <1>5, <1>6

\* The steps of a call that only lock or unlock.
LEMMA CallLocksInv ==
  ASSUME IndInv, NEW t \in Threads,
         LockSelf(t) \/ LockParam(t) \/ Release(t) \/ Relock(t) \/ UnlockSelf(t) \/ Return(t)
  PROVE  IndInv'
<1> USE MemMgrAssumption DEF IndInv
<1>1. /\ thr[t].pc \in {"self", "param", "release", "relock", "unlock", "return"}
      /\ UNCHANGED <<wrlock, waiting>>
      /\ \E o \in {thr[t].obj, thr[t].val} :
           /\ wrlock[o] = None
           /\ \/ readers' = [readers EXCEPT ![o] = @ \union {t}]
              \/ readers' = [readers EXCEPT ![o] = @ \ {t}]
           /\ state' \in {state, [state EXCEPT ![o] = "marked"]}
      /\ \E s \in {"idle", "param", "release", "write", "unlock", "return"} : Goto(t, s)
  BY DEF LockSelf, LockParam, Release, Relock, UnlockSelf, Return, ReadLock, CanRead, ReadUnlock
<1>2. PICK o \in {thr[t].obj, thr[t].val} :
           /\ wrlock[o] = None
           /\ \/ readers' = [readers EXCEPT ![o] = @ \union {t}]
              \/ readers' = [readers EXCEPT ![o] = @ \ {t}]
           /\ state' \in {state, [state EXCEPT ![o] = "marked"]}
  BY <1>1
<1>3. PICK s \in {"idle", "param", "release", "write", "unlock", "return"} : Goto(t, s)
  BY <1>1
<1>11. wrlock' = wrlock
  BY <1>1
<1>4. /\ UNCHANGED <<heap, scanned, phase, to_be_scanned, mm, ops>>
      /\ thr' = [thr EXCEPT ![t] = IF s = "idle" THEN Idle ELSE [@ EXCEPT !.pc = s]]
  BY <1>3 DEF Goto
<1>5. /\ thr' \in [Threads -> [pc : {"idle", "self", "param", "release", "write", "store",
                                     "barrier", "relock", "unlock", "return"},
                               op : {"set", "del", "append", None},
                               obj : Objects \union {None}, val : Objects \union {None}]]
      /\ thr'[t].pc = s /\ \A u \in Threads \ {t} : thr'[u] = thr[u]
      /\ s # "idle" => thr'[t].obj = thr[t].obj /\ thr'[t].val = thr[t].val
  BY <1>1, <1>4, GotoFacts
<1>6. o \in Objects
  BY <1>1 DEF TypeOK, HeapOK
<1>7. TypeOK'
  <2>1. readers' \in [Objects -> SUBSET Procs]
    BY <1>2, <1>6 DEF TypeOK, Procs
  <2>2. state' \in [Objects -> {"marked", "unmarked"}]
    BY <1>2, <1>6 DEF TypeOK
  <2> QED
    BY <1>1, <1>4, <1>5, <2>1, <2>2 DEF TypeOK, heap, Phases, Procs
<1>8. HeapOK' /\ PhaseOK' /\ TriColour'
  BY <1>1, <1>2, <1>4, <1>5, <1>6, OnlyLocks DEF TypeOK
<1>9. LocksOK'
  <2>1. ASSUME NEW u \in Threads, thr'[u].pc \in {"store", "barrier"}
        PROVE  wrlock'[thr'[u].obj] = u /\ readers'[thr'[u].obj] = {}
    <3>1. u # t /\ thr'[u] = thr[u]
      BY <1>5, <2>1
    <3>2. wrlock[thr[u].obj] = u /\ readers[thr[u].obj] = {} /\ thr[u].obj \in Objects
      BY <2>1, <3>1 DEF LocksOK, HeapOK, TypeOK
    <3>3. thr[u].obj # o
      BY <1>2, <3>2
    <3>4. readers'[thr[u].obj] = readers[thr[u].obj]
      BY <1>2, <3>2, <3>3 DEF TypeOK
    <3>5. thr'[u].obj = thr[u].obj
      BY <3>1
    <3>6. wrlock'[thr'[u].obj] = u
      BY <1>11, <3>2, <3>5
    <3>7. readers'[thr'[u].obj] = {}
      BY <3>2, <3>4, <3>5
    <3> QED
      BY <3>6, <3>7
  <2>2. mm'.pc \in {"vals", "mark"} => MemMgr \in readers'[mm'.obj]
    <3>1. MemMgr # t /\ mm' = mm /\ mm.obj \in Objects
      BY <1>4 DEF TypeOK
    <3>2. MemMgr \in readers[mm.obj] => MemMgr \in readers'[mm.obj]
      BY <1>2, <1>6, <3>1 DEF TypeOK
    <3> QED
      BY <3>1, <3>2 DEF LocksOK
  <2> QED
    BY <2>1, <2>2 DEF LocksOK
<1>10. WaitsOK'
  <2>1. waiting[t] = "no"
    BY <1>1 DEF WaitsOK, WantsWrite, Procs, TypeOK
  <2>2. \A p \in Procs \ {t} : Target(p)' = Target(p) /\ WantsWrite(p)' = WantsWrite(p)
    BY <1>4, <1>5, ThreadsApart
  <2> QED
    BY <1>1, <2>1, <2>2, OthersWait, WaitsForObjects DEF WaitsOK, TypeOK, Procs
<1> QED
  BY <1>7, <1>8, <1>9, <1>10

LEMMA WriteLockInv ==
  ASSUME IndInv, NEW t \in Threads, WriteLock(t)
  PROVE  IndInv'
<1> USE MemMgrAssumption DEF IndInv
<1>1. /\ thr[t].pc = "write" /\ wrlock[thr[t].obj] = None /\ readers[thr[t].obj] = {}
      /\ wrlock' = [wrlock EXCEPT ![thr[t].obj] = t] /\ waiting' = [waiting EXCEPT ![t] = "no"]
      /\ UNCHANGED <<state, readers>>
      /\ UNCHANGED <<heap, scanned, phase, to_be_scanned, mm, ops>>
      /\ thr' = [thr EXCEPT ![t] = [@ EXCEPT !.pc = "store"]]
      /\ thr' = [thr EXCEPT ![t] = IF "store" = "idle" THEN Idle ELSE [@ EXCEPT !.pc = "store"]]
  BY DEF WriteLock, CanWrite, EndWait, Goto
<1>2. /\ thr' \in [Threads -> [pc : {"idle", "self", "param", "release", "write", "store",
                                     "barrier", "relock", "unlock", "return"},
                               op : {"set", "del", "append", None},
                               obj : Objects \union {None}, val : Objects \union {None}]]
      /\ thr'[t].pc = "store" /\ \A u \in Threads \ {t} : thr'[u] = thr[u]
      /\ thr'[t].obj = thr[t].obj /\ thr'[t].val = thr[t].val
  BY <1>1, GotoFacts
<1>3. thr[t].obj \in Objects /\ t \in Procs
  BY <1>1 DEF TypeOK, HeapOK, Procs
<1>4. TypeOK'
  BY <1>1, <1>2, <1>3 DEF TypeOK, heap, Phases, Procs
<1>5. HeapOK' /\ PhaseOK' /\ TriColour'
  BY <1>1, <1>2, OnlyLocks DEF TypeOK
<1>6. LocksOK'
  BY <1>1, <1>2, <1>3 DEF LocksOK, HeapOK, TypeOK
<1>7. WaitsOK'
  <2>1. \A p \in Procs \ {t} : Target(p)' = Target(p) /\ WantsWrite(p)' = WantsWrite(p)
    BY <1>1, <1>2, ThreadsApart
  <2> QED
    BY <1>1, <1>3, <2>1, OthersWait, WaitsForObjects DEF WaitsOK, TypeOK, Procs
<1> QED
  BY <1>4, <1>5, <1>6, <1>7

\* A step of write_lock that waits.
LEMMA LockNextInv ==
  ASSUME IndInv, NEW p \in Procs, LockNext(p)
  PROVE  IndInv'
<1> USE MemMgrAssumption DEF IndInv
<1>1. /\ UNCHANGED <<heap, marks, readers, phase, to_be_scanned, mm, thr, ops>>
      /\ \E w \in {"mutex", "cond", "woken"} : waiting' = [waiting EXCEPT ![p] = w]
  BY DEF LockNext, AwaitReaders, Sleep, Wake, SleepAgain
<1>2. WantsWrite(p) /\ Target(p) \in Objects
  BY WaitsForObjects DEF LockNext, AwaitReaders, Sleep, Wake, SleepAgain, WaitsOK
<1>3. \/ /\ wrlock[Target(p)] = None /\ wrlock' = [wrlock EXCEPT ![Target(p)] = p]
         /\ readers[Target(p)] # {} /\ waiting'[p] = "mutex"
      \/ /\ waiting[p] = "mutex" /\ wrlock' = [wrlock EXCEPT ![Target(p)] = None]
         /\ waiting'[p] # "mutex"
      \/ wrlock' = wrlock /\ waiting'[p] # "mutex"
  BY DEF LockNext, AwaitReaders, Sleep, Wake, SleepAgain, TypeOK
<1>4. TypeOK'
  BY <1>1, <1>2, <1>3 DEF TypeOK, heap, marks, Phases
<1>5. HeapOK' /\ PhaseOK' /\ TriColour'
  BY <1>1, OnlyLocks DEF marks
<1>6. LocksOK'
  <2>1. ASSUME NEW t \in Threads, thr[t].pc \in {"store", "barrier"}
        PROVE  wrlock'[thr[t].obj] = t
    <3>1. wrlock[thr[t].obj] = t /\ readers[thr[t].obj] = {} /\ thr[t].obj \in Objects
      BY <2>1 DEF LocksOK, HeapOK, TypeOK
    <3>2. t # p
      BY <1>2, <2>1 DEF WantsWrite
    <3>3. wrlock[Target(p)] = None \/ wrlock[Target(p)] = p \/ wrlock' = wrlock
      BY <1>3 DEF WaitsOK
    <3>4. t # None
      OBVIOUS
    <3> QED
      BY <1>2, <1>3, <3>1, <3>2, <3>3, <3>4 DEF TypeOK
  <2> QED
    BY <1>1, <2>1 DEF LocksOK
<1>7. WaitsOK'
  <2>1. \A q \in Procs : Target(q)' = Target(q) /\ WantsWrite(q)' = WantsWrite(q)
    BY <1>1 DEF Target, WantsWrite
  <2>2. ASSUME NEW q \in Procs PROVE waiting'[q] # "no" => WantsWrite(q)
    BY <1>1, <1>2 DEF WaitsOK, TypeOK
  <2>3. ASSUME NEW q \in Procs, waiting'[q] = "mutex" PROVE wrlock'[Target(q)] = q
    <3>1. CASE q = p
      BY <1>2, <1>3, <2>3, <3>1 DEF TypeOK
    <3>2. CASE q # p
      <4>1. waiting[q] = "mutex" /\ wrlock[Target(q)] = q
        BY <1>1, <2>3, <3>2 DEF WaitsOK, TypeOK
      <4>2. Target(q) \in Objects
        BY <4>1, WaitsForObjects DEF WaitsOK
      <4>3. q # None
        BY DEF Procs
      <4>4. waiting[p] = "mutex" => wrlock[Target(p)] = p
        BY DEF WaitsOK
      <4> QED
        BY <1>2, <1>3, <3>2, <4>1, <4>2, <4>3, <4>4 DEF TypeOK
    <3> QED
      BY <3>1, <3>2
  <2> QED
    BY <2>1, <2>2, <2>3 DEF WaitsOK
<1> QED
  BY <1>4, <1>5, <1>6, <1>7

LEMMA StoreInv ==
  ASSUME IndInv, NEW t \in Threads, Store(t)
  PROVE  IndInv'
<1> USE MemMgrAssumption DEF IndInv
<1>0. /\ thr[t].pc = "store" /\ UNCHANGED <<obj_list, del_locked, readers, waiting>>
      /\ UNCHANGED <<phase, to_be_scanned, mm, ops>>
      /\ refs' = Stored(t) /\ state' = [state EXCEPT ![thr[t].obj] = "marked"]
      /\ \/ scanned' = scanned \ {thr[t].obj} /\ wrlock' = wrlock
         \/ scanned' = scanned /\ wrlock' = [wrlock EXCEPT ![thr[t].obj] = None]
      /\ phase = "marking" => thr[t].obj \notin scanned'
  BY DEF Store
<1>1. \E s \in {"idle", "barrier", "relock"} :
        /\ thr' = [thr EXCEPT ![t] = IF s = "idle" THEN Idle ELSE [@ EXCEPT !.pc = s]]
        /\ s = "barrier" => wrlock' = wrlock
  BY DEF Store, AfterUnlock
<1>2. PICK s \in {"idle", "barrier", "relock"} :
        /\ thr' = [thr EXCEPT ![t] = IF s = "idle" THEN Idle ELSE [@ EXCEPT !.pc = s]]
        /\ s = "barrier" => wrlock' = wrlock
  BY <1>1
<1>3. /\ thr' \in [Threads -> [pc : {"idle", "self", "param", "release", "write", "store",
                                     "barrier", "relock", "unlock", "return"},
                               op : {"set", "del", "append", None},
                               obj : Objects \union {None}, val : Objects \union {None}]]
      /\ thr'[t].pc = s /\ \A u \in Threads \ {t} : thr'[u] = thr[u]
      /\ s # "idle" => thr'[t].obj = thr[t].obj /\ thr'[t].val = thr[t].val
  BY <1>0, <1>2, GotoFacts
<1>4. /\ thr[t].obj \in Objects /\ thr[t].val \in obj_list /\ obj_list \subseteq Objects
      /\ wrlock[thr[t].obj] = t /\ readers[thr[t].obj] = {}
  BY <1>0 DEF TypeOK, HeapOK, LocksOK
<1>5. /\ \A o \in Objects \ {thr[t].obj} : refs'[o] = refs[o]
      /\ \A o \in Objects : refs'[o] \subseteq obj_list
      /\ refs' \in [Objects -> SUBSET Objects]
  BY <1>0, <1>4 DEF TypeOK, HeapOK, Stored
<1>6. TypeOK'
  BY <1>0, <1>3, <1>4, <1>5 DEF TypeOK, Phases
<1>7. HeapOK'
  BY <1>0, <1>3, <1>5 DEF HeapOK
<1>8. LocksOK'
  <2>1. ASSUME NEW u \in Threads \ {t}, thr[u].pc \in {"store", "barrier"}
        PROVE  wrlock'[thr[u].obj] = u
    <3>1. wrlock[thr[u].obj] = u /\ thr[u].obj \in Objects
      BY <2>1 DEF LocksOK, TypeOK, HeapOK
    <3> QED
      BY <1>0, <1>4, <3>1 DEF TypeOK
  <2> QED
    BY <1>0, <1>2, <1>3, <1>4, <2>1 DEF LocksOK
<1>9. WaitsOK'
  <2>1. waiting[t] = "no"
    BY <1>0 DEF WaitsOK, WantsWrite, Procs, TypeOK
  <2>2. \A p \in Procs \ {t} : Target(p)' = Target(p) /\ WantsWrite(p)' = WantsWrite(p)
    BY <1>0, <1>3, ThreadsApart
  <2> QED
    BY <1>0, <1>4, <2>1, <2>2, OthersWait, WaitsForObjects DEF WaitsOK, TypeOK, Procs
<1>10. PhaseOK'
  BY <1>0 DEF PhaseOK
<1>11. TriColour'
  <2>1. mm.pc \in {"vals", "mark"} => mm.obj # thr[t].obj
    BY <1>4 DEF LocksOK
  <2>2. \A o \in Objects : state[o] = "marked" => state'[o] = "marked"
    BY <1>0, <1>4 DEF TypeOK
  <2> QED
    BY <1>0, <1>4, <1>5, <2>1, <2>2 DEF TypeOK, HeapOK, TriColour, Scanning
<1> QED
  BY <1>6, <1>7, <1>8, <1>9, <1>10, <1>11

LEMMA BarrierInv ==
  ASSUME IndInv, NEW t \in Threads, Barrier(t)
  PROVE  IndInv'
<1> USE MemMgrAssumption DEF IndInv
<1>0. /\ thr[t].pc = "barrier" /\ UNCHANGED <<heap, marks, readers, waiting, phase, mm, ops>>
      /\ to_be_scanned' = IF phase = "marking" THEN Push(to_be_scanned, thr[t].obj) ELSE to_be_scanned
      /\ wrlock' = [wrlock EXCEPT ![thr[t].obj] = None]
  BY DEF Barrier
<1>1. \E s \in {"idle", "relock"} :
        thr' = [thr EXCEPT ![t] = IF s = "idle" THEN Idle ELSE [@ EXCEPT !.pc = s]]
  BY DEF Barrier
<1>2. PICK s \in {"idle", "relock"} :
        thr' = [thr EXCEPT ![t] = IF s = "idle" THEN Idle ELSE [@ EXCEPT !.pc = s]]
  BY <1>1
<1>3. /\ thr' \in [Threads -> [pc : {"idle", "self", "param", "release", "write", "store",
                                     "barrier", "relock", "unlock", "return"},
                               op : {"set", "del", "append", None},
                               obj : Objects \union {None}, val : Objects \union {None}]]
      /\ thr'[t].pc = s /\ \A u \in Threads \ {t} : thr'[u] = thr[u]
      /\ s # "idle" => thr'[t].obj = thr[t].obj /\ thr'[t].val = thr[t].val
  BY <1>0, <1>2, GotoFacts
<1>4. thr[t].obj \in Objects /\ thr[t].obj \in obj_list /\ wrlock[thr[t].obj] = t
  BY <1>0 DEF TypeOK, HeapOK, LocksOK
<1>5. /\ Push(to_be_scanned, thr[t].obj) \in Seq(Objects) /\ IsInjective(Push(to_be_scanned, thr[t].obj))
      /\ Range(Push(to_be_scanned, thr[t].obj)) = Range(to_be_scanned) \union {thr[t].obj}
  BY <1>4, PushFacts DEF TypeOK
<1>6. /\ to_be_scanned' \in Seq(Objects) /\ IsInjective(to_be_scanned')
      /\ Range(to_be_scanned) \subseteq Range(to_be_scanned') /\ Range(to_be_scanned') \subseteq obj_list
  BY <1>0, <1>4, <1>5 DEF TypeOK, HeapOK
<1>7. TypeOK'
  BY <1>0, <1>3, <1>4, <1>6 DEF TypeOK, heap, marks, Phases
<1>8. HeapOK'
  BY <1>0, <1>3, <1>6 DEF HeapOK, heap, marks
<1>9. LocksOK'
  <2>1. ASSUME NEW u \in Threads \ {t}, thr[u].pc \in {"store", "barrier"}
        PROVE  wrlock'[thr[u].obj] = u
    <3>1. wrlock[thr[u].obj] = u /\ thr[u].obj \in Objects
      BY <2>1 DEF LocksOK, TypeOK, HeapOK
    <3> QED
      BY <1>0, <1>4, <3>1 DEF TypeOK
  <2> QED
    BY <1>0, <1>2, <1>3, <2>1 DEF LocksOK
<1>10. WaitsOK'
  <2>1. waiting[t] = "no"
    BY <1>0 DEF WaitsOK, WantsWrite, Procs, TypeOK
  <2>2. \A p \in Procs \ {t} : Target(p)' = Target(p) /\ WantsWrite(p)' = WantsWrite(p)
    BY <1>0, <1>3, ThreadsApart
  <2> QED
    BY <1>0, <1>4, <2>1, <2>2, OthersWait, WaitsForObjects DEF WaitsOK, TypeOK, Procs
<1>11. PhaseOK'
  BY <1>0 DEF PhaseOK, marks
<1>12. TriColour'
  BY <1>0, <1>6 DEF TriColour, Scanning, heap, marks
<1> QED
  BY <1>7, <1>8, <1>9, <1>10, <1>11, <1>12

\* The memory manager waits only for an object that it is to write.
LEMMA MemMgrWaitsOK ==
  ASSUME IndInv, MemMgrNext
  PROVE  WaitsOK' /\ waiting' \in [Procs -> {"no", "mutex", "cond", "woken"}]
<1> USE MemMgrAssumption DEF IndInv
<1>1. /\ UNCHANGED <<thr, wrlock>>
      /\ \/ waiting' = waiting /\ waiting[MemMgr] = "no"
         \/ waiting' = [waiting EXCEPT ![MemMgr] = "no"]
  <2>1. CASE Clear \/ MarkRoot \/ MarkValue
    BY <2>1 DEF Clear, MarkRoot, MarkValue, Mark, EndWait
  <2>2. CASE ScanObject \/ (\E v \in Objects : TestValue(v)) \/ ScanDone \/ Pop \/ ListEmpty
             \/ EndMarking \/ Sweep
    <3>1. mm.pc \notin {"clear", "root", "mark"} /\ UNCHANGED <<thr, wrlock, waiting>>
      BY <2>2 DEF ScanObject, ReadLock, TestValue, ScanDone, ReadUnlock, Pop, ListEmpty,
                  EndMarking, Sweep, locks
    <3>2. waiting[MemMgr] = "no"
      BY <3>1 DEF WaitsOK, WantsWrite, Procs
    <3> QED
      BY <3>1, <3>2
  <2> QED
    BY <2>1, <2>2 DEF MemMgrNext
<1>2. MemMgr \in Procs
  BY DEF Procs
<1>3. waiting' \in [Procs -> {"no", "mutex", "cond", "woken"}] /\ waiting'[MemMgr] = "no"
  BY <1>1, <1>2 DEF TypeOK
<1>4. \A p \in Procs \ {MemMgr} : Target(p)' = Target(p) /\ WantsWrite(p)' = WantsWrite(p)
  BY <1>1, MemMgrApart
<1>5. \A p \in Procs \ {MemMgr} : waiting'[p] = waiting[p]
  BY <1>1 DEF TypeOK
<1>6. \A p \in Procs : waiting[p] = "mutex" => Target(p) \in Objects
  BY WaitsForObjects DEF WaitsOK
<1>7. WaitsOK'
  BY <1>1, <1>2, <1>3, <1>4, <1>5, <1>6, OthersWait
<1> QED
  BY <1>3, <1>7

LEMMA ClearInv ==
  ASSUME IndInv, Clear
  PROVE  IndInv'
<1> USE MemMgrAssumption DEF IndInv, Procs, Clear, CanWrite, EndWait, heap, marks, locks
<1>W. WaitsOK' /\ waiting' \in [Procs -> {"no", "mutex", "cond", "woken"}]
  BY MemMgrWaitsOK, MemMgrAssumption DEF Procs, MemMgrNext
<1>0. /\ mm.obj \in obj_list /\ mm.obj \in Objects /\ obj_list \subseteq Objects
      /\ mm.todo \subseteq obj_list /\ mm.pc = "clear" /\ phase = "clearing"
      /\ state' \in [Objects -> {"marked", "unmarked"}] /\ scanned' \subseteq scanned
      /\ scanned' \subseteq mm.todo
  BY DEF TypeOK, HeapOK, PhaseOK
<1>1. CASE \E o \in mm.todo : mm' = [mm EXCEPT !.obj = o, !.todo = @ \ {o}] /\ UNCHANGED phase
  <2>0. PICK o \in mm.todo : mm' = [mm EXCEPT !.obj = o, !.todo = @ \ {o}] /\ UNCHANGED phase
    BY <1>1
  <2>1. /\ mm' \in [pc : {"clear", "root", "read", "vals", "mark", "pop", "sleep", "sweep"},
                     obj : Objects, todo : SUBSET Objects, val : Objects \union {None}]
        /\ mm'.pc = "clear" /\ mm'.obj = o /\ mm'.todo = mm.todo \ {o} /\ o \in obj_list
    BY <1>0, <2>0 DEF TypeOK
  <2>2. TypeOK'
    BY <1>0, <2>0, <2>1 DEF TypeOK
  <2>3. HeapOK'
    BY <1>0, <2>1 DEF TypeOK, HeapOK
  <2>4. LocksOK'
    BY <2>1 DEF LocksOK
  <2>5. PhaseOK'
    BY <1>0, <2>0, <2>1 DEF PhaseOK
  <2>6. TriColour'
    BY <1>0, <2>0 DEF TriColour
  <2> QED
    BY <1>W, <2>2, <2>3, <2>4, <2>5, <2>6
<1>2. CASE /\ mm.todo = {}
           /\ mm' = [mm EXCEPT !.pc = "root", !.obj = Root]
           /\ phase' = "marking"
  <2>1. /\ mm' \in [pc : {"clear", "root", "read", "vals", "mark", "pop", "sleep", "sweep"},
                     obj : Objects, todo : SUBSET Objects, val : Objects \union {None}]
        /\ mm'.pc = "root" /\ mm'.obj = Root /\ mm'.todo = {} /\ scanned' = {}
    BY <1>0, <1>2, ZenonT(60) DEF TypeOK
  <2>2. TypeOK'
    BY <1>0, <1>2, <2>1 DEF TypeOK, Phases
  <2>3. HeapOK'
    BY <1>0, <2>1 DEF TypeOK, HeapOK
  <2>4. LocksOK'
    BY <2>1 DEF LocksOK
  <2>5. PhaseOK'
    BY <1>2, <2>1 DEF PhaseOK
  <2>6. TriColour'
    BY <2>1 DEF TriColour
  <2> QED
    BY <1>W, <2>2, <2>3, <2>4, <2>5, <2>6
<1> QED
  BY <1>1, <1>2

LEMMA MarkRootInv ==
  ASSUME IndInv, MarkRoot
  PROVE  IndInv'
<1> USE MemMgrAssumption DEF IndInv, Procs, MarkRoot, Mark, CanWrite, EndWait, heap, marks, locks
<1>W. WaitsOK' /\ waiting' \in [Procs -> {"no", "mutex", "cond", "woken"}]
  BY MemMgrWaitsOK, MemMgrAssumption DEF Procs, MemMgrNext
<1>1. TypeOK'
  <2>1. mm' \in [pc : {"clear", "root", "read", "vals", "mark", "pop", "sleep", "sweep"},
                 obj : Objects, todo : SUBSET Objects, val : Objects \union {None}]
    BY DEF TypeOK
  <2>2. state' \in [Objects -> {"marked", "unmarked"}] /\ scanned' \subseteq Objects
    BY DEF TypeOK, HeapOK
  <2> QED
    BY <2>1, <2>2 DEF TypeOK, Phases
<1>2. HeapOK'
  BY DEF TypeOK, HeapOK
<1>3. LocksOK'
  BY DEF TypeOK, LocksOK, HeapOK
<1>4. PhaseOK'
  BY DEF TypeOK, PhaseOK, HeapOK
<1>5. TriColour'
  <2>1. scanned = {} /\ scanned' = {Root}
    BY DEF PhaseOK
  <2>2. mm'.pc = "read" /\ mm'.obj = Root
    BY DEF TypeOK, PhaseOK
  <2>3. state'[Root] = "marked"
    BY DEF TypeOK
  <2> QED
    BY <2>1, <2>2, <2>3 DEF TriColour, Scanning
<1> QED
  BY <1>W, <1>1, <1>2, <1>3, <1>4, <1>5

LEMMA ScanObjectInv ==
  ASSUME IndInv, ScanObject
  PROVE  IndInv'
<1> USE MemMgrAssumption DEF IndInv, Procs, ScanObject, ReadLock, CanRead, heap, marks, locks
<1>W. WaitsOK' /\ waiting' \in [Procs -> {"no", "mutex", "cond", "woken"}]
  BY MemMgrWaitsOK, MemMgrAssumption DEF Procs, MemMgrNext
<1>1. TypeOK'
  BY DEF TypeOK, HeapOK, Phases
<1>2. HeapOK'
  BY DEF TypeOK, HeapOK
<1>3. LocksOK'
  BY DEF TypeOK, LocksOK, HeapOK
<1>4. PhaseOK'
  BY DEF TypeOK, PhaseOK, HeapOK
<1>5. TriColour'
  BY DEF TypeOK, HeapOK, LocksOK, PhaseOK, TriColour, Scanning
<1> QED
  BY <1>W, <1>1, <1>2, <1>3, <1>4, <1>5

LEMMA TestValueInv ==
  ASSUME IndInv, NEW v \in Objects, TestValue(v)
  PROVE  IndInv'
<1> USE MemMgrAssumption DEF IndInv, Procs, TestValue, heap, marks, locks
<1>W. WaitsOK' /\ waiting' \in [Procs -> {"no", "mutex", "cond", "woken"}]
  BY MemMgrWaitsOK, MemMgrAssumption DEF Procs, MemMgrNext
<1>1. TypeOK'
  BY DEF TypeOK, HeapOK, Phases
<1>2. HeapOK'
  BY DEF TypeOK, HeapOK
<1>3. LocksOK'
  BY DEF TypeOK, LocksOK, HeapOK
<1>4. PhaseOK'
  BY DEF TypeOK, PhaseOK, HeapOK
<1>5. TriColour'
  BY DEF TypeOK, HeapOK, LocksOK, PhaseOK, TriColour, Scanning
<1> QED
  BY <1>W, <1>1, <1>2, <1>3, <1>4, <1>5

LEMMA MarkValueInv ==
  ASSUME IndInv, MarkValue
  PROVE  IndInv'
<1> USE MemMgrAssumption DEF IndInv, Procs, MarkValue, Mark, CanWrite, EndWait, heap, marks, locks
<1>W. WaitsOK' /\ waiting' \in [Procs -> {"no", "mutex", "cond", "woken"}]
  BY MemMgrWaitsOK, MemMgrAssumption DEF Procs, MemMgrNext
<1>0. /\ Push(to_be_scanned, mm.val) \in Seq(Objects) /\ IsInjective(Push(to_be_scanned, mm.val))
      /\ Range(Push(to_be_scanned, mm.val)) = Range(to_be_scanned) \union {mm.val}
  BY PushFacts DEF TypeOK, HeapOK
<1>1. TypeOK'
  <2>1. to_be_scanned' \in Seq(Objects) /\ IsInjective(to_be_scanned')
    BY <1>0 DEF TypeOK
  <2>2. mm' \in [pc : {"clear", "root", "read", "vals", "mark", "pop", "sleep", "sweep"},
                 obj : Objects, todo : SUBSET Objects, val : Objects \union {None}]
    BY DEF TypeOK
  <2>3. mm.val \in Objects
    BY DEF TypeOK, HeapOK
  <2>4. state' \in [Objects -> {"marked", "unmarked"}] /\ scanned' \subseteq Objects
    BY <2>3 DEF TypeOK
  <2> QED
    BY <2>1, <2>2, <2>4 DEF TypeOK, Phases
<1>2. HeapOK'
  BY <1>0 DEF TypeOK, HeapOK
<1>3. LocksOK'
  BY DEF TypeOK, LocksOK, HeapOK
<1>4. PhaseOK'
  BY DEF TypeOK, PhaseOK, HeapOK
<1>5. TriColour'
  BY <1>0 DEF TypeOK, HeapOK, LocksOK, PhaseOK, TriColour, Scanning
<1> QED
  BY <1>W, <1>1, <1>2, <1>3, <1>4, <1>5

LEMMA ScanDoneInv ==
  ASSUME IndInv, ScanDone
  PROVE  IndInv'
<1> USE MemMgrAssumption DEF IndInv, Procs, ScanDone, ReadUnlock, heap, marks, locks
<1>W. WaitsOK' /\ waiting' \in [Procs -> {"no", "mutex", "cond", "woken"}]
  BY MemMgrWaitsOK, MemMgrAssumption DEF Procs, MemMgrNext
<1>1. TypeOK'
  BY DEF TypeOK, HeapOK, Phases
<1>2. HeapOK'
  BY DEF TypeOK, HeapOK
<1>3. LocksOK'
  BY DEF TypeOK, LocksOK, HeapOK
<1>4. PhaseOK'
  BY DEF TypeOK, PhaseOK, HeapOK
<1>5. TriColour'
  BY DEF TypeOK, HeapOK, LocksOK, PhaseOK, TriColour, Scanning
<1> QED
  BY <1>W, <1>1, <1>2, <1>3, <1>4, <1>5

LEMMA PopInv ==
  ASSUME IndInv, Pop
  PROVE  IndInv'
<1> USE MemMgrAssumption DEF IndInv, Procs, Pop, heap, marks, locks
<1>W. WaitsOK' /\ waiting' \in [Procs -> {"no", "mutex", "cond", "woken"}]
  BY MemMgrWaitsOK, MemMgrAssumption DEF Procs, MemMgrNext
<1>0. /\ Last(to_be_scanned) \in Objects
      /\ Front(to_be_scanned) \in Seq(Objects) /\ IsInjective(Front(to_be_scanned))
      /\ Range(to_be_scanned) = Range(Front(to_be_scanned)) \union {Last(to_be_scanned)}
  BY PopFacts DEF TypeOK
<1>1. TypeOK'
  BY <1>0 DEF TypeOK, HeapOK, Phases
<1>2. HeapOK'
  BY <1>0 DEF TypeOK, HeapOK
<1>3. LocksOK'
  BY DEF TypeOK, LocksOK, HeapOK
<1>4. PhaseOK'
  BY DEF TypeOK, PhaseOK, HeapOK
<1>5. TriColour'
  BY <1>0 DEF TypeOK, HeapOK, LocksOK, PhaseOK, TriColour, Scanning
<1> QED
  BY <1>W, <1>1, <1>2, <1>3, <1>4, <1>5

LEMMA ListEmptyInv ==
  ASSUME IndInv, ListEmpty
  PROVE  IndInv'
<1> USE MemMgrAssumption DEF IndInv, Procs, ListEmpty, heap, marks, locks
<1>W. WaitsOK' /\ waiting' \in [Procs -> {"no", "mutex", "cond", "woken"}]
  BY MemMgrWaitsOK, MemMgrAssumption DEF Procs, MemMgrNext
<1>1. TypeOK'
  BY DEF TypeOK, HeapOK, Phases
<1>2. HeapOK'
  BY DEF TypeOK, HeapOK
<1>3. LocksOK'
  BY DEF TypeOK, LocksOK, HeapOK
<1>4. PhaseOK'
  BY DEF TypeOK, PhaseOK, HeapOK
<1>5. TriColour'
  BY DEF TypeOK, HeapOK, LocksOK, PhaseOK, TriColour, Scanning
<1> QED
  BY <1>W, <1>1, <1>2, <1>3, <1>4, <1>5

LEMMA EndMarkingInv ==
  ASSUME IndInv, EndMarking
  PROVE  IndInv'
<1> USE MemMgrAssumption DEF IndInv, Procs, EndMarking, heap, marks, locks
<1>W. WaitsOK' /\ waiting' \in [Procs -> {"no", "mutex", "cond", "woken"}]
  BY MemMgrWaitsOK, MemMgrAssumption DEF Procs, MemMgrNext
<1>0. PICK o \in obj_list : mm' = [mm EXCEPT !.pc = "sweep", !.obj = o, !.todo = obj_list \ {o}]
  OBVIOUS
<1>1. TypeOK'
  <2>1. mm' \in [pc : {"clear", "root", "read", "vals", "mark", "pop", "sleep", "sweep"},
                 obj : Objects, todo : SUBSET Objects, val : Objects \union {None}]
    BY <1>0 DEF TypeOK
  <2> QED
    BY <2>1 DEF TypeOK, Phases
<1>2. HeapOK'
  BY DEF TypeOK, HeapOK
<1>3. LocksOK'
  BY DEF TypeOK, LocksOK, HeapOK
<1>4. PhaseOK'
  BY DEF TypeOK, PhaseOK, HeapOK
<1>5. TriColour'
  BY DEF TypeOK, HeapOK, LocksOK, PhaseOK, TriColour, Scanning
<1> QED
  BY <1>W, <1>1, <1>2, <1>3, <1>4, <1>5

LEMMA SweepInv ==
  ASSUME IndInv, Sweep
  PROVE  IndInv'
<1> USE MemMgrAssumption DEF IndInv, Procs, Sweep, heap, marks, locks
<1>W. WaitsOK' /\ waiting' \in [Procs -> {"no", "mutex", "cond", "woken"}]
  BY MemMgrWaitsOK, MemMgrAssumption DEF Procs, MemMgrNext
<1>0. /\ obj_list' = obj_list /\ obj_list \subseteq Objects /\ mm.todo \subseteq obj_list
      /\ mm.pc = "sweep" /\ phase = "deleting"
      /\ UNCHANGED <<refs, del_locked, state, scanned, readers, wrlock, waiting, to_be_scanned, thr, ops>>
  BY DEF TypeOK, HeapOK, PhaseOK
<1>3. \/ \E o \in mm.todo : mm' = [mm EXCEPT !.obj = o, !.todo = @ \ {o}] /\ UNCHANGED phase
      \/ /\ \E o \in obj_list : mm' = [mm EXCEPT !.pc = "clear", !.obj = o, !.todo = obj_list \ {o}]
         /\ phase' = "clearing"
  BY <1>0
<1> HIDE DEF Sweep
<1>1. CASE \E o \in mm.todo : mm' = [mm EXCEPT !.obj = o, !.todo = @ \ {o}] /\ UNCHANGED phase
  <2>0. PICK o \in mm.todo : mm' = [mm EXCEPT !.obj = o, !.todo = @ \ {o}] /\ UNCHANGED phase
    BY <1>1
  <2>1. /\ mm' \in [pc : {"clear", "root", "read", "vals", "mark", "pop", "sleep", "sweep"},
                     obj : Objects, todo : SUBSET Objects, val : Objects \union {None}]
        /\ mm'.pc = "sweep" /\ mm'.obj = o /\ mm'.todo = mm.todo \ {o} /\ o \in obj_list
    BY <1>0, <2>0 DEF TypeOK
  <2>2. TypeOK'
    BY <1>0, <2>0, <2>1 DEF TypeOK
  <2>3. HeapOK'
    BY <1>0, <2>1 DEF TypeOK, HeapOK
  <2>4. LocksOK'
    BY <1>0, <2>1 DEF LocksOK
  <2>5. PhaseOK'
    BY <1>0, <2>0, <2>1 DEF PhaseOK
  <2>6. TriColour'
    BY <1>0, <2>0 DEF TriColour
  <2> QED
    BY <1>W, <2>2, <2>3, <2>4, <2>5, <2>6
<1>2. CASE /\ \E o \in obj_list : mm' = [mm EXCEPT !.pc = "clear", !.obj = o, !.todo = obj_list \ {o}]
           /\ phase' = "clearing"
  <2>0. PICK o \in obj_list : mm' = [mm EXCEPT !.pc = "clear", !.obj = o, !.todo = obj_list \ {o}]
    BY <1>2
  <2>1. /\ mm' \in [pc : {"clear", "root", "read", "vals", "mark", "pop", "sleep", "sweep"},
                     obj : Objects, todo : SUBSET Objects, val : Objects \union {None}]
        /\ mm'.pc = "clear" /\ mm'.obj = o /\ mm'.todo = obj_list \ {o} /\ o \in obj_list
    BY <1>0, <2>0 DEF TypeOK
  <2>2. TypeOK'
    BY <1>0, <1>2, <2>1 DEF TypeOK, Phases
  <2>3. HeapOK'
    BY <1>0, <2>1 DEF TypeOK, HeapOK
  <2>4. LocksOK'
    BY <1>0, <2>1 DEF LocksOK
  <2>5. PhaseOK'
    BY <1>0, <1>2, <2>1 DEF PhaseOK, HeapOK
  <2>6. TriColour'
    BY <1>2 DEF TriColour
  <2> QED
    BY <1>W, <2>2, <2>3, <2>4, <2>5, <2>6
<1> QED
  BY <1>1, <1>2, <1>3

-----------------------------------------------------------------------------
(* The theorems *)

LEMMA InitInv ==
  ASSUME Init
  PROVE  IndInv
<1> USE MemMgrAssumption DEF Init
<1>1. PICK o \in Heap : mm = [pc |-> "clear", obj |-> o, todo |-> Heap \ {o}, val |-> None]
  OBVIOUS
<1>2. /\ to_be_scanned = <<>> /\ to_be_scanned \in Seq(Objects)
      /\ IsInjective(to_be_scanned) /\ Range(to_be_scanned) = {}
  BY DEF IsInjective, Range
<1>3. TypeOK
  BY <1>1, <1>2 DEF TypeOK, Phases, Procs, Idle
<1>4. HeapOK
  BY <1>1, <1>2 DEF HeapOK, Idle
<1>5. LocksOK
  BY <1>1 DEF LocksOK, Idle
<1>6. PhaseOK /\ TriColour
  BY <1>1 DEF PhaseOK, TriColour
<1>7. WaitsOK
  BY DEF WaitsOK
<1> QED
  BY <1>3, <1>4, <1>5, <1>6, <1>7 DEF IndInv

\* The inductive invariant: what is known to a process is in the list, the locks
\* are held where the steps need them, and the marks follow the scan.
THEOREM Invariance == Spec => []IndInv
<1>1. IndInv /\ [Next]_vars => IndInv'
  <2> SUFFICES ASSUME IndInv, [Next]_vars PROVE IndInv'
    OBVIOUS
  <2>1. CASE MemMgrNext
    BY <2>1, ClearInv, MarkRootInv, ScanObjectInv, TestValueInv, MarkValueInv, ScanDoneInv,
       PopInv, ListEmptyInv, EndMarkingInv, SweepInv DEF MemMgrNext
  <2>2. ASSUME NEW t \in Threads, ThreadNext(t) PROVE IndInv'
    BY <2>2, CallExistingInv, CallNewInv, CallLocksInv, WriteLockInv, StoreInv, BarrierInv
       DEF ThreadNext
  <2>3. CASE UNCHANGED vars
    BY <2>3 DEF vars, heap, marks, locks, IndInv, TypeOK, HeapOK, LocksOK, WaitsOK, PhaseOK,
                TriColour, Scanning, Procs, Target, WantsWrite
  <2> QED
    BY <2>1, <2>2, <2>3, LockNextInv DEF Next
<1> QED
  BY InitInv, <1>1, PTL DEF Spec

\* Every variable keeps its type, and no object is on the list of objects to
\* scan twice.
THEOREM TypeCorrect == Spec => []TypeOK
<1>1. IndInv => TypeOK
  BY DEF IndInv
<1> QED
  BY <1>1, Invariance, PTL

\* Whatever the threads store and remove while the memory manager works, an
\* object that the root contains is in the list of objects.
THEOREM NothingLost == Spec => []NothingContainedFreed
<1>1. IndInv => NothingContainedFreed
  BY ContainedInList DEF IndInv, NothingContainedFreed
<1> QED
  BY <1>1, Invariance, PTL

\* The write barrier works: a scanned object that is not to be scanned again refers
\* to marked objects only.
THEOREM ScannedHidesNothing == Spec => []NoUnmarkedBehindScanned
<1>1. IndInv => NoUnmarkedBehindScanned
  BY DEF IndInv, TypeOK, TriColour, Scanning, NoUnmarkedBehindScanned, Condemned
<1> QED
  BY <1>1, Invariance, PTL

-----------------------------------------------------------------------------
(* Marks without calls of other threads.  What the root contains is the     *)
(* least set that holds the root and what its members refer to, so the      *)
(* marked objects, once they are such a set, hold all of it.                *)

\* Nothing waits to be scanned outside the marking phase.
ScansInMarking == phase # "marking" => to_be_scanned = <<>>

\* What has been cleared has no mark.
ClearedSoFar ==
  /\ phase = "clearing" => \A o \in obj_list \ (mm.todo \union {mm.obj}) : Condemned(o)
  /\ mm.pc = "root" => to_be_scanned = <<>> /\ \A o \in obj_list : Condemned(o)

\* What has been marked is contained, and has been or will be scanned.
MarkedSoFar ==
  phase = "marking" /\ mm.pc # "root" =>
    /\ Root \in scanned /\ Range(to_be_scanned) \subseteq scanned
    /\ \A o \in obj_list : ~Condemned(o) => o \in scanned /\ o \in Contained
    /\ Scanning => mm.obj \in scanned
    /\ mm.pc \in {"vals", "mark"} => mm.todo \subseteq refs[mm.obj]
    /\ mm.pc = "mark" => mm.val \in mm.todo

SweepExact == phase = "deleting" => \A o \in obj_list : ~Condemned(o) <=> o \in Contained

CalmInv ==
  undisturbed => /\ \A t \in Threads : thr[t].pc = "idle"
                 /\ ClearedSoFar /\ MarkedSoFar /\ SweepExact

MarkInv == ScansInMarking /\ CalmInv

LEMMA ContainedClosed ==
  ASSUME TypeOK
  PROVE  /\ Root \in Contained /\ Contained \subseteq Objects
         /\ \A o \in Contained : refs[o] \subseteq Contained
<1>1. Root \in Contained /\ Contained \subseteq Objects
  BY MemMgrAssumption DEF Contained
<1>2. ASSUME NEW o \in Contained, NEW v \in refs[o] PROVE v \in Contained
  <2>1. v \in Objects
    BY <1>1 DEF TypeOK
  <2>2. ASSUME NEW S \in SUBSET Objects, Root \in S, \A x \in S : refs[x] \subseteq S
        PROVE  v \in S
    BY <2>2 DEF Contained
  <2> QED
    BY <2>1, <2>2 DEF Contained
<1> QED
  BY <1>1, <1>2

\* A set that holds the root and what its members refer to holds what is contained.
LEMMA ContainedLeast ==
  ASSUME NEW S \in SUBSET Objects, Root \in S, \A x \in S : refs[x] \subseteq S
  PROVE  Contained \subseteq S
BY DEF Contained

\* A step of a thread: it ends the calm, or comes from a call.
LEMMA ThreadMarks ==
  ASSUME IndInv, MarkInv, NEW t \in Threads, ThreadNext(t)
  PROVE  MarkInv'
<1> USE DEF IndInv, heap, marks, locks
<1>1. CASE \/ \E op \in {"set", "del", "append"}, o, v \in Objects : CallExisting(t, op, o, v)
           \/ \E o, v \in Objects : CallNew(t, o, v)
  <2>1. ~undisturbed' /\ UNCHANGED <<phase, to_be_scanned>>
    BY <1>1 DEF CallExisting, CallNew, Call
  <2> QED
    BY <2>1 DEF MarkInv, ScansInMarking, CalmInv
<1>2. CASE \/ LockSelf(t) \/ LockParam(t) \/ Release(t) \/ WriteLock(t) \/ Store(t) \/ Barrier(t)
           \/ Relock(t) \/ UnlockSelf(t) \/ Return(t)
  <2>1. thr[t].pc # "idle" /\ UNCHANGED <<undisturbed, phase>>
    BY <1>2 DEF LockSelf, LockParam, Release, WriteLock, Store, Barrier, Relock, UnlockSelf,
                Return, Goto
  <2>2. ~undisturbed'
    BY <2>1 DEF MarkInv, CalmInv
  <2>3. ScansInMarking'
    BY <1>2, <2>1 DEF LockSelf, LockParam, Release, WriteLock, Store, Barrier, Relock,
       UnlockSelf, Return, Goto, MarkInv, ScansInMarking
  <2> QED
    BY <2>2, <2>3 DEF MarkInv, CalmInv
<1> QED
  BY <1>1, <1>2 DEF ThreadNext

\* A process that waits in write_lock disturbs no marks.
LEMMA LockNextMarks ==
  ASSUME MarkInv, NEW p \in Procs, LockNext(p)
  PROVE  MarkInv'
<1>1. UNCHANGED <<heap, marks, phase, to_be_scanned, mm, thr, undisturbed>>
  BY DEF LockNext, AwaitReaders, Sleep, Wake, SleepAgain
<1> QED
  BY <1>1 DEF heap, marks, MarkInv, ScansInMarking, CalmInv, ClearedSoFar, MarkedSoFar,
     SweepExact, Condemned, Contained, Scanning

\* A step of the memory manager leaves the threads, the references and, when no
\* object is freed, what is contained.
LEMMA MemMgrMarks ==
  ASSUME IndInv, MarkInv, MemMgrNext
  PROVE  UNCHANGED <<refs, thr, obj_list, Contained>>
<1> USE DEF IndInv, heap, marks, locks
<1>1. UNCHANGED <<refs, thr>>
  BY DEF MemMgrNext, Clear, MarkRoot, ScanObject, TestValue, MarkValue, ScanDone,
         Pop, ListEmpty, EndMarking, Sweep
<1>2. obj_list' = obj_list
  <2>1. CASE Sweep
    BY <2>1 DEF Sweep, HeapOK, TypeOK
  <2> QED
    BY <2>1 DEF MemMgrNext, Clear, MarkRoot, ScanObject, TestValue, MarkValue, ScanDone,
         Pop, ListEmpty, EndMarking
<1>3. Contained' = Contained
  BY <1>1 DEF Contained
<1> QED
  BY <1>1, <1>2, <1>3

LEMMA ClearMarks ==
  ASSUME IndInv, MarkInv, Clear
  PROVE  MarkInv'
<1> USE MemMgrAssumption DEF IndInv, Condemned
<1>1. /\ UNCHANGED <<refs, thr, obj_list, Contained>>
      /\ UNCHANGED <<to_be_scanned, undisturbed>>
  BY MemMgrMarks DEF MemMgrNext, Clear
<1>2. to_be_scanned = <<>> /\ phase = "clearing"
  BY DEF MarkInv, ScansInMarking, PhaseOK, Clear
<1>3. ASSUME undisturbed PROVE \A o \in obj_list \ mm.todo : state'[o] = "unmarked"
  <2>1. state' = [state EXCEPT ![mm.obj] = "unmarked"]
    BY DEF Clear
  <2>2. \A o \in obj_list \ (mm.todo \union {mm.obj}) : state[o] # "marked"
    BY <1>2, <1>3 DEF MarkInv, CalmInv, ClearedSoFar
  <2> QED
    BY <2>1, <2>2 DEF TypeOK
<1>4. \/ mm'.pc = "clear" /\ mm'.todo \union {mm'.obj} = mm.todo /\ phase' = "clearing"
      \/ mm'.pc = "root" /\ mm.todo = {} /\ phase' = "marking"
  <2>1. CASE \E o \in mm.todo : mm' = [mm EXCEPT !.obj = o, !.todo = @ \ {o}] /\ UNCHANGED phase
    <3>1. PICK o \in mm.todo : mm' = [mm EXCEPT !.obj = o, !.todo = @ \ {o}]
      BY <2>1
    <3>2. mm'.pc = "clear" /\ mm'.obj = o /\ mm'.todo = mm.todo \ {o}
      BY <3>1 DEF TypeOK, Clear
    <3> QED
      BY <1>2, <2>1, <3>2
  <2>2. CASE mm.todo = {} /\ mm' = [mm EXCEPT !.pc = "root", !.obj = Root] /\ phase' = "marking"
    BY <2>2 DEF TypeOK
  <2> QED
    BY <2>1, <2>2 DEF Clear
<1>5. ASSUME undisturbed PROVE ClearedSoFar' /\ MarkedSoFar' /\ SweepExact'
  BY <1>1, <1>2, <1>3, <1>4, <1>5 DEF ClearedSoFar, MarkedSoFar, SweepExact
<1> QED
  BY <1>1, <1>2, <1>5 DEF MarkInv, CalmInv, ScansInMarking

LEMMA MarkRootMarks ==
  ASSUME IndInv, MarkInv, MarkRoot
  PROVE  MarkInv'
<1> USE MemMgrAssumption DEF IndInv, MarkRoot, Mark, heap, marks, locks, Condemned
<1>1. /\ UNCHANGED <<refs, thr, obj_list, Contained>>
      /\ UNCHANGED <<to_be_scanned, undisturbed, phase>>
  BY MemMgrMarks DEF MemMgrNext
<1>2. /\ phase = "marking" /\ mm'.pc = "read" /\ mm'.obj = Root
      /\ Root \in scanned' /\ Root \in Contained
      /\ state' = [state EXCEPT ![Root] = "marked"]
  BY ContainedClosed DEF PhaseOK, TypeOK, Phases
<1>3. ASSUME undisturbed PROVE ClearedSoFar' /\ MarkedSoFar' /\ SweepExact'
  <2>1. to_be_scanned = <<>> /\ \A o \in obj_list : state[o] # "marked"
    BY <1>3 DEF MarkInv, CalmInv, ClearedSoFar
  <2>2. \A o \in obj_list : state'[o] = "marked" => o = Root
    BY <1>2, <2>1 DEF TypeOK
  <2> QED
    BY <1>1, <1>2, <2>1, <2>2 DEF ClearedSoFar, MarkedSoFar, SweepExact, Range
<1> QED
  BY <1>1, <1>2, <1>3 DEF MarkInv, CalmInv, ScansInMarking

LEMMA ScanObjectMarks ==
  ASSUME IndInv, MarkInv, ScanObject
  PROVE  MarkInv'
<1> USE MemMgrAssumption DEF IndInv, ScanObject, ReadLock, heap, marks, locks, Condemned
<1>1. /\ UNCHANGED <<refs, thr, obj_list, Contained>>
      /\ UNCHANGED <<to_be_scanned, undisturbed, phase, scanned>>
  BY MemMgrMarks DEF MemMgrNext
<1>2. /\ phase = "marking" /\ mm.pc = "read" /\ mm'.pc = "vals" /\ mm'.obj = mm.obj
      /\ mm'.todo \subseteq refs[mm.obj] /\ mm.obj \in obj_list
      /\ state' = [state EXCEPT ![mm.obj] = "marked"]
  BY DEF PhaseOK, TypeOK, Phases, HeapOK
<1>3. ASSUME undisturbed PROVE ClearedSoFar' /\ MarkedSoFar' /\ SweepExact'
  <2>1. MarkedSoFar /\ mm.obj \in scanned
    BY <1>2, <1>3 DEF MarkInv, CalmInv, MarkedSoFar, Scanning
  <2>2. state[mm.obj] = "marked" /\ state' = state
    BY <1>2, <2>1 DEF TriColour, TypeOK
  <2> QED
    BY <1>1, <1>2, <2>1, <2>2 DEF ClearedSoFar, MarkedSoFar, SweepExact, Scanning
<1> QED
  BY <1>1, <1>2, <1>3 DEF MarkInv, CalmInv, ScansInMarking

LEMMA TestValueMarks ==
  ASSUME IndInv, MarkInv, NEW v \in Objects, TestValue(v)
  PROVE  MarkInv'
<1> USE MemMgrAssumption DEF IndInv, TestValue, heap, marks, locks
<1>1. /\ UNCHANGED <<refs, thr, obj_list, Contained>>
      /\ UNCHANGED <<to_be_scanned, undisturbed, phase, scanned, state>>
  BY MemMgrMarks DEF MemMgrNext
<1>2. /\ phase = "marking" /\ mm.pc = "vals" /\ mm'.pc \in {"vals", "mark"} /\ mm'.obj = mm.obj
      /\ mm'.todo \subseteq mm.todo /\ mm'.pc = "mark" => mm'.val \in mm'.todo
  BY DEF PhaseOK, TypeOK, Phases
<1> QED
  BY <1>1, <1>2 DEF MarkInv, CalmInv, ScansInMarking, ClearedSoFar, MarkedSoFar, SweepExact,
     Scanning, Condemned

LEMMA MarkValueMarks ==
  ASSUME IndInv, MarkInv, MarkValue
  PROVE  MarkInv'
<1> USE MemMgrAssumption DEF IndInv, MarkValue, Mark, heap, marks, locks, Condemned
<1>1. /\ UNCHANGED <<refs, thr, obj_list, Contained>>
      /\ UNCHANGED <<undisturbed, phase>>
  BY MemMgrMarks DEF MemMgrNext
<1>2. /\ phase = "marking" /\ mm.pc = "mark" /\ mm'.pc = "vals" /\ mm'.obj = mm.obj
      /\ mm'.todo = mm.todo \ {mm.val} /\ mm.val \in Objects /\ mm.val \in obj_list
      /\ state' = [state EXCEPT ![mm.val] = "marked"] /\ scanned' = scanned \union {mm.val}
  BY DEF PhaseOK, TypeOK, Phases, HeapOK
<1>3. Range(to_be_scanned') = Range(to_be_scanned) \union {mm.val}
  <2>1. to_be_scanned \in Seq(Objects) /\ IsInjective(to_be_scanned) /\ mm.val \in Objects
    BY <1>2 DEF TypeOK
  <2>2. to_be_scanned' = Push(to_be_scanned, mm.val)
    OBVIOUS
  <2> QED
    BY <2>1, <2>2, PushFacts
<1>4. ASSUME undisturbed PROVE ClearedSoFar' /\ MarkedSoFar' /\ SweepExact'
  <2>1. MarkedSoFar /\ mm.obj \in scanned /\ mm.val \in refs[mm.obj]
    BY <1>2, <1>4 DEF MarkInv, CalmInv, MarkedSoFar, Scanning
  <2>2. mm.obj \in Contained
    BY <1>2, <2>1 DEF TriColour, MarkedSoFar, HeapOK
  <2>3. mm.val \in Contained
    BY <2>1, <2>2, ContainedClosed
  <2> QED
    BY <1>1, <1>2, <1>3, <2>1, <2>3 DEF ClearedSoFar, MarkedSoFar, SweepExact, Scanning, TypeOK
<1> QED
  BY <1>1, <1>2, <1>4 DEF MarkInv, CalmInv, ScansInMarking

LEMMA ScanDoneMarks ==
  ASSUME IndInv, MarkInv, ScanDone \/ ListEmpty
  PROVE  MarkInv'
<1> USE DEF IndInv, ScanDone, ListEmpty, heap, marks, locks
<1>1. /\ UNCHANGED <<refs, thr, obj_list, Contained>>
      /\ UNCHANGED <<to_be_scanned, undisturbed, phase, scanned, state>>
  BY MemMgrMarks DEF MemMgrNext
<1>2. phase = "marking" /\ mm.pc # "root" /\ mm'.pc \in {"pop", "sleep"}
  BY DEF PhaseOK, TypeOK, Phases
<1> QED
  BY <1>1, <1>2 DEF MarkInv, CalmInv, ScansInMarking, ClearedSoFar, MarkedSoFar, SweepExact,
     Scanning, Condemned

LEMMA PopMarks ==
  ASSUME IndInv, MarkInv, Pop
  PROVE  MarkInv'
<1> USE DEF IndInv, Pop, heap, marks, locks
<1>1. /\ UNCHANGED <<refs, thr, obj_list, Contained>>
      /\ UNCHANGED <<undisturbed, phase, scanned, state>>
  BY MemMgrMarks DEF MemMgrNext
<1>2. /\ phase = "marking" /\ mm.pc # "root" /\ mm'.pc = "read"
      /\ mm'.obj = Last(to_be_scanned)
  BY DEF PhaseOK, TypeOK, Phases
<1>3. Range(to_be_scanned) = Range(to_be_scanned') \union {mm'.obj}
  BY <1>2, PopFacts DEF TypeOK
<1> QED
  BY <1>1, <1>2, <1>3 DEF MarkInv, CalmInv, ScansInMarking, ClearedSoFar, MarkedSoFar,
     SweepExact, Scanning, Condemned

\* With nothing left to scan, the marked objects refer to marked objects.
LEMMA EndMarkingMarks ==
  ASSUME IndInv, MarkInv, EndMarking
  PROVE  MarkInv'
<1> USE MemMgrAssumption DEF IndInv, EndMarking, heap, marks, locks
<1>1. /\ UNCHANGED <<refs, thr, obj_list, Contained>>
      /\ UNCHANGED <<to_be_scanned, undisturbed, scanned, state>>
  BY MemMgrMarks DEF MemMgrNext
<1>2. /\ phase = "marking" /\ mm.pc = "sleep" /\ phase' = "deleting" /\ mm'.pc = "sweep"
      /\ to_be_scanned = <<>>
  BY DEF PhaseOK, TypeOK, Phases
<1>3. ASSUME undisturbed PROVE \A o \in obj_list : ~Condemned(o) <=> o \in Contained
  <2>1. /\ Root \in scanned /\ \A o \in obj_list : ~Condemned(o) => o \in Contained
    BY <1>2, <1>3 DEF MarkInv, CalmInv, MarkedSoFar
  <2>2. \A o \in scanned : state[o] = "marked" /\ \A v \in refs[o] : state[v] = "marked"
    BY <1>2, <1>3 DEF TriColour, Scanning, Range, TypeOK
  <2>3. \A o \in obj_list : state[o] = "marked" => o \in scanned
    BY <1>2, <1>3 DEF MarkInv, CalmInv, MarkedSoFar, Condemned
  <2>4. \A o \in scanned : refs[o] \subseteq scanned
    BY <2>2, <2>3 DEF HeapOK, TypeOK
  <2>5. Contained \subseteq scanned
    BY <2>1, <2>4, ContainedLeast DEF TypeOK
  <2> QED
    BY <2>1, <2>2, <2>5 DEF Condemned
<1> QED
  BY <1>1, <1>2, <1>3 DEF MarkInv, CalmInv, ScansInMarking, ClearedSoFar, MarkedSoFar,
     SweepExact, Condemned

LEMMA SweepMarks ==
  ASSUME IndInv, MarkInv, Sweep
  PROVE  MarkInv'
<1> USE DEF IndInv
<1>1. /\ UNCHANGED <<refs, thr, obj_list, Contained>>
      /\ UNCHANGED <<to_be_scanned, scanned, state>>
  BY MemMgrMarks DEF MemMgrNext, Sweep, marks
<1>2. to_be_scanned = <<>> /\ phase = "deleting"
  BY DEF MarkInv, ScansInMarking, PhaseOK, Sweep
<1>3. CASE \E o \in mm.todo : mm' = [mm EXCEPT !.obj = o, !.todo = @ \ {o}]
                              /\ UNCHANGED <<phase, undisturbed>>
  <2>1. mm'.pc = "sweep"
    BY <1>3 DEF TypeOK, Sweep
  <2> QED
    BY <1>1, <1>2, <1>3, <2>1 DEF MarkInv, CalmInv, ScansInMarking, ClearedSoFar,
       MarkedSoFar, SweepExact, Condemned
<1>4. CASE /\ \E o \in obj_list' : mm' = [mm EXCEPT !.pc = "clear", !.obj = o, !.todo = obj_list' \ {o}]
           /\ phase' = "clearing"
           /\ undisturbed' = \A t \in Threads : thr[t].pc = "idle"
  <2>1. mm'.pc = "clear" /\ mm'.todo \union {mm'.obj} = obj_list'
    <3>1. PICK o \in obj_list' : mm' = [mm EXCEPT !.pc = "clear", !.obj = o, !.todo = obj_list' \ {o}]
      BY <1>4
    <3>2. mm'.pc = "clear" /\ mm'.obj = o /\ mm'.todo = obj_list' \ {o}
      BY <3>1 DEF TypeOK
    <3> QED
      BY <3>2
  <2> QED
    BY <1>1, <1>2, <1>4, <2>1 DEF MarkInv, CalmInv, ScansInMarking, ClearedSoFar,
       MarkedSoFar, SweepExact, Condemned
<1> QED
  BY <1>3, <1>4 DEF Sweep

LEMMA InitMarks ==
  ASSUME Init
  PROVE  MarkInv
BY MemMgrAssumption DEF Init, Idle, MarkInv, ScansInMarking, CalmInv,
   ClearedSoFar, MarkedSoFar, SweepExact

LEMMA MarksKept == IndInv /\ MarkInv /\ [Next]_vars => MarkInv'
<1>1. ASSUME IndInv, MarkInv, UNCHANGED vars PROVE MarkInv'
  BY <1>1 DEF vars, heap, marks, locks, MarkInv, ScansInMarking, CalmInv,
     ClearedSoFar, MarkedSoFar, SweepExact, Condemned, Contained, Scanning
<1> QED
  BY <1>1, ThreadMarks, LockNextMarks, ClearMarks, MarkRootMarks, ScanObjectMarks, TestValueMarks,
     MarkValueMarks, ScanDoneMarks, PopMarks, EndMarkingMarks, SweepMarks
     DEF Next, MemMgrNext

\* A round of the memory manager without a call marks what the root contains and
\* nothing else, whatever the references.
THEOREM MarksExact == Spec => []MarksExactWhenUndisturbed
<1>1. IndInv /\ MarkInv => MarksExactWhenUndisturbed
  BY DEF IndInv, PhaseOK, MarkInv, CalmInv, SweepExact, MarksExactWhenUndisturbed
<1> QED
  BY InitMarks, MarksKept, <1>1, Invariance, PTL DEF Spec

-----------------------------------------------------------------------------
(* Where the system can stop *)

\* What thread t may have read-locked: its object and its parameter, in the call of
\* a C function.
ReadsInCall(t, o) ==
  /\ thr[t].op = "append"
  /\ \/ thr[t].pc \in {"param", "release", "unlock"} /\ o = thr[t].obj
     \/ /\ thr[t].pc \in {"release", "write", "store", "barrier", "relock", "unlock", "return"}
        /\ o = thr[t].val /\ o # thr[t].obj

\* Who reads: the memory manager the object whose values it looks at, a thread what
\* its call has locked.
ReadersInCalls ==
  \A o \in Objects : \A p \in readers[o] :
    \/ p = MemMgr /\ mm.pc \in {"vals", "mark"} /\ o = mm.obj
    \/ p \in Threads /\ ReadsInCall(p, o)

\* No call and no scan locks an object that it has read-locked.
NeverTwice ==
  /\ \A t \in Threads : thr[t].pc \in {"self", "param", "release", "relock", "unlock", "return"} =>
                          thr[t].op = "append"
  /\ \A t \in Threads : thr[t].pc \in {"param", "return"} => thr[t].obj # thr[t].val
  /\ mm.pc \in {"vals", "mark"} => mm.obj \notin mm.todo
  /\ mm.pc = "mark" => mm.val # mm.obj

\* Who has a spinlock is storing, or waits for write_mutex.
Spins(p, o) ==
  /\ Target(p) = o
  /\ waiting[p] = "mutex" \/ (p \in Threads /\ thr[p].pc \in {"store", "barrier"})

SpinsInCalls == \A o \in Objects : \A p \in Procs : wrlock[o] = p => Spins(p, o)

WaitInv == ReadersInCalls /\ NeverTwice /\ SpinsInCalls

\* What has to be shown of a step of thread t: where it reads, what it locks next
\* and what it spins on.
LEMMA ThreadWaits ==
  ASSUME IndInv, WaitInv, NEW t \in Threads, mm' = mm,
         \A u \in Threads \ {t} : thr'[u] = thr[u],
         \A p \in Procs \ {t} : waiting'[p] = waiting[p],
         \A o \in Objects : readers'[o] \ {t} \subseteq readers[o],
         \A o \in Objects : t \in readers'[o] => ReadsInCall(t, o)',
         \A o \in Objects : wrlock'[o] \in {wrlock[o], t, None},
         \A o \in Objects : wrlock'[o] = t => Spins(t, o)',
         thr'[t].pc \in {"self", "param", "release", "relock", "unlock", "return"} =>
           thr'[t].op = "append",
         thr'[t].pc \in {"param", "return"} => thr'[t].obj # thr'[t].val
  PROVE  WaitInv'
<1> USE MemMgrAssumption
<1>1. ReadersInCalls'
  <2> SUFFICES ASSUME NEW o \in Objects, NEW p \in readers'[o]
               PROVE  \/ p = MemMgr /\ mm'.pc \in {"vals", "mark"} /\ o = mm'.obj
                      \/ p \in Threads /\ ReadsInCall(p, o)'
    BY DEF ReadersInCalls
  <2>1. CASE p = t
    BY <2>1
  <2>2. CASE p # t
    <3>1. p \in readers[o]
      BY <2>2
    <3>2. p \in Threads => (ReadsInCall(p, o)' <=> ReadsInCall(p, o))
      BY <2>2 DEF ReadsInCall
    <3> QED
      BY <3>1, <3>2 DEF WaitInv, ReadersInCalls
  <2> QED
    BY <2>1, <2>2
<1>2. NeverTwice'
  BY DEF WaitInv, NeverTwice
<1>3. SpinsInCalls'
  <2> SUFFICES ASSUME NEW o \in Objects, NEW p \in Procs, wrlock'[o] = p
               PROVE  Spins(p, o)'
    BY DEF SpinsInCalls
  <2>1. CASE p = t
    BY <2>1
  <2>2. CASE p # t
    <3>1. p # None
      BY DEF Procs
    <3>2. wrlock[o] = p
      BY <2>2, <3>1
    <3>3. Spins(p, o)
      BY <3>2 DEF WaitInv, SpinsInCalls
    <3>4. Target(p)' = Target(p)
      BY <2>2, ThreadsApart
    <3>5. waiting'[p] = waiting[p] /\ (p \in Threads => thr'[p] = thr[p])
      BY <2>2
    <3> QED
      BY <3>3, <3>4, <3>5 DEF Spins
  <2> QED
    BY <2>1, <2>2
<1> QED
  BY <1>1, <1>2, <1>3 DEF WaitInv

\* A thread that neither stores nor waits for write_mutex has no spinlock.
LEMMA SpinsNot ==
  ASSUME WaitInv, NEW p \in Procs, waiting[p] # "mutex",
         p \in Threads => thr[p].pc \notin {"store", "barrier"}
  PROVE  \A o \in Objects : wrlock[o] # p
BY DEF WaitInv, SpinsInCalls, Spins

LEMMA CallWaits ==
  ASSUME IndInv, WaitInv, NEW t \in Threads,
         \/ \E op \in {"set", "del", "append"}, o, v \in Objects : CallExisting(t, op, o, v)
         \/ \E o, v \in Objects : CallNew(t, o, v)
  PROVE  WaitInv'
<1> USE MemMgrAssumption
<1>1. PICK op \in {"set", "del", "append"}, o \in Objects, v \in Objects :
        /\ Call(t, op, o, v)
        /\ UNCHANGED <<locks, mm>>
  BY DEF CallExisting, CallNew
<1>2. /\ thr[t] = Idle /\ UNCHANGED <<readers, wrlock, waiting, mm>>
      /\ thr' = [thr EXCEPT ![t] =
           [pc |-> IF op = "append" THEN "self" ELSE "write", op |-> op, obj |-> o, val |-> v]]
  BY <1>1 DEF Call, locks
<1>3. /\ thr[t].pc = "idle" /\ \A u \in Threads \ {t} : thr'[u] = thr[u]
      /\ thr'[t] = [pc |-> IF op = "append" THEN "self" ELSE "write", op |-> op, obj |-> o, val |-> v]
  BY <1>2 DEF IndInv, TypeOK, Idle
<1>4. \A x \in Objects : t \notin readers[x]
  BY <1>3 DEF WaitInv, ReadersInCalls, ReadsInCall
<1>5. \A x \in Objects : wrlock[x] # t
  <2>1. waiting[t] # "mutex"
    BY <1>3 DEF IndInv, WaitsOK, WantsWrite, Procs
  <2> QED
    BY <1>3, <2>1, SpinsNot DEF Procs
<1>6. thr'[t].pc \in {"self", "write"} /\ (thr'[t].pc = "self" => thr'[t].op = "append")
  BY <1>3
<1> QED
  BY <1>2, <1>3, <1>4, <1>5, <1>6, ThreadWaits

\* The steps of a call that only lock or unlock.
LEMMA CallLocksWait ==
  ASSUME IndInv, WaitInv, NEW t \in Threads,
         LockSelf(t) \/ LockParam(t) \/ Release(t) \/ Relock(t) \/ UnlockSelf(t) \/ Return(t)
  PROVE  WaitInv'
<1> USE MemMgrAssumption
<1>1. /\ thr[t].pc \in {"self", "param", "release", "relock", "unlock", "return"}
      /\ thr[t].op = "append" /\ UNCHANGED <<wrlock, waiting, mm>>
  BY DEF LockSelf, LockParam, Release, Relock, UnlockSelf, Return, ReadLock, ReadUnlock, Goto,
         WaitInv, NeverTwice
<1>2. thr[t].obj \in Objects /\ thr[t].val \in Objects
  BY <1>1 DEF IndInv, TypeOK, HeapOK
<1>3. \A o \in Objects : wrlock[o] # t
  <2>1. waiting[t] # "mutex"
    BY <1>1 DEF IndInv, WaitsOK, WantsWrite, Procs
  <2> QED
    BY <1>1, <2>1, SpinsNot DEF Procs
<1>4. ASSUME NEW s \in {"idle", "param", "release", "write", "unlock", "return"}, Goto(t, s),
             NEW x \in {thr[t].obj, thr[t].val},
             \/ readers' = [readers EXCEPT ![x] = @ \union {t}]
             \/ readers' = [readers EXCEPT ![x] = @ \ {t}],
             \A o \in Objects : t \in readers'[o] =>
               \/ s \in {"param", "release", "unlock"} /\ o = thr[t].obj
               \/ s \in {"release", "write", "unlock", "return"} /\ o = thr[t].val /\ o # thr[t].obj,
             s \in {"param", "return"} => thr[t].obj # thr[t].val
      PROVE  WaitInv'
  <2>1. thr' = [thr EXCEPT ![t] = IF s = "idle" THEN Idle ELSE [@ EXCEPT !.pc = s]]
    BY <1>4 DEF Goto
  <2>2. /\ thr' \in [Threads -> [pc : {"idle", "self", "param", "release", "write", "store",
                                       "barrier", "relock", "unlock", "return"},
                                 op : {"set", "del", "append", None},
                                 obj : Objects \union {None}, val : Objects \union {None}]]
        /\ thr'[t].pc = s /\ \A u \in Threads \ {t} : thr'[u] = thr[u]
        /\ s # "idle" => thr'[t].obj = thr[t].obj /\ thr'[t].val = thr[t].val /\ thr'[t].op = thr[t].op
    BY <1>1, <2>1, GotoFacts DEF IndInv
  <2>4. \A o \in Objects : readers'[o] \ {t} \subseteq readers[o]
    BY <1>2, <1>4 DEF IndInv, TypeOK
  <2>5. ASSUME NEW o \in Objects, t \in readers'[o] PROVE ReadsInCall(t, o)'
    BY <1>1, <1>4, <2>2, <2>5 DEF ReadsInCall
  <2>6. s \in {"self", "param", "release", "relock", "unlock", "return"} => thr'[t].op = "append"
    BY <1>1, <2>2
  <2>7. s \in {"param", "return"} => thr'[t].obj # thr'[t].val
    BY <1>4, <2>2
  <2> QED
    BY <1>1, <1>3, <2>2, <2>4, <2>5, <2>6, <2>7, ThreadWaits
<1>5. \A o \in Objects : t \in readers[o] =>
        \/ thr[t].pc \in {"param", "release", "unlock"} /\ o = thr[t].obj
        \/ /\ thr[t].pc \in {"release", "relock", "unlock", "return"}
           /\ o = thr[t].val /\ o # thr[t].obj
  BY <1>1 DEF WaitInv, ReadersInCalls, ReadsInCall
<1>6. readers \in [Objects -> SUBSET Procs]
  BY DEF IndInv, TypeOK
<1>7. CASE LockSelf(t)
  <2>1. /\ thr[t].pc = "self" /\ readers' = [readers EXCEPT ![thr[t].obj] = @ \union {t}]
        /\ Goto(t, IF thr[t].val = thr[t].obj THEN "release" ELSE "param")
    BY <1>7 DEF LockSelf, ReadLock
  <2>2. \A o \in Objects : t \in readers'[o] => o = thr[t].obj
    BY <1>2, <1>5, <1>6, <2>1
  <2>3. CASE thr[t].val = thr[t].obj
    BY <2>1, <2>2, <2>3, <1>4
  <2>4. CASE thr[t].val # thr[t].obj
    BY <2>1, <2>2, <2>4, <1>4
  <2> QED
    BY <2>3, <2>4
<1>8. CASE LockParam(t)
  <2>1. /\ thr[t].pc = "param" /\ readers' = [readers EXCEPT ![thr[t].val] = @ \union {t}]
        /\ Goto(t, "release")
    BY <1>8 DEF LockParam, ReadLock
  <2>2. thr[t].obj # thr[t].val
    BY <2>1 DEF WaitInv, NeverTwice
  <2>3. \A o \in Objects : t \in readers'[o] => o = thr[t].obj \/ (o = thr[t].val /\ o # thr[t].obj)
    BY <1>2, <1>5, <1>6, <2>1, <2>2
  <2> QED
    BY <2>1, <2>3, <1>4
<1>9. CASE Release(t)
  <2>1. /\ thr[t].pc = "release" /\ readers' = [readers EXCEPT ![thr[t].obj] = @ \ {t}]
        /\ Goto(t, "write")
    BY <1>9 DEF Release, ReadUnlock
  <2>2. \A o \in Objects : t \in readers'[o] => o = thr[t].val /\ o # thr[t].obj
    BY <1>2, <1>5, <1>6, <2>1
  <2> QED
    BY <2>1, <2>2, <1>4
<1>10. CASE Relock(t)
  <2>1. /\ thr[t].pc = "relock" /\ readers' = [readers EXCEPT ![thr[t].obj] = @ \union {t}]
        /\ Goto(t, "unlock")
    BY <1>10 DEF Relock, ReadLock
  <2>2. \A o \in Objects : t \in readers'[o] => o = thr[t].obj \/ (o = thr[t].val /\ o # thr[t].obj)
    BY <1>2, <1>5, <1>6, <2>1
  <2> QED
    BY <2>1, <2>2, <1>4
<1>11. CASE UnlockSelf(t)
  <2>1. /\ thr[t].pc = "unlock" /\ readers' = [readers EXCEPT ![thr[t].obj] = @ \ {t}]
        /\ Goto(t, IF thr[t].val = thr[t].obj THEN "idle" ELSE "return")
    BY <1>11 DEF UnlockSelf, ReadUnlock
  <2>2. \A o \in Objects : t \in readers'[o] => o = thr[t].val /\ o # thr[t].obj
    BY <1>2, <1>5, <1>6, <2>1
  <2>3. CASE thr[t].val = thr[t].obj
    BY <2>1, <2>2, <2>3, <1>4
  <2>4. CASE thr[t].val # thr[t].obj
    BY <2>1, <2>2, <2>4, <1>4
  <2> QED
    BY <2>3, <2>4
<1>12. CASE Return(t)
  <2>1. /\ thr[t].pc = "return" /\ readers' = [readers EXCEPT ![thr[t].val] = @ \ {t}]
        /\ Goto(t, "idle")
    BY <1>12 DEF Return, ReadUnlock
  <2>2. \A o \in Objects : t \notin readers'[o]
    BY <1>2, <1>5, <1>6, <2>1
  <2> QED
    BY <2>1, <2>2, <1>4
<1> QED
  BY <1>7, <1>8, <1>9, <1>10, <1>11, <1>12

\* The steps of write_lock, the change and write_unlock leave the read locks.
LEMMA CallWritesWait ==
  ASSUME IndInv, WaitInv, NEW t \in Threads, WriteLock(t) \/ Store(t) \/ Barrier(t)
  PROVE  WaitInv'
<1> USE MemMgrAssumption
<1>1. /\ thr[t].pc \in {"write", "store", "barrier"} /\ UNCHANGED <<readers, mm>>
      /\ waiting' = waiting \/ waiting' = [waiting EXCEPT ![t] = "no"]
  BY DEF WriteLock, Store, Barrier, EndWait, Goto
<1>2. \E s \in {"idle", "store", "barrier", "relock"} :
        /\ thr' = [thr EXCEPT ![t] = IF s = "idle" THEN Idle ELSE [@ EXCEPT !.pc = s]]
        /\ s = "idle" => thr[t].op # "append"
        /\ s = "relock" => thr[t].op = "append"
        /\ \/ wrlock' = [wrlock EXCEPT ![thr[t].obj] = None]
           \/ wrlock' = [wrlock EXCEPT ![thr[t].obj] = t] /\ s \in {"store", "barrier"}
           \/ wrlock' = wrlock /\ s \in {"store", "barrier"}
  BY DEF WriteLock, Store, Barrier, AfterUnlock, Goto
<1>3. PICK s \in {"idle", "store", "barrier", "relock"} :
        /\ thr' = [thr EXCEPT ![t] = IF s = "idle" THEN Idle ELSE [@ EXCEPT !.pc = s]]
        /\ s = "idle" => thr[t].op # "append"
        /\ s = "relock" => thr[t].op = "append"
        /\ \/ wrlock' = [wrlock EXCEPT ![thr[t].obj] = None]
           \/ wrlock' = [wrlock EXCEPT ![thr[t].obj] = t] /\ s \in {"store", "barrier"}
           \/ wrlock' = wrlock /\ s \in {"store", "barrier"}
  BY <1>2
<1>4. /\ thr' \in [Threads -> [pc : {"idle", "self", "param", "release", "write", "store",
                                     "barrier", "relock", "unlock", "return"},
                               op : {"set", "del", "append", None},
                               obj : Objects \union {None}, val : Objects \union {None}]]
      /\ thr'[t].pc = s /\ \A u \in Threads \ {t} : thr'[u] = thr[u]
      /\ s # "idle" => thr'[t].obj = thr[t].obj /\ thr'[t].val = thr[t].val /\ thr'[t].op = thr[t].op
  BY <1>1, <1>3, GotoFacts DEF IndInv
<1>6. /\ thr[t].obj \in Objects /\ t \in Procs /\ Target(t) = thr[t].obj
      /\ wrlock \in [Objects -> Procs \union {None}] /\ waiting \in [Procs -> {"no", "mutex", "cond", "woken"}]
  BY <1>1 DEF IndInv, TypeOK, HeapOK, Procs, Target
<1>7. ASSUME NEW o \in Objects, t \in readers'[o] PROVE ReadsInCall(t, o)'
  <2>1. ReadsInCall(t, o)
    BY <1>1, <1>7 DEF WaitInv, ReadersInCalls
  <2>2. thr[t].op = "append" /\ o = thr[t].val /\ o # thr[t].obj
    BY <1>1, <2>1 DEF ReadsInCall
  <2> QED
    BY <1>3, <1>4, <2>2 DEF ReadsInCall
<1>8. ASSUME NEW o \in Objects, wrlock'[o] = t PROVE Spins(t, o)'
  <2>1. t # None
    OBVIOUS
  <2>2. wrlock[o] = t => o = thr[t].obj
    BY <1>6 DEF WaitInv, SpinsInCalls, Spins
  <2>3. o = thr[t].obj /\ s \in {"store", "barrier"}
    BY <1>3, <1>6, <1>8, <2>1, <2>2
  <2>4. thr'[t].pc \in {"store", "barrier"} /\ thr'[t].obj = o
    BY <1>4, <2>3
  <2> QED
    BY <2>4 DEF Spins, Target
<1>9. \A o \in Objects : wrlock'[o] \in {wrlock[o], t, None}
  BY <1>3, <1>6
<1>10. \A p \in Procs \ {t} : waiting'[p] = waiting[p]
  BY <1>1, <1>6
<1>11. s \in {"self", "param", "release", "relock", "unlock", "return"} => thr'[t].op = "append"
  BY <1>3, <1>4
<1>12. s \notin {"param", "return"} /\ thr'[t].pc = s
  BY <1>4
<1>13. \A o \in Objects : readers'[o] \ {t} \subseteq readers[o]
  BY <1>1
<1> QED
  BY <1>1, <1>4, <1>7, <1>8, <1>9, <1>10, <1>11, <1>12, <1>13, ThreadWaits

\* A step of write_lock that waits leaves the read locks.
LEMMA LockNextWaits ==
  ASSUME IndInv, WaitInv, NEW p \in Procs, LockNext(p)
  PROVE  WaitInv'
<1> USE MemMgrAssumption
<1>1. UNCHANGED <<readers, mm, thr>>
  BY DEF LockNext, AwaitReaders, Sleep, Wake, SleepAgain
<1>2. /\ waiting \in [Procs -> {"no", "mutex", "cond", "woken"}]
      /\ wrlock \in [Objects -> Procs \union {None}]
      /\ Target(p) \in Objects
  <2>1. WantsWrite(p)
    BY DEF IndInv, WaitsOK, LockNext, AwaitReaders, Sleep, Wake, SleepAgain
  <2> QED
    BY <2>1, WaitsForObjects DEF IndInv, TypeOK
<1>3. \/ wrlock' = [wrlock EXCEPT ![Target(p)] = p] /\ waiting' = [waiting EXCEPT ![p] = "mutex"]
         /\ waiting[p] = "no"
      \/ wrlock' = [wrlock EXCEPT ![Target(p)] = None] /\ waiting' = [waiting EXCEPT ![p] = "cond"]
      \/ wrlock' = wrlock /\ waiting[p] # "mutex"
         /\ \E w \in {"cond", "woken"} : waiting' = [waiting EXCEPT ![p] = w]
  BY DEF LockNext, AwaitReaders, Sleep, Wake, SleepAgain
<1>4. \A q \in Procs : Target(q)' = Target(q)
  BY <1>1 DEF Target
<1>5. ReadersInCalls' /\ NeverTwice'
  <2>1. ReadersInCalls'
    BY <1>1 DEF WaitInv, ReadersInCalls, ReadsInCall
  <2>2. NeverTwice'
    BY <1>1 DEF WaitInv, NeverTwice
  <2> QED
    BY <2>1, <2>2
<1>6. SpinsInCalls'
  <2> SUFFICES ASSUME NEW o \in Objects, NEW q \in Procs, wrlock'[o] = q PROVE Spins(q, o)'
    BY DEF SpinsInCalls
  <2>0. q # None
    BY DEF Procs
  <2>1. CASE wrlock[o] # q
    <3>1. q = p /\ o = Target(p) /\ waiting'[p] = "mutex"
      BY <1>2, <1>3, <2>0, <2>1
    <3> QED
      BY <1>4, <3>1 DEF Spins
  <2>2. CASE wrlock[o] = q
    <3>1. Spins(q, o)
      BY <2>2 DEF WaitInv, SpinsInCalls
    <3>2. CASE q # p
      <4>1. waiting'[q] = waiting[q]
        BY <1>2, <1>3, <3>2
      <4> QED
        BY <1>1, <1>4, <3>1, <4>1 DEF Spins
    <3>3. CASE q = p
      <4>1. o = Target(p)
        BY <3>1, <3>3 DEF Spins
      <4>2. waiting'[p] = "mutex" \/ waiting[p] # "mutex"
        BY <1>2, <1>3, <2>0, <3>3, <4>1
      <4>3. CASE waiting'[p] = "mutex"
        BY <1>4, <3>3, <4>1, <4>3 DEF Spins
      <4>4. CASE waiting[p] # "mutex"
        BY <1>1, <1>4, <3>1, <3>3, <4>4 DEF Spins
      <4> QED
        BY <4>2, <4>3, <4>4
    <3> QED
      BY <3>2, <3>3
  <2> QED
    BY <2>1, <2>2
<1> QED
  BY <1>5, <1>6 DEF WaitInv

\* The memory manager read-locks the object that it scans, and unlocks it.
LEMMA MemMgrWaits ==
  ASSUME IndInv, WaitInv, MemMgrNext
  PROVE  WaitInv'
<1> USE MemMgrAssumption DEF IndInv, TypeOK, heap, marks, locks
<1>0. thr' = thr /\ wrlock' = wrlock
  BY DEF MemMgrNext, Clear, MarkRoot, Mark, ScanObject, ReadLock, TestValue, MarkValue, ScanDone,
         ReadUnlock, Pop, ListEmpty, EndMarking, Sweep
<1>S. SpinsInCalls'
  <2>1. waiting[MemMgr] # "mutex" /\ \A p \in Procs \ {MemMgr} : waiting'[p] = waiting[p]
    <3>1. CASE Clear \/ MarkRoot \/ MarkValue
      BY <3>1 DEF Clear, MarkRoot, MarkValue, Mark, EndWait, CanWrite
    <3>2. CASE ScanObject \/ (\E v \in Objects : TestValue(v)) \/ ScanDone \/ Pop \/ ListEmpty
               \/ EndMarking \/ Sweep
      <4>1. mm.pc \notin {"clear", "root", "mark"} /\ waiting' = waiting
        BY <3>2 DEF ScanObject, ReadLock, TestValue, ScanDone, ReadUnlock, Pop, ListEmpty,
                    EndMarking, Sweep
      <4> QED
        BY <4>1 DEF WaitsOK, WantsWrite, Procs
    <3> QED
      BY <3>1, <3>2 DEF MemMgrNext
  <2>2. \A o \in Objects : wrlock[o] # MemMgr
    BY <2>1, SpinsNot DEF Procs
  <2>3. \A p \in Procs \ {MemMgr} : Target(p)' = Target(p)
    BY <1>0, MemMgrApart
  <2>4. ASSUME NEW o \in Objects, NEW p \in Procs, wrlock'[o] = p PROVE Spins(p, o)'
    <3>1. p # MemMgr /\ Spins(p, o)
      BY <1>0, <2>2, <2>4 DEF WaitInv, SpinsInCalls
    <3> QED
      BY <1>0, <2>1, <2>3, <3>1 DEF Spins
  <2> QED
    BY <2>4 DEF SpinsInCalls
<1>1. CASE Clear \/ MarkRoot \/ Pop \/ ListEmpty \/ EndMarking \/ Sweep
  <2>1. readers' = readers /\ mm.pc \notin {"vals", "mark"} /\ mm'.pc \notin {"vals", "mark"}
    BY <1>1 DEF Clear, MarkRoot, Mark, Pop, ListEmpty, EndMarking, Sweep
  <2> QED
    BY <1>0, <1>S, <2>1 DEF WaitInv, ReadersInCalls, ReadsInCall, NeverTwice
<1>2. CASE ScanObject
  <2>1. /\ mm.pc = "read" /\ mm'.pc = "vals" /\ mm'.obj = mm.obj /\ mm.obj \notin mm'.todo
        /\ readers' = [readers EXCEPT ![mm.obj] = @ \union {MemMgr}]
    BY <1>2 DEF ScanObject, ReadLock
  <2>2. ReadersInCalls'
    BY <1>0, <2>1 DEF WaitInv, ReadersInCalls, ReadsInCall
  <2>3. NeverTwice'
    BY <1>0, <2>1 DEF WaitInv, NeverTwice
  <2> QED
    BY <1>S, <2>2, <2>3 DEF WaitInv
<1>3. ASSUME readers' = readers, mm.pc \in {"vals", "mark"}, mm'.pc \in {"vals", "mark"},
             mm'.obj = mm.obj, mm'.todo \subseteq mm.todo, mm'.pc = "mark" => mm'.val \in mm.todo
      PROVE  WaitInv'
  BY <1>0, <1>S, <1>3 DEF WaitInv, ReadersInCalls, ReadsInCall, NeverTwice
<1>5. ASSUME NEW v \in Objects, TestValue(v) PROVE WaitInv'
  <2>1. CASE v \in scanned
    <3>1. mm.pc = "vals" /\ mm' = [mm EXCEPT !.todo = @ \ {v}] /\ readers' = readers
      BY <1>5, <2>1 DEF TestValue
    <3> QED
      BY <3>1, <1>3
  <2>2. CASE v \notin scanned
    <3>1. /\ mm.pc = "vals" /\ mm' = [mm EXCEPT !.pc = "mark", !.val = v]
          /\ v \in mm.todo /\ readers' = readers
      BY <1>5, <2>2 DEF TestValue
    <3> QED
      BY <3>1, <1>3
  <2> QED
    BY <2>1, <2>2
<1>6. CASE MarkValue
  <2>1. /\ mm.pc = "mark" /\ readers' = readers
        /\ mm' = [mm EXCEPT !.pc = "vals", !.todo = @ \ {mm.val}, !.val = None]
    BY <1>6 DEF MarkValue, Mark
  <2> QED
    BY <2>1, <1>3
<1>4. CASE ScanDone
  <2>1. mm.pc = "vals" /\ mm'.pc = "pop" /\ readers' = [readers EXCEPT ![mm.obj] = @ \ {MemMgr}]
    BY <1>4 DEF ScanDone, ReadUnlock
  <2>2. ReadersInCalls'
    BY <1>0, <2>1 DEF WaitInv, ReadersInCalls, ReadsInCall
  <2>3. NeverTwice'
    BY <1>0, <2>1 DEF WaitInv, NeverTwice
  <2> QED
    BY <1>S, <2>2, <2>3 DEF WaitInv
<1> QED
  BY <1>1, <1>2, <1>4, <1>5, <1>6 DEF MemMgrNext

LEMMA InitWaits ==
  ASSUME Init
  PROVE  WaitInv
<1>1. mm.pc = "clear" /\ \A t \in Threads : thr[t].pc = "idle"
  BY DEF Init, Idle
<1>2. \A o \in Objects : readers[o] = {}
  BY DEF Init
<1>3. \A o \in Objects : \A p \in Procs : wrlock[o] # p
  BY MemMgrAssumption DEF Init, Procs
<1> QED
  BY <1>1, <1>2, <1>3 DEF WaitInv, ReadersInCalls, NeverTwice, SpinsInCalls

\* A writer that cannot go on, outside the crossing on write_mutex, found readers.
LEMMA WriterStopped ==
  ASSUME IndInv, NEW p \in Procs, ~WriterRunnable(p), ~MutexStuck,
         wrlock[Target(p)] = None
  PROVE  readers[Target(p)] # {}
<1>1. waiting[p] \in {"no", "mutex", "cond", "woken"}
  BY DEF IndInv, TypeOK
<1> QED
  BY <1>1 DEF WriterRunnable

\* In a deadlock in which nobody spins with write_mutex, no spinlock is held.
LEMMA DeadlockUnspun ==
  ASSUME IndInv, WaitInv, Deadlocked, ~MutexStuck
  PROVE  \A o \in Objects : wrlock[o] = None
<1> SUFFICES ASSUME NEW o \in Objects, wrlock[o] # None PROVE FALSE
  OBVIOUS
<1>1. PICK p \in Procs : wrlock[o] = p
  BY DEF IndInv, TypeOK
<1>2. Spins(p, o)
  BY <1>1 DEF WaitInv, SpinsInCalls
<1>3. ~(p \in Threads /\ thr[p].pc \in {"store", "barrier"})
  BY DEF Deadlocked, Runnable
<1>4. waiting[p] = "mutex"
  BY <1>2, <1>3 DEF Spins
<1>5. WantsWrite(p) /\ WriterRunnable(p)
  BY <1>4 DEF IndInv, WaitsOK, WriterRunnable
<1> QED
  BY <1>5 DEF Deadlocked, MemMgrRunnable, Runnable, Procs

\* In a deadlock a writer waits for readers.
LEMMA WriterReaders ==
  ASSUME IndInv, WaitInv, Deadlocked, ~MutexStuck, NEW p \in Procs, WantsWrite(p)
  PROVE  readers[Target(p)] # {}
<1>1. wrlock[Target(p)] = None
  BY WaitsForObjects, DeadlockUnspun DEF IndInv
<1>2. ~WriterRunnable(p)
  BY DEF Deadlocked, MemMgrRunnable, Runnable, Procs
<1> QED
  BY <1>1, <1>2, WriterStopped

\* In a deadlock a reader that cannot go on stands back for a writer, which waits
\* for readers.
LEMMA ReaderReaders ==
  ASSUME IndInv, WaitInv, Deadlocked, ~MutexStuck, NEW p \in Procs, NEW o \in Objects,
         ~CanRead(p, o)
  PROVE  readers[o] # {}
<1>1. wrlock[o] = None
  BY DeadlockUnspun
<1>2. PICK r \in Procs : waiting[r] \in {"cond", "woken"} /\ Target(r) = o
  BY <1>1 DEF CanRead, Requests
<1>3. WantsWrite(r)
  BY <1>2 DEF IndInv, WaitsOK
<1> QED
  BY <1>2, <1>3, WriterReaders

\* In a deadlock a thread that has read-locked an object waits for another one,
\* which another process has read-locked.
LEMMA ReaderCrossed ==
  ASSUME IndInv, WaitInv, Deadlocked, ~MutexStuck,
         NEW o \in Objects, NEW t \in readers[o] \ {MemMgr}
  PROVE  CallCrossed
<1>0. t \in Threads /\ ReadsInCall(t, o) /\ t \in Procs
  BY DEF WaitInv, ReadersInCalls, Procs
<1>1. thr[t].pc \in {"param", "release", "write", "store", "barrier", "relock", "unlock", "return"}
  BY <1>0 DEF ReadsInCall
<1>2. /\ thr[t].obj \in Objects /\ thr[t].val \in Objects /\ Target(t) \in Objects
      /\ Target(t) = IF thr[t].pc \in {"param", "return"} THEN thr[t].val ELSE thr[t].obj
  <2>1. thr[t].obj \in Objects /\ thr[t].val \in Objects
    BY <1>0, <1>1 DEF IndInv, TypeOK, HeapOK
  <2> QED
    BY <1>0, <2>1, MemMgrAssumption DEF Target
<1>3. thr[t].pc \notin {"release", "store", "barrier", "unlock", "return"}
  BY <1>0, <1>2, DeadlockUnspun DEF Deadlocked, Runnable
<1>4. readers[Target(t)] # {}
  <2>1. CASE thr[t].pc = "write"
    BY <1>0, <2>1, WriterReaders, MemMgrAssumption DEF WantsWrite
  <2>2. CASE thr[t].pc \in {"param", "relock"}
    <3>1. ~CanRead(t, Target(t))
      BY <1>0, <2>2 DEF Deadlocked, Runnable
    <3> QED
      BY <1>0, <1>2, <3>1, ReaderReaders
  <2> QED
    BY <1>1, <1>3, <2>1, <2>2
<1>5. t \notin readers[Target(t)]
  BY <1>0, <1>1, <1>2, <1>3 DEF WaitInv, ReadersInCalls, ReadsInCall, NeverTwice
<1>6. PICK p \in readers[Target(t)] : TRUE
  BY <1>4
<1>7. p \in Procs \ {t}
  BY <1>2, <1>5, <1>6 DEF IndInv, TypeOK
<1> QED
  BY <1>0, <1>6, <1>7, DeadlockUnspun DEF CallCrossed

\* The memory manager can go on unless a thread has read-locked the object that it
\* wants, or has made it stand back.
LEMMA DeadlockHasReader ==
  ASSUME IndInv, WaitInv, Deadlocked, ~MutexStuck
  PROVE  \E o \in Objects : \E t \in readers[o] : t # MemMgr
<1>0. mm.obj \in Objects /\ (mm.pc = "mark" => mm.val \in Objects) /\ MemMgr \in Procs
  BY DEF IndInv, TypeOK, HeapOK, Procs
<1>1. mm.pc \in {"clear", "root", "read", "mark"}
  <2>1. mm.pc \in {"clear", "root", "read", "vals", "mark", "pop", "sleep", "sweep"}
    BY DEF IndInv, TypeOK
  <2>2. wrlock[mm.obj] = None
    BY <1>0, DeadlockUnspun
  <2> QED
    BY <2>1, <2>2 DEF Deadlocked, MemMgrRunnable
<1>2. Target(MemMgr) = (IF mm.pc = "mark" THEN mm.val ELSE mm.obj) /\ Target(MemMgr) \in Objects
  BY <1>0 DEF Target
<1>3. readers[Target(MemMgr)] # {}
  <2>1. CASE mm.pc = "read"
    BY <1>0, <1>2, <2>1, ReaderReaders DEF Deadlocked, MemMgrRunnable
  <2>2. CASE mm.pc \in {"clear", "root", "mark"}
    BY <1>0, <2>2, WriterReaders DEF WantsWrite
  <2> QED
    BY <1>1, <2>1, <2>2
<1>4. MemMgr \notin readers[Target(MemMgr)]
  BY <1>1, <1>2, MemMgrAssumption DEF WaitInv, ReadersInCalls, NeverTwice
<1> QED
  BY <1>2, <1>3, <1>4

\* With write_mutex held by a process that spins, the holder of the spinlock waits
\* for write_mutex.
LEMMA StuckCrossed ==
  ASSUME IndInv, WaitInv, Deadlocked, MutexStuck
  PROVE  MutexCrossed
<1>1. PICK p \in Procs : waiting[p] = "woken" /\ wrlock[Target(p)] # None
  BY DEF MutexStuck
<1>2. Target(p) \in Objects
  BY <1>1, WaitsForObjects DEF IndInv, WaitsOK
<1>3. PICK q \in Procs : wrlock[Target(p)] = q
  BY <1>1, <1>2 DEF IndInv, TypeOK
<1>4. Spins(q, Target(p))
  BY <1>2, <1>3 DEF WaitInv, SpinsInCalls
<1>5. ~(q \in Threads /\ thr[q].pc \in {"store", "barrier"})
  BY DEF Deadlocked, Runnable
<1>6. waiting[q] = "mutex"
  BY <1>4, <1>5 DEF Spins
<1> QED
  BY <1>1, <1>3, <1>6 DEF MutexCrossed

\* Whatever the objects, the threads and their calls, the system stops in two ways
\* only: write_mutex is requested with a spinlock that its holder spins for, or the
\* call of a C function waits, with a read lock, for an object that another process
\* has read-locked.
THEOREM StopsCrossed == Spec => []DeadlocksAreCrossed
<1>1. IndInv /\ WaitInv /\ [Next]_vars => WaitInv'
  <2>1. ASSUME WaitInv, UNCHANGED vars PROVE WaitInv'
    BY <2>1 DEF vars, heap, marks, locks, WaitInv, ReadersInCalls, ReadsInCall, NeverTwice,
       SpinsInCalls, Spins, Target
  <2> QED
    BY <2>1, CallWaits, CallLocksWait, CallWritesWait, LockNextWaits, MemMgrWaits
       DEF Next, ThreadNext
<1>2. IndInv /\ WaitInv => DeadlocksAreCrossed
  <2> SUFFICES ASSUME IndInv, WaitInv, Deadlocked, ~MutexStuck PROVE CallCrossed
    BY StuckCrossed DEF DeadlocksAreCrossed
  <2>1. PICK o \in Objects : \E t \in readers[o] : t # MemMgr
    BY DeadlockHasReader
  <2>2. PICK t \in readers[o] : t # MemMgr
    BY <2>1
  <2> QED
    BY <2>2, ReaderCrossed
<1> QED
  BY InitWaits, <1>1, <1>2, Invariance, PTL DEF Spec
=============================================================================
