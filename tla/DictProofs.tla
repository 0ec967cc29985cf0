----------------------------- MODULE DictProofs -----------------------------
(***************************************************************************)
(* For any number of threads, keys and methods: while no write_lock was    *)
(* refused, a dictionary is changed by one thread at a time, with no other *)
(* in the middle of a call, except by popItem!.  It is why Dict may take   *)
(* the other calls for single steps.                                       *)
(***************************************************************************)
EXTENDS Dict, FiniteSetTheorems, TLAPS

CallTyped ==
  /\ call = [t \in Threads |-> call[t]]
  /\ \A t \in Threads : {"op", "at"} \subseteq DOMAIN call[t]

LocksTyped ==
  /\ rdlock_cnt \in 0 .. CntMod - 1
  /\ lockstack \in [Threads -> Nat]
  /\ writer \in Threads \cup {NoThread}

Places == {"idle", "called", "done", "marks", "stores", "writes", "stuck", "spins",
           "waits", "unlocked", "aborts"}

\* A thread has the lock that its place in the call needs.
Holds ==
  \A t \in Threads :
    /\ call[t].at \in {"called", "done", "marks", "stores"} => lockstack[t] > 0
    /\ call[t].at \in {"writes", "stuck"} => writer = t
    /\ call[t].at = "spins" => lockstack[t] > 0 \/ writer = t
    /\ call[t].at \in Places
    /\ call[t].at \in {"marks", "stores"} => call[t].op = "pop"

Nested ==
  \A t \in Threads : /\ lockstack[t] <= MaxReads + 1
                     /\ call[t].at # "done" => lockstack[t] <= MaxReads

ReadLocks == {l \in Threads \X (1 .. MaxReads + 1) : l[2] <= lockstack[l[1]]}
Counted == refused \/ rdlock_cnt = Cardinality(ReadLocks)
Excluded == refused \/ (writer # NoThread => \A t \in Threads : lockstack[t] = 0)

\* Also when a write_lock was refused, no one begins to read beside a writer.
Apart == overlap \/ (writer # NoThread => \A u \in Threads \ {writer} : ~Reading(u))

LockInv == CallTyped /\ LocksTyped /\ Holds /\ Nested /\ Counted /\ Excluded /\ Apart

\* The table and its length change only under the write lock of the thread that
\* changes them, or in popItem!, under its read lock.
ChangesLocked ==
  [][UNCHANGED <<tbl, len>> \/ \E t \in Threads :
       writer = t \/ (lockstack[t] > 0 /\ call[t].op = "pop")]_vars

-----------------------------------------------------------------------------
(* The counter: a set of read locks that fits into it *)

LEMMA NobodyElse == NoThread \notin Threads
BY DictAssumption

LEMMA ReadLocksFit ==
  /\ IsFiniteSet(ReadLocks) /\ Cardinality(ReadLocks) \in 0 .. CntMod - 1
  /\ IsFiniteSet(ReadLocks') /\ Cardinality(ReadLocks') \in 0 .. CntMod - 1
<1> DEFINE All == Threads \X (1 .. MaxReads + 1)
<1>1. IsFiniteSet(1 .. MaxReads + 1) /\ Cardinality(1 .. MaxReads + 1) = MaxReads + 1
  BY FS_Interval, CountAssumption
<1>2. IsFiniteSet(All) /\ Cardinality(All) = Cardinality(Threads) * (MaxReads + 1)
  BY <1>1, FS_Product, CountAssumption
<1>3. ASSUME NEW S, S \subseteq All
      PROVE  IsFiniteSet(S) /\ Cardinality(S) \in 0 .. CntMod - 1
  <2>1. IsFiniteSet(S) /\ Cardinality(S) <= Cardinality(All)
    BY <1>2, <1>3, FS_Subset
  <2>2. Cardinality(S) \in Nat /\ Cardinality(Threads) \in Nat
    BY <2>1, FS_CardinalityType, CountAssumption
  <2> QED
    BY <1>2, <2>1, <2>2, CountAssumption
<1>4. ReadLocks \subseteq All /\ ReadLocks' \subseteq All
  BY DEF ReadLocks
<1> QED
  BY <1>3, <1>4

\* Bit-field arithmetic is plain arithmetic while it does not wrap.
LEMMA Counting ==
  ASSUME NEW n \in 0 .. CntMod - 1
  PROVE  /\ (n + 1) % CntMod \in 0 .. CntMod - 1
         /\ (n + CntMod - 1) % CntMod \in 0 .. CntMod - 1
         /\ n + 1 < CntMod => (n + 1) % CntMod = n + 1
         /\ n > 0 => (n + CntMod - 1) % CntMod = n - 1
         /\ \A m \in Nat : (n - m) % CntMod \in 0 .. CntMod - 1
<1>1. CntMod \in Nat \ {0}
  BY CountAssumption
<1>2. ASSUME NEW m \in Int PROVE m % CntMod \in 0 .. CntMod - 1
  BY <1>1
<1>3. n + 1 \in Int /\ n + CntMod - 1 \in Int /\ \A m \in Nat : n - m \in Int
  BY <1>1
<1>4. n + 1 < CntMod => (n + 1) % CntMod = n + 1
  BY <1>1
<1>5. n > 0 => (n + CntMod - 1) % CntMod = n - 1
  BY <1>1
<1> QED
  BY <1>2, <1>3, <1>4, <1>5

LEMMA AddReadLock ==
  ASSUME LocksTyped, NEW t \in Threads, lockstack[t] <= MaxReads,
         lockstack' = [lockstack EXCEPT ![t] = @ + 1]
  PROVE  Cardinality(ReadLocks') = Cardinality(ReadLocks) + 1
<1> DEFINE l == <<t, lockstack[t] + 1>>
<1>1. /\ lockstack'[t] = lockstack[t] + 1 /\ lockstack[t] \in Nat
      /\ \A u \in Threads \ {t} : lockstack'[u] = lockstack[u] /\ lockstack[u] \in Nat
      /\ MaxReads \in Nat
  BY CountAssumption DEF LocksTyped
<1>2. l \in Threads \X (1 .. MaxReads + 1)
  BY <1>1
<1>3. l \notin ReadLocks
  BY <1>1 DEF ReadLocks
<1>4. ASSUME NEW m \in Threads \X (1 .. MaxReads + 1)
      PROVE  m \in ReadLocks' <=> m \in ReadLocks \/ m = l
  <2>1. PICK u \in Threads, n \in 1 .. MaxReads + 1 : m = <<u, n>>
    BY <1>4
  <2>2. CASE u = t
    BY <1>1, <2>1, <2>2 DEF ReadLocks
  <2>3. CASE u # t
    BY <1>1, <2>1, <2>3 DEF ReadLocks
  <2> QED
    BY <2>2, <2>3
<1>5. ReadLocks' = ReadLocks \cup {l}
  BY <1>2, <1>4 DEF ReadLocks
<1> QED
  BY <1>3, <1>5, ReadLocksFit, FS_AddElement

LEMMA DropReadLock ==
  ASSUME LocksTyped, NEW t \in Threads, lockstack[t] > 0, lockstack[t] <= MaxReads + 1,
         lockstack' = [lockstack EXCEPT ![t] = @ - 1]
  PROVE  Cardinality(ReadLocks') = Cardinality(ReadLocks) - 1 /\ ReadLocks # {}
<1> DEFINE l == <<t, lockstack[t]>>
<1>1. /\ lockstack'[t] = lockstack[t] - 1 /\ lockstack[t] \in Nat
      /\ \A u \in Threads \ {t} : lockstack'[u] = lockstack[u] /\ lockstack[u] \in Nat
      /\ MaxReads \in Nat
  BY CountAssumption DEF LocksTyped
<1>2. l \in ReadLocks
  BY <1>1 DEF ReadLocks
<1>3. ASSUME NEW m \in Threads \X (1 .. MaxReads + 1)
      PROVE  m \in ReadLocks' <=> m \in ReadLocks /\ m # l
  <2>1. PICK u \in Threads, n \in 1 .. MaxReads + 1 : m = <<u, n>>
    BY <1>3
  <2>2. CASE u = t
    BY <1>1, <2>1, <2>2 DEF ReadLocks
  <2>3. CASE u # t
    BY <1>1, <2>1, <2>3 DEF ReadLocks
  <2> QED
    BY <2>2, <2>3
<1>4. ReadLocks' = ReadLocks \ {l}
  BY <1>3 DEF ReadLocks
<1> HIDE DEF l
<1>5. Cardinality(ReadLocks \ {l}) = Cardinality(ReadLocks) - 1
  BY <1>2, ReadLocksFit, FS_RemoveElement
<1> QED
  BY <1>2, <1>4, <1>5

-----------------------------------------------------------------------------
(* The steps *)

\* The count after a step that leaves the locks alone.
LEMMA SameCount ==
  ASSUME LockInv, UNCHANGED <<rdlock_cnt, lockstack>>, refused => refused'
  PROVE  Counted'
<1>1. ReadLocks' = ReadLocks
  BY DEF ReadLocks
<1> QED
  BY <1>1 DEF Counted, LockInv

\* Steps without the lock.
LEMMA KeepsLock ==
  ASSUME LockInv, NEW t \in Threads, UNCHANGED lockVars, overlap => overlap',
         NEW c, call' = [call EXCEPT ![t] = c], {"op", "at"} \subseteq DOMAIN c,
         \/ call[t].at = "called" /\ c.at \in {"called", "done", "spins", "aborts"}
              /\ writer = NoThread
         \/ call[t].at = "called" /\ c.at = "marks" /\ c.op = "pop" /\ writer = NoThread
         \/ call[t].at = "marks" /\ c.at = "stores" /\ c.op = "pop"
         \/ call[t].at = "stores" /\ c.at = "done"
         \/ call[t].at = "writes" /\ c.at \in {"writes", "stuck", "spins"}
  PROVE  LockInv'
<1> USE DEF LockInv
<1>1. CallTyped' /\ call'[t] = c /\ \A u \in Threads \ {t} : call'[u] = call[u]
  BY DEF CallTyped
<1>2. LocksTyped' /\ Excluded'
  BY DEF LocksTyped, Excluded, lockVars
<1>3. Holds'
  BY <1>1 DEF Holds, lockVars, Places
<1>4. Nested'
  <2>1. lockstack[t] <= MaxReads /\ lockstack[t] \in Nat /\ MaxReads \in Nat
    <3>1. call[t].at # "done" \/ call[t].at = "stores"
      OBVIOUS
    <3> QED
      BY <3>1, CountAssumption DEF Nested, LocksTyped
  <2> QED
    BY <1>1, <2>1 DEF Nested, lockVars
<1>5. Counted'
  BY SameCount DEF lockVars
<1>6. Apart'
  <2>1. writer = t \/ writer = NoThread \/ Reading(t) \/ ~Reading(t)'
    BY <1>1 DEF Reading, Holds
  <2>2. \A u \in Threads \ {t} : Reading(u)' = Reading(u)
    BY <1>1 DEF Reading
  <2> QED
    BY <1>1, <2>1, <2>2 DEF Apart, lockVars
<1> QED
  BY <1>1, <1>2, <1>3, <1>4, <1>5, <1>6

\* A call begins or gets its read lock back, or popItem! takes a second one.
LEMMA ReadKeeps ==
  ASSUME LockInv, NEW t \in Threads, read_lock(t), overlap => overlap',
         NEW c, call' = [call EXCEPT ![t] = c], {"op", "at"} \subseteq DOMAIN c,
         \/ c.at = "called" /\ lockstack[t] < MaxReads
         \/ c.at = "done" /\ call[t].at # "done"
  PROVE  LockInv'
<1> USE DEF LockInv, read_lock
<1>0. /\ rdlock_cnt \in 0 .. CntMod - 1
      /\ rdlock_cnt' \in 0 .. CntMod - 1
      /\ rdlock_cnt + 1 < CntMod => rdlock_cnt' = rdlock_cnt + 1
  BY Counting DEF LocksTyped
<1>1. LocksTyped' /\ lockstack'[t] = lockstack[t] + 1 /\ lockstack[t] \in Nat
  BY <1>0 DEF LocksTyped
<1>2. \A u \in Threads \ {t} : lockstack'[u] = lockstack[u] /\ call'[u] = call[u]
  BY DEF LocksTyped, CallTyped
<1>3. writer = NoThread /\ writer' = writer /\ refused' = refused
  OBVIOUS
<1>4. CallTyped' /\ call'[t] = c
  BY DEF CallTyped
<1>5. Holds'
  BY <1>1, <1>2, <1>3, <1>4 DEF Holds, Places
<1>6. Excluded' /\ Apart'
  BY <1>3 DEF Excluded, Apart
<1>7. lockstack[t] <= MaxReads /\ MaxReads \in Nat
  BY <1>1, CountAssumption DEF Nested
<1>8. Nested'
  BY <1>1, <1>2, <1>4, <1>7 DEF Nested
<1>9. Counted'
  <2>1. Cardinality(ReadLocks') = Cardinality(ReadLocks) + 1
    BY <1>7, AddReadLock
  <2>2. Cardinality(ReadLocks') \in 0 .. CntMod - 1 /\ Cardinality(ReadLocks) \in 0 .. CntMod - 1
    BY ReadLocksFit
  <2> QED
    BY <1>0, <1>3, <2>1, <2>2, CountAssumption DEF Counted
<1> QED
  BY <1>1, <1>4, <1>5, <1>6, <1>8, <1>9

\* A call returns, or gives its read lock up to wait for the write lock.
LEMMA UnreadKeeps ==
  ASSUME LockInv, NEW t \in Threads, read_unlock(t), call[t].at \in {"called", "done"},
         overlap => overlap',
         NEW c, call' = [call EXCEPT ![t] = c], {"op", "at"} \subseteq DOMAIN c,
         c.at \in {"idle", "waits"}
  PROVE  LockInv'
<1> USE DEF LockInv, read_unlock
<1>0. /\ rdlock_cnt \in 0 .. CntMod - 1
      /\ rdlock_cnt' \in 0 .. CntMod - 1
      /\ rdlock_cnt > 0 => rdlock_cnt' = rdlock_cnt - 1
  BY Counting DEF LocksTyped
<1>1. /\ lockstack[t] \in Nat /\ lockstack[t] > 0 /\ lockstack'[t] = lockstack[t] - 1
      /\ lockstack[t] <= MaxReads + 1 /\ MaxReads \in Nat
  BY CountAssumption DEF LocksTyped, Holds, Nested
<1>a. LocksTyped'
  BY <1>0, <1>1 DEF LocksTyped
<1>2. \A u \in Threads \ {t} : lockstack'[u] = lockstack[u] /\ call'[u] = call[u]
  BY DEF LocksTyped, CallTyped
<1>3. writer = NoThread /\ writer' = writer /\ refused' = refused
  OBVIOUS
<1>4. CallTyped' /\ call'[t] = c
  BY DEF CallTyped
<1>5. Holds'
  BY <1>2, <1>3, <1>4 DEF Holds, Places
<1>6. Excluded' /\ Apart'
  BY <1>3 DEF Excluded, Apart
<1>8. Nested'
  BY <1>1, <1>2, <1>4 DEF Nested
<1>9. Counted'
  <2>1. Cardinality(ReadLocks') = Cardinality(ReadLocks) - 1
    BY <1>1, DropReadLock
  <2>2. Cardinality(ReadLocks') \in 0 .. CntMod - 1 /\ Cardinality(ReadLocks) \in 0 .. CntMod - 1
    BY ReadLocksFit
  <2> QED
    BY <1>0, <1>3, <2>1, <2>2, CountAssumption DEF Counted
<1> QED
  BY <1>a, <1>4, <1>5, <1>6, <1>8, <1>9

\* Goto and Leave change the place in the call.
LEMMA GotoMoves ==
  ASSUME CallTyped, NEW t \in Threads, NEW at, Goto(t, at) \/ Leave(t, at)
  PROVE  \E c : /\ call' = [call EXCEPT ![t] = c] /\ {"op", "at"} \subseteq DOMAIN c
                /\ c.at = at
<1>1. CASE Goto(t, at)
  <2> WITNESS [call[t] EXCEPT !.at = at]
  <2>1. call' = [call EXCEPT ![t] = [call[t] EXCEPT !.at = at]]
    BY <1>1 DEF Goto
  <2> QED
    BY <2>1 DEF CallTyped
<1>2. CASE Leave(t, at)
  <2> WITNESS [op |-> "none", at |-> at]
  <2> QED
    BY <1>2 DEF Leave
<1> QED
  BY <1>1, <1>2

LEMMA GrantedKeeps ==
  ASSUME LockInv, NEW t \in Threads, Granted(t)
  PROVE  LockInv'
<1> USE NobodyElse DEF LockInv, Granted
<1>0. PICK c : /\ call' = [call EXCEPT ![t] = c] /\ {"op", "at"} \subseteq DOMAIN c
               /\ c.at = "writes"
  BY GotoMoves
<1>1. LocksTyped' /\ writer = NoThread /\ writer' = t /\ lockstack' = lockstack
  BY DEF LocksTyped
<1>2. CallTyped' /\ call'[t] = c /\ \A u \in Threads \ {t} : call'[u] = call[u]
  BY <1>0 DEF CallTyped
<1>3. Holds'
  BY <1>0, <1>1, <1>2 DEF Holds, Places
<1>4. Nested'
  BY <1>0, <1>1, <1>2 DEF Nested
<1>5. Counted'
  BY SameCount
<1>6. ASSUME ~refused, NEW u \in Threads PROVE lockstack[u] = 0
  <2>1. ReadLocks = {}
    BY <1>6, ReadLocksFit, FS_EmptySet DEF Counted
  <2>2. lockstack[u] \in Nat /\ MaxReads \in Nat
    BY CountAssumption DEF LocksTyped
  <2>3. lockstack[u] > 0 => <<u, 1>> \in ReadLocks
    BY <2>2 DEF ReadLocks
  <2> QED
    BY <2>1, <2>2, <2>3
<1>7. Excluded'
  BY <1>1, <1>6 DEF Excluded
<1>8. \A u \in Threads \ {t} : Reading(u)' = Reading(u)
  BY <1>2 DEF Reading
<1>9. Apart'
  BY <1>1, <1>8 DEF Apart
<1> QED
  BY <1>1, <1>2, <1>3, <1>4, <1>5, <1>7, <1>9

LEMMA RefusedKeeps ==
  ASSUME LockInv, NEW t \in Threads, Refused(t)
  PROVE  LockInv'
<1> USE DEF LockInv, Refused
<1>0. PICK c : /\ call' = [call EXCEPT ![t] = c] /\ {"op", "at"} \subseteq DOMAIN c
               /\ c.at = "unlocked"
  BY GotoMoves
<1>1. LocksTyped'
  BY Counting DEF LocksTyped
<1>2. CallTyped' /\ call'[t] = c /\ \A u \in Threads \ {t} : call'[u] = call[u]
  BY <1>0 DEF CallTyped
<1>3. Holds'
  BY <1>0, <1>2 DEF Holds, Places
<1>4. Nested'
  BY <1>0, <1>2 DEF Nested
<1>5. Counted' /\ Excluded' /\ Apart'
  BY DEF Counted, Excluded, Apart
<1> QED
  BY <1>1, <1>2, <1>3, <1>4, <1>5

LEMMA UnlockKeeps ==
  ASSUME LockInv, NEW t \in Threads, call[t].at = "writes", def_write_unlock(t)
  PROVE  LockInv'
<1> USE NobodyElse DEF LockInv, def_write_unlock
<1>0. PICK c : /\ call' = [call EXCEPT ![t] = c] /\ {"op", "at"} \subseteq DOMAIN c
               /\ c.at = "unlocked"
  BY GotoMoves
<1>1. LocksTyped' /\ writer = t /\ writer' = NoThread /\ lockstack' = lockstack
  BY DEF LocksTyped, Holds
<1>2. CallTyped' /\ call'[t] = c /\ \A u \in Threads \ {t} : call'[u] = call[u]
  BY <1>0 DEF CallTyped
<1>3. \A u \in Threads \ {t} : writer # u
  BY <1>1
<1>4. Holds'
  BY <1>0, <1>1, <1>2, <1>3 DEF Holds, Places
<1>5. Nested'
  BY <1>0, <1>1, <1>2 DEF Nested
<1>6. Counted'
  BY SameCount
<1>7. Excluded' /\ Apart'
  BY <1>1 DEF Excluded, Apart
<1> QED
  BY <1>1, <1>2, <1>4, <1>5, <1>6, <1>7

-----------------------------------------------------------------------------
(* The calls *)

LEMMA CallKeeps ==
  ASSUME LockInv, NEW t \in Threads, NEW args, {"op", "at"} \subseteq DOMAIN args,
         args.at = "called", Call(t, args)
  PROVE  LockInv'
BY ReadKeeps DEF Call

LEMMA ReturnKeeps ==
  ASSUME LockInv, NEW t \in Threads, Return(t)
  PROVE  LockInv'
BY UnreadKeeps DEF Return, Idle

LEMMA GetKeeps ==
  ASSUME LockInv, NEW t \in Threads, Get(t)
  PROVE  LockInv'
<1>1. call[t].at = "called" /\ writer = NoThread /\ UNCHANGED lockVars /\ overlap' = overlap
  BY DEF Get, At, Reads
<1>2. CASE Leave(t, "done") \/ Leave(t, "spins")
  <2>1. CallTyped
    BY DEF LockInv
  <2> QED
    BY <1>1, <1>2, <2>1, GotoMoves, KeepsLock
<1>3. CASE call' = [call EXCEPT ![t].op = "set"]
  <2> DEFINE c == [call[t] EXCEPT !.op = "set"]
  <2>1. call' = [call EXCEPT ![t] = c]
    BY <1>3
  <2>2. {"op", "at"} \subseteq DOMAIN c /\ c.at = "called"
    BY <1>1 DEF LockInv, CallTyped
  <2> QED
    BY <1>1, <2>1, <2>2, KeepsLock
<1> QED
  BY <1>2, <1>3 DEF Get

LEMMA ListKeeps ==
  ASSUME LockInv, NEW t \in Threads, List(t)
  PROVE  LockInv'
<1>1. call[t].at = "called" /\ writer = NoThread /\ UNCHANGED lockVars /\ overlap' = overlap
  BY DEF List, At, Reads
<1>2. Leave(t, "done") \/ Leave(t, "aborts")
  BY DEF List
<1>3. CallTyped
  BY DEF LockInv
<1> QED
  BY <1>1, <1>2, <1>3, GotoMoves, KeepsLock

LEMMA def_write_lockKeeps ==
  ASSUME LockInv, NEW t \in Threads, def_write_lock(t)
  PROVE  LockInv'
<1>1. call[t].at = "called" /\ Goto(t, "waits") /\ read_unlock(t) /\ overlap' = overlap
  BY DEF def_write_lock, At
<1> QED
  BY <1>1, GotoMoves, UnreadKeeps DEF LockInv

LEMMA RereadKeeps ==
  ASSUME LockInv, NEW t \in Threads, Reread(t)
  PROVE  LockInv'
<1>1. call[t].at = "unlocked" /\ Leave(t, "done") /\ read_lock(t) /\ overlap' = overlap
  BY DEF Reread
<1> QED
  BY <1>1, GotoMoves, ReadKeeps DEF LockInv

\* The writer goes on, gets stuck or searches without end.
LEMMA WriterKeeps ==
  ASSUME LockInv, NEW t \in Threads, call[t].at = "writes", UNCHANGED lockVars,
         overlap' = overlap, Leave(t, "spins") \/ Leave(t, "stuck")
  PROVE  LockInv'
<1>1. CallTyped
  BY DEF LockInv
<1> QED
  BY <1>1, GotoMoves, KeepsLock

LEMMA SetItemKeeps ==
  ASSUME LockInv, NEW t \in Threads, SetItem(t)
  PROVE  LockInv'
<1>1. call[t].at = "writes"
  BY DEF SetItem, At
<1>2. CASE def_write_unlock(t)
  BY <1>1, <1>2, UnlockKeeps
<1>3. CASE AddSpins(t, call[t].key)
  BY <1>1, <1>3, WriterKeeps DEF AddSpins
<1>4. CASE Leave(t, "spins") /\ UNCHANGED lockVars /\ overlap' = overlap
  BY <1>1, <1>4, WriterKeeps
<1>5. def_write_unlock(t) \/ AddSpins(t, call[t].key) \/ AddFails(t)
  BY DEF SetItem
<1> QED
  BY <1>2, <1>3, <1>4, <1>5 DEF AddFails

LEMMA CopySelfKeeps ==
  ASSUME LockInv, NEW t \in Threads, CopySelf(t)
  PROVE  LockInv'
<1> DEFINE c == [op |-> "update", at |-> "called", rest |-> dict_keys_values(tbl)]
<1>1. call[t].at = "called" /\ writer = NoThread /\ UNCHANGED lockVars /\ overlap' = overlap
  BY DEF CopySelf, At, Reads
<1>2. CASE Leave(t, "aborts")
  <2>1. CallTyped
    BY DEF LockInv
  <2> QED
    BY <1>1, <1>2, <2>1, GotoMoves, KeepsLock
<1>3. CASE call' = [call EXCEPT ![t] = c]
  <2>1. {"op", "at"} \subseteq DOMAIN c /\ c.at = "called"
    OBVIOUS
  <2> QED
    BY <1>1, <1>3, <2>1, KeepsLock
<1> QED
  BY <1>2, <1>3 DEF CopySelf

LEMMA UpdateKeeps ==
  ASSUME LockInv, NEW t \in Threads, Update(t)
  PROVE  LockInv'
<1>1. call[t].at = "writes"
  BY DEF Update, At
<1>2. CASE def_write_unlock(t)
  BY <1>1, <1>2, UnlockKeeps
<1>3. CASE call' = [call EXCEPT ![t].rest = Tail(@)] /\ UNCHANGED lockVars /\ overlap' = overlap
  <2> DEFINE c == [call[t] EXCEPT !.rest = Tail(@)]
  <2>1. call' = [call EXCEPT ![t] = c]
    BY <1>3
  <2>2. {"op", "at"} \subseteq DOMAIN c /\ c.at = "writes"
    BY <1>1 DEF LockInv, CallTyped
  <2> QED
    BY <1>1, <1>3, <2>1, <2>2, KeepsLock
<1>4. CASE AddSpins(t, call[t].rest[1][1])
  BY <1>1, <1>4, WriterKeeps DEF AddSpins
<1> QED
  BY <1>2, <1>3, <1>4 DEF Update

LEMMA DelItemKeeps ==
  ASSUME LockInv, NEW t \in Threads, DelItem(t)
  PROVE  LockInv'
<1>1. call[t].at = "writes"
  BY DEF DelItem, At
<1>2. CASE def_write_unlock(t)
  BY <1>1, <1>2, UnlockKeeps
<1>3. CASE UNCHANGED lockVars /\ overlap' = overlap /\ (Leave(t, "spins") \/ Leave(t, "stuck"))
  BY <1>1, <1>3, WriterKeeps
<1> QED
  BY <1>2, <1>3 DEF DelItem

LEMMA ClearKeeps ==
  ASSUME LockInv, NEW t \in Threads, Clear(t)
  PROVE  LockInv'
BY UnlockKeeps DEF Clear, At

LEMMA PopKeeps ==
  ASSUME LockInv, NEW t \in Threads, PopFind(t) \/ PopMark(t) \/ PopStore(t)
  PROVE  LockInv'
<1>0. CallTyped
  BY DEF LockInv
<1>1. CASE PopFind(t) /\ Live(tbl) = {}
  <2>1. call[t].at = "called" /\ read_lock(t) /\ Leave(t, "done") /\ overlap' = overlap
    BY <1>1 DEF PopFind, At
  <2> QED
    BY <1>0, <2>1, GotoMoves, ReadKeeps
<1>2. CASE PopFind(t) /\ Live(tbl) # {} /\ Miscounted(1)
  <2>1. /\ call[t].at = "called" /\ writer = NoThread /\ Leave(t, "aborts")
        /\ UNCHANGED lockVars /\ overlap' = overlap
    BY <1>2 DEF PopFind, At
  <2> QED
    BY <1>0, <2>1, GotoMoves, KeepsLock
<1>3. CASE PopFind(t) /\ Live(tbl) # {} /\ ~Miscounted(1)
  <2> DEFINE c == [op |-> "pop", at |-> "marks", slot |-> Min(Live(tbl))]
  <2>1. /\ call[t].at = "called" /\ writer = NoThread /\ UNCHANGED lockVars
        /\ call' = [call EXCEPT ![t] = c] /\ (overlap => overlap')
    BY <1>3 DEF PopFind, At
  <2>2. {"op", "at"} \subseteq DOMAIN c /\ c.at = "marks" /\ c.op = "pop"
    OBVIOUS
  <2> QED
    BY <2>1, <2>2, KeepsLock
<1>4. CASE PopMark(t)
  <2> DEFINE c == [op |-> "pop", at |-> "stores", len |-> len - 1]
  <2>1. call[t].at = "marks" /\ UNCHANGED <<lockVars, overlap>> /\ call' = [call EXCEPT ![t] = c]
    BY <1>4 DEF PopMark, At
  <2>2. {"op", "at"} \subseteq DOMAIN c /\ c.at = "stores" /\ c.op = "pop"
    OBVIOUS
  <2> QED
    BY <2>1, <2>2, KeepsLock
<1>5. CASE PopStore(t)
  <2>1. call[t].at = "stores" /\ UNCHANGED <<lockVars, overlap>> /\ Leave(t, "done")
    BY <1>5 DEF PopStore, At
  <2> QED
    BY <1>0, <2>1, GotoMoves, KeepsLock
<1> QED
  BY <1>1, <1>2, <1>3, <1>4, <1>5

-----------------------------------------------------------------------------
(* The theorems *)

LEMMA InitLockInv ==
  ASSUME Init
  PROVE  LockInv
<1> USE NobodyElse DEF Init, Idle
<1>1. CallTyped /\ LocksTyped
  <2>1. 0 \in 0 .. CntMod - 1
    BY CountAssumption, FS_CardinalityType
  <2> QED
    BY <2>1 DEF CallTyped, LocksTyped
<1>2. Holds /\ Excluded /\ Apart
  BY DEF Holds, Excluded, Apart, Places
<1>3. Nested
  BY CountAssumption DEF Nested
<1>4. ReadLocks = {}
  BY CountAssumption DEF ReadLocks
<1>5. Counted
  BY <1>4, FS_EmptySet DEF Counted
<1> QED
  BY <1>1, <1>2, <1>3, <1>5 DEF LockInv

LEMMA StepLockInv ==
  ASSUME LockInv, [Next]_vars
  PROVE  LockInv'
<1>1. ASSUME NEW t \in Threads, CallOfKey(t) \/ CallOfAll(t) PROVE LockInv'
  <2>1. PICK args : {"op", "at"} \subseteq DOMAIN args /\ args.at = "called" /\ Call(t, args)
    BY <1>1 DEF CallOfKey, CallOfAll
  <2> QED
    BY <2>1, CallKeeps
<1>2. CASE UNCHANGED vars
  BY <1>2 DEF vars, lockVars, LockInv, CallTyped, LocksTyped, Holds, Nested, Counted, ReadLocks,
     Excluded, Apart, Reading
<1> QED
  BY <1>1, <1>2, ReturnKeeps, GetKeeps, ListKeeps, def_write_lockKeeps, RefusedKeeps,
     GrantedKeeps, RereadKeeps, SetItemKeeps, CopySelfKeeps, UpdateKeeps, DelItemKeeps,
     ClearKeeps, PopKeeps DEF Next, Step

\* Each thread has the lock that its place in the call needs, rdlock_cnt counts the
\* read locks until a write_lock is refused, and no one begins to read beside a writer.
THEOREM LocksHeld == Spec => []LockInv
BY InitLockInv, StepLockInv, PTL DEF Spec

\* Until a write_lock is refused, nobody sees the table between the steps of a writer:
\* of a reallocation, of update!, or after a deletion that failed with the lock held.
THEOREM WriterHasItAlone == Spec => []WriterAlone
<1>1. LockInv => WriterAlone
  BY NobodyElse DEF LockInv, Holds, Excluded, WriterAlone, Alone, Reading, LocksTyped
<1> QED
  BY <1>1, LocksHeld, PTL

\* Every change of the table is under the write lock, but those of popItem!.
THEOREM TableGuarded == Spec => ChangesLocked
<1>1. ASSUME LockInv, [Next]_vars
      PROVE  [UNCHANGED <<tbl, len>> \/ \E t \in Threads :
                writer = t \/ (lockstack[t] > 0 /\ call[t].op = "pop")]_vars
  <2>1. ASSUME NEW t \in Threads, call[t].at = "writes" PROVE writer = t
    BY <1>1, <2>1 DEF LockInv, Holds
  <2>2. ASSUME NEW t \in Threads, SetItem(t) \/ Update(t) \/ DelItem(t) \/ Clear(t)
        PROVE  writer = t
    BY <2>1, <2>2 DEF SetItem, Update, DelItem, Clear, At
  <2>3. ASSUME NEW t \in Threads, PopMark(t) \/ PopStore(t)
        PROVE  lockstack[t] > 0 /\ call[t].op = "pop"
    BY <1>1, <2>3 DEF PopMark, PopStore, At, LockInv, Holds
  <2>4. ASSUME NEW t \in Threads,
               \/ CallOfKey(t) \/ CallOfAll(t) \/ Return(t) \/ Get(t) \/ List(t) \/ Refused(t)
               \/ def_write_lock(t) \/ Granted(t) \/ Reread(t) \/ CopySelf(t) \/ PopFind(t)
        PROVE  UNCHANGED <<tbl, len>>
    BY <2>4 DEF CallOfKey, CallOfAll, Call, Return, Get, List, def_write_lock, Granted,
       Refused, Reread, Reads, CopySelf, PopFind
  <2> QED
    BY <1>1, <2>2, <2>3, <2>4 DEF Next, Step
<1> QED
  BY <1>1, LocksHeld, PTL DEF Spec, ChangesLocked

=============================================================================
