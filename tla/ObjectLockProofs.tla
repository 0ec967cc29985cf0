-------------------------- MODULE ObjectLockProofs --------------------------
(***************************************************************************)
(* For any threads, objects, access rights and nesting bound: the two      *)
(* counters of an object tell the truth, a write lock excludes every read  *)
(* lock, and ObjectLock implements the abstract lock of RWLock.            *)
(***************************************************************************)
EXTENDS ObjectLock, FiniteSetTheorems, TLAPS

\* Nesting stays below the bound that keeps the 7-bit counters from wrapping.
Nesting == \A t \in Threads :
  /\ \A o \in Objects : lockstack[t][o] <= MaxNest
  /\ pc[t] \in Reading => lockstack[t][target[t]] < MaxNest

\* A writer that blocks has the spinlock; a writer never sleeps, and a reader
\* never waits, on an immutable object, and nobody reads one.
Settled ==
  /\ \A t \in Threads :
       /\ pc[t] = "write_mutex" => wrlock[target[t]] = t
       /\ pc[t] \in {"write_mutex", "read_wait"} \union Waiting => ~immutable[target[t]]
  /\ \A t \in Threads, o \in Objects : immutable[o] => lockstack[t][o] = 0

IndInv == TypeOK /\ Nesting /\ Settled /\ CountsAreLocks /\ Exclusion

-----------------------------------------------------------------------------
(* The counters: sets of read locks and of waiters that fit in 7 bits *)

\* Bit-field arithmetic is plain arithmetic while it does not wrap.
LEMMA Counting ==
  ASSUME NEW cnt \in [Objects -> 0 .. CntMod - 1], NEW o \in Objects
  PROVE  /\ Inc(cnt, o) \in [Objects -> 0 .. CntMod - 1]
         /\ Dec(cnt, o) \in [Objects -> 0 .. CntMod - 1]
         /\ cnt[o] + 1 < CntMod => Inc(cnt, o)[o] = cnt[o] + 1
         /\ cnt[o] > 0 => Dec(cnt, o)[o] = cnt[o] - 1
         /\ \A p \in Objects \ {o} : Inc(cnt, o)[p] = cnt[p] /\ Dec(cnt, o)[p] = cnt[p]
<1> DEFINE n == cnt[o]
<1>1. n \in Nat /\ n < CntMod /\ CntMod \in Nat \ {0}
  BY LockAssumption
<1>2. /\ (n + 1) % CntMod \in 0 .. CntMod - 1
      /\ (n + CntMod - 1) % CntMod \in 0 .. CntMod - 1
      /\ n + 1 < CntMod => (n + 1) % CntMod = n + 1
      /\ n > 0 => (n + CntMod - 1) % CntMod = n - 1
  <2> HIDE DEF n
  <2>1. ASSUME NEW m \in Nat PROVE m % CntMod \in 0 .. CntMod - 1
    BY <1>1
  <2>2. n + 1 \in Nat /\ n + CntMod - 1 \in Nat
    BY <1>1
  <2>3. n + 1 < CntMod => (n + 1) % CntMod = n + 1
    BY <1>1
  <2>4. n > 0 => (n + CntMod - 1) % CntMod = n - 1
    BY <1>1
  <2> QED
    BY <2>1, <2>2, <2>3, <2>4
<1> QED
  BY <1>2 DEF Inc, Dec

\* However the threads nest, an object's read locks fit in its counter.
LEMMA ReadLocksFit ==
  ASSUME NEW S \in SUBSET (Threads \X (1 .. MaxNest))
  PROVE  IsFiniteSet(S) /\ Cardinality(S) \in 0 .. CntMod - 1
<1>1. IsFiniteSet(1 .. MaxNest) /\ Cardinality(1 .. MaxNest) = MaxNest
  BY FS_Interval, LockAssumption
<1>2. /\ IsFiniteSet(Threads \X (1 .. MaxNest))
      /\ Cardinality(Threads \X (1 .. MaxNest)) = Cardinality(Threads) * MaxNest
  BY <1>1, FS_Product, LockAssumption
<1>3. IsFiniteSet(S) /\ Cardinality(S) <= Cardinality(Threads) * MaxNest
  BY <1>2, FS_Subset
<1>4. Cardinality(S) \in Nat /\ Cardinality(Threads) \in Nat
  BY <1>3, FS_CardinalityType, LockAssumption
<1> QED
  BY <1>3, <1>4, LockAssumption

\* And so do its waiting writers.
LEMMA WaitersFit ==
  ASSUME NEW S \in SUBSET Threads
  PROVE  IsFiniteSet(S) /\ Cardinality(S) \in 0 .. CntMod - 1
<1>1. IsFiniteSet(S) /\ Cardinality(S) <= Cardinality(Threads)
  BY FS_Subset, LockAssumption
<1>2. Cardinality(S) \in Nat /\ Cardinality(Threads) \in Nat
  BY <1>1, FS_CardinalityType, LockAssumption
<1>3. Cardinality(Threads) <= Cardinality(Threads) * MaxNest
  BY <1>2, LockAssumption
<1> QED
  BY <1>1, <1>2, <1>3, LockAssumption

\* A read lock adds one element to the set of its object, none to the others.
LEMMA AddReadLock ==
  ASSUME TypeOK, NEW t \in Threads, NEW o \in Objects,
         lockstack[t][o] < MaxNest,
         lockstack' = [lockstack EXCEPT ![t][o] = @ + 1],
         NEW p \in Objects
  PROVE  Cardinality(ReadLocks(p)') =
           IF p = o THEN Cardinality(ReadLocks(p)) + 1 ELSE Cardinality(ReadLocks(p))
<1> DEFINE l == <<t, lockstack[t][o] + 1>>
<1>1. /\ lockstack \in [Threads -> [Objects -> Nat]]
      /\ lockstack' \in [Threads -> [Objects -> Nat]]
      /\ lockstack'[t][o] = lockstack[t][o] + 1
      /\ \A u \in Threads, q \in Objects :
           u # t \/ q # o => lockstack'[u][q] = lockstack[u][q]
      /\ MaxNest \in Nat
  BY LockAssumption DEF TypeOK
<1>2. CASE p = o
  <2>1. l \in Threads \X (1 .. MaxNest)
    BY <1>1
  <2>2. l \notin ReadLocks(o)
    BY <1>1 DEF ReadLocks
  <2>3. ASSUME NEW m \in Threads \X (1 .. MaxNest)
        PROVE  m \in ReadLocks(o)' <=> m \in ReadLocks(o) \/ m = l
    <3>1. PICK u \in Threads, n \in 1 .. MaxNest : m = <<u, n>>
      BY <2>3
    <3> QED
      BY <1>1, <3>1 DEF ReadLocks
  <2>4. ReadLocks(o)' = ReadLocks(o) \cup {l}
    BY <2>1, <2>3 DEF ReadLocks
  <2>5. IsFiniteSet(ReadLocks(o))
    BY ReadLocksFit DEF ReadLocks
  <2> QED
    BY <1>2, <2>2, <2>4, <2>5, FS_AddElement
<1>3. CASE p # o
  <2>1. \A u \in Threads : lockstack'[u][p] = lockstack[u][p]
    BY <1>1, <1>3
  <2>2. ReadLocks(p)' = ReadLocks(p)
    BY <2>1 DEF ReadLocks
  <2> QED
    BY <1>3, <2>2
<1> QED
  BY <1>2, <1>3

\* A read unlock takes one element out.
LEMMA DropReadLock ==
  ASSUME TypeOK, Nesting, NEW t \in Threads, NEW o \in Objects,
         lockstack[t][o] > 0,
         lockstack' = [lockstack EXCEPT ![t][o] = @ - 1],
         NEW p \in Objects
  PROVE  Cardinality(ReadLocks(p)') =
           IF p = o THEN Cardinality(ReadLocks(p)) - 1 ELSE Cardinality(ReadLocks(p))
<1> DEFINE l == <<t, lockstack[t][o]>>
<1>1. /\ lockstack \in [Threads -> [Objects -> Nat]]
      /\ lockstack' \in [Threads -> [Objects -> Nat]]
      /\ lockstack'[t][o] = lockstack[t][o] - 1
      /\ lockstack[t][o] <= MaxNest
      /\ \A u \in Threads, q \in Objects :
           u # t \/ q # o => lockstack'[u][q] = lockstack[u][q]
      /\ MaxNest \in Nat
  BY LockAssumption DEF TypeOK, Nesting
<1>2. CASE p = o
  <2>1. l \in ReadLocks(o)
    BY <1>1 DEF ReadLocks
  <2>2. ASSUME NEW m \in Threads \X (1 .. MaxNest)
        PROVE  m \in ReadLocks(o)' <=> m \in ReadLocks(o) /\ m # l
    <3>1. PICK u \in Threads, n \in 1 .. MaxNest : m = <<u, n>>
      BY <2>2
    <3> QED
      BY <1>1, <3>1 DEF ReadLocks
  <2>3. ReadLocks(o)' = ReadLocks(o) \ {l}
    BY <2>2 DEF ReadLocks
  <2>4. IsFiniteSet(ReadLocks(o))
    BY ReadLocksFit DEF ReadLocks
  <2> HIDE DEF l
  <2>5. Cardinality(ReadLocks(o) \ {l}) = Cardinality(ReadLocks(o)) - 1
    BY <2>1, <2>4, FS_RemoveElement
  <2> QED
    BY <1>2, <2>3, <2>5
<1>3. CASE p # o
  <2>1. \A u \in Threads : lockstack'[u][p] = lockstack[u][p]
    BY <1>1, <1>3
  <2>2. ReadLocks(p)' = ReadLocks(p)
    BY <2>1 DEF ReadLocks
  <2> QED
    BY <1>3, <2>2
<1> QED
  BY <1>2, <1>3

\* Only steps that start or end a wait change the set of waiting writers.
LEMMA AddWaiter ==
  ASSUME TypeOK, NEW t \in Threads, NEW o \in Objects,
         pc[t] \notin Waiting, target[t] = o,
         pc' = [pc EXCEPT ![t] = "write_wait"], target' = target,
         NEW p \in Objects
  PROVE  Cardinality(Waiters(p)') =
           IF p = o THEN Cardinality(Waiters(p)) + 1 ELSE Cardinality(Waiters(p))
<1>1. p = o => Waiters(p)' = Waiters(p) \cup {t} /\ t \notin Waiters(p)
  BY DEF Waiters, Waiting, TypeOK
<1>2. p # o => Waiters(p)' = Waiters(p)
  BY DEF Waiters, Waiting, TypeOK
<1>3. IsFiniteSet(Waiters(p))
  BY WaitersFit DEF Waiters
<1> QED
  BY <1>1, <1>2, <1>3, FS_AddElement

LEMMA DropWaiter ==
  ASSUME TypeOK, NEW t \in Threads, NEW o \in Objects,
         pc[t] \in Waiting, target[t] = o,
         Return(t, "idle"),
         NEW p \in Objects
  PROVE  Cardinality(Waiters(p)') =
           IF p = o THEN Cardinality(Waiters(p)) - 1 ELSE Cardinality(Waiters(p))
<1>1. p = o => Waiters(p)' = Waiters(p) \ {t} /\ t \in Waiters(p)
  BY DEF Waiters, Waiting, TypeOK, Return
<1>2. p # o => Waiters(p)' = Waiters(p)
  BY LockAssumption DEF Waiters, Waiting, TypeOK, Return
<1>3. IsFiniteSet(Waiters(p))
  BY WaitersFit DEF Waiters
<1> QED
  BY <1>1, <1>2, <1>3, FS_RemoveElement

-----------------------------------------------------------------------------
(* The inductive invariant *)

\* A step that leaves lockstack and the counters alone, and neither starts nor
\* ends a wait, leaves the counters right.
LEMMA CountsKept ==
  ASSUME CountsAreLocks, UNCHANGED <<rdlock_cnt, wrlock_req_cnt, lockstack>>,
         \A u \in Threads, p \in Objects :
           (pc'[u] \in Waiting /\ target'[u] = p) <=> (pc[u] \in Waiting /\ target[u] = p)
  PROVE  CountsAreLocks'
<1>1. \A p \in Objects : ReadLocks(p)' = ReadLocks(p)
  BY DEF ReadLocks
<1>2. \A p \in Objects : Waiters(p)' = Waiters(p)
  BY DEF Waiters
<1> QED
  BY <1>1, <1>2 DEF CountsAreLocks

LEMMA InitInv == Init => IndInv
<1> SUFFICES ASSUME Init PROVE IndInv
  OBVIOUS
<1>1. TypeOK
  BY LockAssumption, FS_CardinalityType DEF Init, TypeOK, Returned
<1>2. Nesting /\ Settled /\ Exclusion
  BY LockAssumption DEF Init, Nesting, Settled, Exclusion, Holds, Reading, Waiting
<1>3. ASSUME NEW o \in Objects
      PROVE  ReadLocks(o) = {} /\ Waiters(o) = {}
  BY <1>3, LockAssumption DEF Init, ReadLocks, Waiters, Waiting
<1>4. CountsAreLocks
  BY <1>3, FS_EmptySet DEF Init, CountsAreLocks
<1> QED
  BY <1>1, <1>2, <1>4 DEF IndInv

\* A read lock is granted on an object that nobody holds and that is mutable.
LEMMA TakeReadInv ==
  ASSUME IndInv, NEW t \in Threads, NEW o \in Objects,
         pc[t] \notin Waiting, pc[t] # "write_mutex", Free(o), ~immutable[o],
         lockstack[t][o] < MaxNest,
         TakeRead(t, o),
         Return(t, "idle") \/ (pc[t] \in Returned /\ UNCHANGED <<pc, target>>)
  PROVE  IndInv'
<1> USE DEF IndInv
<1>0. /\ rdlock_cnt \in [Objects -> 0 .. CntMod - 1]
      /\ rdlock_cnt' = Inc(rdlock_cnt, o)
      /\ rdlock_cnt' \in [Objects -> 0 .. CntMod - 1]
      /\ rdlock_cnt[o] + 1 < CntMod => rdlock_cnt'[o] = rdlock_cnt[o] + 1
      /\ \A p \in Objects \ {o} : rdlock_cnt'[p] = rdlock_cnt[p]
  BY Counting DEF TypeOK, TakeRead
<1>1. TypeOK'
  <2>1. /\ wrlock' = wrlock /\ wrlock_req_cnt' = wrlock_req_cnt
        /\ immutable' = immutable /\ write_mutex' = write_mutex
        /\ lockstack' \in [Threads -> [Objects -> Nat]]
    BY DEF TypeOK, TakeRead
  <2>2. /\ pc' \in [Threads -> Returned \union Reading \union Writing \union {"read_unlock"}]
        /\ target' \in [Threads -> Objects \union {NoObject}]
        /\ \A u \in Threads : pc'[u] \in Returned <=> target'[u] = NoObject
    BY DEF TypeOK, Return, Returned
  <2> QED
    BY <1>0, <2>1, <2>2 DEF TypeOK
<1>2. /\ lockstack'[t][o] = lockstack[t][o] + 1
      /\ \A u \in Threads, q \in Objects :
           u # t \/ q # o => lockstack'[u][q] = lockstack[u][q]
      /\ \A u \in Threads \ {t} : pc'[u] = pc[u] /\ target'[u] = target[u]
      /\ pc'[t] \in Returned
      /\ lockstack \in [Threads -> [Objects -> Nat]]
  BY DEF TakeRead, Return, TypeOK, Returned
<1>3. Nesting'
  <2> SUFFICES ASSUME NEW u \in Threads
               PROVE  /\ \A q \in Objects : lockstack'[u][q] <= MaxNest
                      /\ pc'[u] \in Reading => lockstack'[u][target'[u]] < MaxNest
    BY DEF Nesting
  <2>1. \A q \in Objects : lockstack'[u][q] <= MaxNest
    BY <1>2, LockAssumption DEF Nesting
  <2>2. pc'[u] \in Reading => u # t /\ target[u] \in Objects
    BY <1>2, <1>1 DEF Reading, Returned, TypeOK
  <2> QED
    BY <1>2, <2>1, <2>2 DEF Nesting
<1>4. Settled'
  BY <1>1, <1>2, LockAssumption DEF Settled, TypeOK, Waiting, Returned, TakeRead
<1>5. Exclusion'
  <2> SUFFICES ASSUME NEW u \in Threads, NEW q \in Objects, Holds(u, q)'
               PROVE  ~immutable'[q] /\ \A v \in Threads : lockstack'[v][q] = 0
    BY DEF Exclusion
  <2>1. wrlock[q] = u /\ q # o
    BY LockAssumption DEF Holds, TakeRead, Free, TypeOK
  <2>2. Holds(u, q)
    BY <1>2, <2>1 DEF Holds, TakeRead, Returned
  <2> QED
    BY <1>2, <2>1, <2>2 DEF Exclusion, TakeRead
<1>6. CountsAreLocks'
  <2> SUFFICES ASSUME NEW p \in Objects
               PROVE  /\ rdlock_cnt'[p] = Cardinality(ReadLocks(p)')
                      /\ wrlock_req_cnt'[p] = Cardinality(Waiters(p)')
    BY DEF CountsAreLocks
  <2>1. Waiters(p)' = Waiters(p) /\ wrlock_req_cnt' = wrlock_req_cnt
    BY <1>2 DEF Waiters, Waiting, Returned, TakeRead
  <2>2. Cardinality(ReadLocks(p)') =
          IF p = o THEN Cardinality(ReadLocks(p)) + 1 ELSE Cardinality(ReadLocks(p))
    BY AddReadLock DEF TakeRead
  <2>3. Cardinality(ReadLocks(p)') \in 0 .. CntMod - 1
    BY ReadLocksFit DEF ReadLocks
  <2> QED
    BY <1>0, <2>1, <2>2, <2>3, LockAssumption DEF CountsAreLocks
<1> QED
  BY <1>1, <1>3, <1>4, <1>5, <1>6

\* A step within a call, or a call, that changes nothing but where t is.
LEMMA MoveInv ==
  ASSUME IndInv, NEW t \in Threads, NEW label, NEW o \in Objects \union {NoObject},
         pc[t] \notin Waiting, pc[t] # "write_mutex",
         pc' = [pc EXCEPT ![t] = label], target' = [target EXCEPT ![t] = o],
         UNCHANGED <<wrlock, counters, immutable, lockstack, write_mutex>>,
         \/ label \in Returned /\ o = NoObject
         \/ label \in Reading \union {"write_lock", "read_unlock"} /\ o \in Objects,
         label \in Reading => lockstack[t][o] < MaxNest,
         label = "read_wait" => ~immutable[o]
  PROVE  IndInv'
<1> USE DEF IndInv
<1>1. /\ pc'[t] = label /\ target'[t] = o
      /\ \A u \in Threads \ {t} : pc'[u] = pc[u] /\ target'[u] = target[u]
      /\ wrlock' = wrlock /\ rdlock_cnt' = rdlock_cnt /\ wrlock_req_cnt' = wrlock_req_cnt
      /\ immutable' = immutable /\ lockstack' = lockstack /\ write_mutex' = write_mutex
      /\ label \notin Waiting /\ label # "write_mutex"
  BY DEF TypeOK, counters, Returned, Reading, Waiting
<1>2. TypeOK'
  <2>1. /\ pc' \in [Threads -> Returned \union Reading \union Writing \union {"read_unlock"}]
        /\ target' \in [Threads -> Objects \union {NoObject}]
    BY DEF TypeOK, Writing
  <2>2. \A u \in Threads : pc'[u] \in Returned <=> target'[u] = NoObject
    BY <1>1, LockAssumption DEF TypeOK, Returned, Reading
  <2> QED
    BY <1>1, <2>1, <2>2 DEF TypeOK
<1>3. Nesting'
  BY <1>1 DEF Nesting
<1>4. Settled'
  BY <1>1 DEF Settled
<1>5. Exclusion'
  <2>1. \A u \in Threads, q \in Objects : Holds(u, q)' => Holds(u, q)
    BY <1>1 DEF Holds
  <2> QED
    BY <1>1, <2>1 DEF Exclusion
<1>6. CountsAreLocks'
  BY <1>1, CountsKept
<1> QED
  BY <1>2, <1>3, <1>4, <1>5, <1>6

\* A count of zero means that no thread has the object in its lockstack.
LEMMA NoReaders ==
  ASSUME IndInv, NEW o \in Objects, rdlock_cnt[o] = 0, NEW u \in Threads
  PROVE  lockstack[u][o] = 0
<1>1. IsFiniteSet(ReadLocks(o)) /\ Cardinality(ReadLocks(o)) = 0
  BY ReadLocksFit DEF ReadLocks, IndInv, CountsAreLocks
<1>2. ReadLocks(o) = {}
  BY <1>1, FS_EmptySet
<1>3. SUFFICES ASSUME lockstack[u][o] # 0 PROVE FALSE
  OBVIOUS
<1>4. <<u, 1>> \in ReadLocks(o)
  BY <1>3, LockAssumption DEF ReadLocks, IndInv, TypeOK
<1> QED
  BY <1>2, <1>4

\* The spinlock is kept: by a writer that found no readers, or by one that
\* goes on to write_mutex and does not count as a holder.
LEMMA KeepSpinlockInv ==
  ASSUME IndInv, NEW t \in Threads, NEW o \in Objects,
         pc[t] \notin Waiting, pc[t] # "write_mutex",
         Free(o), ~immutable[o],
         wrlock' = [wrlock EXCEPT ![o] = t],
         UNCHANGED <<counters, immutable, lockstack, write_mutex>>,
         \/ rdlock_cnt[o] = 0 /\ Return(t, "idle")
         \/ rdlock_cnt[o] = 0 /\ pc[t] \in Returned /\ UNCHANGED <<pc, target>>
         \/ target[t] = o /\ Goto(t, "write_mutex")
  PROVE  IndInv'
<1> USE DEF IndInv
<1>1. /\ \A u \in Threads \ {t} : pc'[u] = pc[u] /\ target'[u] = target[u]
      /\ rdlock_cnt' = rdlock_cnt /\ wrlock_req_cnt' = wrlock_req_cnt
      /\ immutable' = immutable /\ lockstack' = lockstack /\ write_mutex' = write_mutex
      /\ \/ pc'[t] \in Returned /\ rdlock_cnt[o] = 0
         \/ pc'[t] = "write_mutex" /\ target[t] = o /\ target'[t] = o
      /\ wrlock'[o] = t /\ \A q \in Objects \ {o} : wrlock'[q] = wrlock[q]
  BY DEF TypeOK, counters, Return, Goto, Returned
<1>2. TypeOK'
  <2>1. /\ pc' \in [Threads -> Returned \union Reading \union Writing \union {"read_unlock"}]
        /\ target' \in [Threads -> Objects \union {NoObject}]
        /\ wrlock' \in [Objects -> Threads \union {NoThread}]
    BY DEF TypeOK, Writing, Return, Goto, Returned
  <2>2. \A u \in Threads : pc'[u] \in Returned <=> target'[u] = NoObject
    BY LockAssumption DEF TypeOK, Returned, Return, Goto
  <2> QED
    BY <1>1, <2>1, <2>2 DEF TypeOK
<1>3. Nesting'
  BY <1>1 DEF Nesting, Returned, Reading
<1>4. Settled'
  <2> SUFFICES ASSUME NEW u \in Threads
               PROVE  /\ pc'[u] = "write_mutex" => wrlock'[target'[u]] = u
                      /\ pc'[u] \in {"write_mutex", "read_wait"} \union Waiting
                           => ~immutable[target'[u]]
    BY <1>1 DEF Settled
  <2>1. CASE u = t
    BY <1>1, <2>1 DEF Returned, Waiting
  <2>2. CASE u # t
    <3>1. pc[u] = "write_mutex" => target[u] \in Objects /\ target[u] # o
      BY <2>2, LockAssumption DEF Settled, TypeOK, Free, Returned
    <3> QED
      BY <1>1, <2>2, <3>1 DEF Settled
  <2> QED
    BY <2>1, <2>2
<1>5. Exclusion'
  <2> SUFFICES ASSUME NEW u \in Threads, NEW q \in Objects, Holds(u, q)'
               PROVE  ~immutable[q] /\ \A v \in Threads : lockstack[v][q] = 0
    BY <1>1 DEF Exclusion
  <2>1. CASE q = o
    <3>1. rdlock_cnt[o] = 0
      BY <1>1, <2>1 DEF Holds
    <3> QED
      BY <2>1, <3>1, NoReaders
  <2>2. CASE q # o
    <3>1. Holds(u, q)
      BY <1>1, <2>2 DEF Holds
    <3> QED
      BY <3>1 DEF Exclusion
  <2> QED
    BY <2>1, <2>2
<1>6. CountsAreLocks'
  BY <1>1, CountsKept DEF Returned, Waiting
<1> QED
  BY <1>2, <1>3, <1>4, <1>5, <1>6

LEMMA ReadUnlockInv ==
  ASSUME IndInv, NEW t \in Threads, ReadUnlock(t)
  PROVE  IndInv'
<1>0. PICK o \in Objects : o = target[t]
  BY DEF IndInv, TypeOK, ReadUnlock, Returned
<1>1. o \in Objects /\ pc[t] = "read_unlock" /\ target[t] = o
  BY <1>0 DEF ReadUnlock
<1>2. CASE immutable[o]
  BY <1>1, <1>2, MoveInv DEF ReadUnlock, Return, Returned, Waiting, counters, Reading
<1>3. CASE ~immutable[o]
  <2> USE DEF IndInv
  <2>1. /\ lockstack[t][o] > 0
        /\ lockstack' = [lockstack EXCEPT ![t][o] = @ - 1]
        /\ rdlock_cnt' = Dec(rdlock_cnt, o)
        /\ Return(t, "idle")
        /\ wrlock' = wrlock /\ wrlock_req_cnt' = wrlock_req_cnt
        /\ immutable' = immutable /\ write_mutex' = write_mutex
    BY <1>1, <1>3 DEF ReadUnlock
  <2>2. /\ \A u \in Threads \ {t} : pc'[u] = pc[u] /\ target'[u] = target[u]
        /\ pc'[t] = "idle" /\ target'[t] = NoObject
    BY <2>1 DEF TypeOK, Return
  <2>3. /\ lockstack' \in [Threads -> [Objects -> Nat]]
        /\ \A u \in Threads, q \in Objects : lockstack'[u][q] <= lockstack[u][q]
    <3>1. lockstack \in [Threads -> [Objects -> Nat]]
      BY DEF TypeOK
    <3> QED
      BY <2>1, <3>1
  <2>4. /\ \A u \in Threads \ {t} : pc'[u] = pc[u] /\ target'[u] = target[u]
        /\ pc'[t] = "idle" /\ target'[t] = NoObject
        /\ wrlock' = wrlock /\ wrlock_req_cnt' = wrlock_req_cnt
        /\ immutable' = immutable /\ write_mutex' = write_mutex
        /\ lockstack' \in [Threads -> [Objects -> Nat]]
        /\ \A u \in Threads, q \in Objects : lockstack'[u][q] <= lockstack[u][q]
    BY <2>1, <2>2, <2>3
  <2>5. /\ rdlock_cnt \in [Objects -> 0 .. CntMod - 1]
        /\ rdlock_cnt' \in [Objects -> 0 .. CntMod - 1]
        /\ rdlock_cnt[o] > 0 => rdlock_cnt'[o] = rdlock_cnt[o] - 1
        /\ \A p \in Objects \ {o} : rdlock_cnt'[p] = rdlock_cnt[p]
    <3>1. rdlock_cnt \in [Objects -> 0 .. CntMod - 1]
      BY DEF TypeOK
    <3> QED
      BY <2>1, <3>1, Counting
  <2>6. TypeOK'
    <3>1. /\ pc' \in [Threads -> Returned \union Reading \union Writing \union {"read_unlock"}]
          /\ target' \in [Threads -> Objects \union {NoObject}]
      BY DEF TypeOK, ReadUnlock, Return, Returned
    <3>2. \A u \in Threads : pc'[u] \in Returned <=> target'[u] = NoObject
      BY <2>4 DEF TypeOK, Returned
    <3> QED
      BY <2>4, <2>5, <3>1, <3>2 DEF TypeOK
  <2>7. Nesting'
    <3> SUFFICES ASSUME NEW u \in Threads
                 PROVE  /\ \A q \in Objects : lockstack'[u][q] <= MaxNest
                        /\ pc'[u] \in Reading => lockstack'[u][target'[u]] < MaxNest
      BY DEF Nesting
    <3>1. \A q \in Objects : lockstack'[u][q] <= MaxNest
      BY <2>4, LockAssumption DEF Nesting, TypeOK
    <3>2. pc'[u] \in Reading => u # t /\ target[u] \in Objects
      BY <2>4 DEF Reading, Returned, TypeOK
    <3> QED
      BY <2>4, <3>1, <3>2, LockAssumption DEF Nesting, TypeOK
  <2>8. Settled'
    BY <2>4 DEF Settled, Waiting, TypeOK
  <2>9. Exclusion'
    <3>1. \A u \in Threads, q \in Objects : Holds(u, q)' => Holds(u, q)
      BY <1>1, <2>4 DEF Holds
    <3> QED
      BY <2>4, <3>1 DEF Exclusion, TypeOK
  <2>10. CountsAreLocks'
    <3> SUFFICES ASSUME NEW p \in Objects
                 PROVE  /\ rdlock_cnt'[p] = Cardinality(ReadLocks(p)')
                        /\ wrlock_req_cnt'[p] = Cardinality(Waiters(p)')
      BY DEF CountsAreLocks
    <3>1. Waiters(p)' = Waiters(p)
      BY <1>1, <2>4 DEF Waiters, Waiting
    <3>2. Cardinality(ReadLocks(p)') =
            IF p = o THEN Cardinality(ReadLocks(p)) - 1 ELSE Cardinality(ReadLocks(p))
      BY <2>1, DropReadLock
    <3>3. Cardinality(ReadLocks(p)') \in 0 .. CntMod - 1
      BY ReadLocksFit DEF ReadLocks
    <3>4. Cardinality(ReadLocks(p)) = rdlock_cnt[p]
      BY DEF CountsAreLocks
    <3>5. rdlock_cnt'[p] = Cardinality(ReadLocks(p)')
      BY <2>5, <3>2, <3>3, <3>4
    <3> QED
      BY <2>4, <3>1, <3>5 DEF CountsAreLocks
  <2> QED
    BY <2>6, <2>7, <2>8, <2>9, <2>10
<1> QED
  BY <1>2, <1>3

LEMMA WriteSleepInv ==
  ASSUME IndInv, NEW t \in Threads, WriteSleep(t)
  PROVE  IndInv'
<1> USE DEF IndInv
<1>0. PICK o \in Objects : o = target[t]
  BY DEF TypeOK, WriteSleep, Returned
<1>1. /\ target[t] = o /\ pc[t] = "write_mutex" /\ wrlock[o] = t /\ ~immutable[o]
      /\ \A u \in Threads \ {t} : pc'[u] = pc[u]
      /\ pc'[t] = "write_wait" /\ target' = target
      /\ wrlock'[o] = NoThread /\ \A q \in Objects \ {o} : wrlock'[q] = wrlock[q]
      /\ rdlock_cnt' = rdlock_cnt /\ immutable' = immutable
      /\ lockstack' = lockstack /\ write_mutex' = write_mutex
  BY <1>0 DEF TypeOK, Settled, WriteSleep, Goto, Returned
<1>2. /\ wrlock_req_cnt \in [Objects -> 0 .. CntMod - 1]
      /\ wrlock_req_cnt' = Inc(wrlock_req_cnt, o)
      /\ wrlock_req_cnt' \in [Objects -> 0 .. CntMod - 1]
      /\ wrlock_req_cnt[o] + 1 < CntMod => wrlock_req_cnt'[o] = wrlock_req_cnt[o] + 1
      /\ \A p \in Objects \ {o} : wrlock_req_cnt'[p] = wrlock_req_cnt[p]
  BY <1>1, Counting, SMTT(60) DEF TypeOK, WriteSleep
<1>3. TypeOK'
  <2>1. /\ pc' \in [Threads -> Returned \union Reading \union Writing \union {"read_unlock"}]
        /\ wrlock' \in [Objects -> Threads \union {NoThread}]
    BY DEF TypeOK, WriteSleep, Goto, Writing, Waiting
  <2>2. \A u \in Threads : pc'[u] \in Returned <=> target'[u] = NoObject
    BY <1>1, LockAssumption DEF TypeOK, Returned
  <2> QED
    BY <1>1, <1>2, <2>1, <2>2 DEF TypeOK
<1>4. Nesting'
  BY <1>1 DEF Nesting, Reading
<1>5. Settled'
  <2>1. ASSUME NEW u \in Threads, u # t, pc[u] = "write_mutex"
        PROVE  target[u] \in Objects /\ target[u] # o
    BY <1>1, <2>1 DEF Settled, TypeOK, Returned
  <2> QED
    BY <1>1, <2>1 DEF Settled, Waiting
<1>6. Exclusion'
  <2>1. \A u \in Threads, q \in Objects : Holds(u, q)' => Holds(u, q)
    BY <1>1, LockAssumption DEF Holds
  <2> QED
    BY <1>1, <2>1 DEF Exclusion
<1>7. CountsAreLocks'
  <2> SUFFICES ASSUME NEW p \in Objects
               PROVE  /\ rdlock_cnt'[p] = Cardinality(ReadLocks(p)')
                      /\ wrlock_req_cnt'[p] = Cardinality(Waiters(p)')
    BY DEF CountsAreLocks
  <2>1. ReadLocks(p)' = ReadLocks(p)
    BY <1>1 DEF ReadLocks
  <2>2. Cardinality(Waiters(p)') =
          IF p = o THEN Cardinality(Waiters(p)) + 1 ELSE Cardinality(Waiters(p))
    BY <1>1, AddWaiter DEF WriteSleep, Goto, Waiting
  <2>3. Cardinality(Waiters(p)') \in 0 .. CntMod - 1
    BY WaitersFit DEF Waiters
  <2>4. Cardinality(Waiters(p)) = wrlock_req_cnt[p]
    BY DEF CountsAreLocks
  <2>5. wrlock_req_cnt'[p] = Cardinality(Waiters(p)')
    <3>1. CASE p = o
      BY <1>2, <2>2, <2>3, <2>4, <3>1, LockAssumption
    <3>2. CASE p # o
      BY <1>2, <2>2, <2>4, <3>2
    <3> QED
      BY <3>1, <3>2
  <2> QED
    BY <1>1, <2>1, <2>5 DEF CountsAreLocks
<1> QED
  BY <1>3, <1>4, <1>5, <1>6, <1>7

\* A waiting writer that wakes up, or goes back to sleep, is a waiting writer.
LEMMA PollInv ==
  ASSUME IndInv, NEW t \in Threads, pc[t] \in Waiting,
         NEW label \in Waiting, Goto(t, label),
         UNCHANGED <<wrlock, counters, immutable, lockstack>>,
         write_mutex' \in Threads \union {NoThread}
  PROVE  IndInv'
<1> USE DEF IndInv
<1>1. /\ pc'[t] = label /\ \A u \in Threads \ {t} : pc'[u] = pc[u]
      /\ target' = target /\ wrlock' = wrlock
      /\ rdlock_cnt' = rdlock_cnt /\ wrlock_req_cnt' = wrlock_req_cnt
      /\ immutable' = immutable /\ lockstack' = lockstack
      /\ label \notin Reading /\ label \notin Returned /\ label # "write_mutex"
  BY DEF TypeOK, counters, Goto, Waiting, Reading, Returned
<1>2. TypeOK'
  <2>1. pc' \in [Threads -> Returned \union Reading \union Writing \union {"read_unlock"}]
    BY DEF TypeOK, Goto, Writing
  <2>2. \A u \in Threads : pc'[u] \in Returned <=> target'[u] = NoObject
    BY <1>1 DEF TypeOK, Returned, Waiting
  <2> QED
    BY <1>1, <2>1, <2>2 DEF TypeOK
<1>3. Nesting'
  BY <1>1 DEF Nesting
<1>4. Settled'
  BY <1>1 DEF Settled
<1>5. Exclusion'
  <2>1. \A u \in Threads, q \in Objects : Holds(u, q)' => Holds(u, q)
    BY <1>1 DEF Holds, Waiting
  <2> QED
    BY <1>1, <2>1 DEF Exclusion
<1>6. CountsAreLocks'
  BY <1>1, CountsKept
<1> QED
  BY <1>2, <1>3, <1>4, <1>5, <1>6

LEMMA WriteRetryInv ==
  ASSUME IndInv, NEW t \in Threads, WriteRetry(t)
  PROVE  IndInv'
<1> USE DEF IndInv
<1>1. PICK o \in Objects : o = target[t]
  BY DEF TypeOK, WriteRetry, Returned
<1>2. /\ pc[t] = "write_get" /\ wrlock[o] = NoThread /\ ~immutable[o]
      /\ rdlock_cnt' = rdlock_cnt /\ immutable' = immutable /\ lockstack' = lockstack
      /\ write_mutex' = NoThread
  BY <1>1 DEF Settled, WriteRetry, Free, Waiting
<1>3. CASE rdlock_cnt[o] # 0
  BY <1>1, <1>2, <1>3, PollInv DEF WriteRetry, Waiting, counters
<1>4. CASE rdlock_cnt[o] = 0
  <2>1. /\ wrlock_req_cnt' = Dec(wrlock_req_cnt, o)
        /\ wrlock' = [wrlock EXCEPT ![o] = t]
        /\ Return(t, "idle")
    BY <1>1, <1>4 DEF WriteRetry
  <2>2. /\ \A u \in Threads \ {t} : pc'[u] = pc[u] /\ target'[u] = target[u]
        /\ pc'[t] = "idle" /\ target'[t] = NoObject
        /\ wrlock'[o] = t /\ \A q \in Objects \ {o} : wrlock'[q] = wrlock[q]
    BY <2>1 DEF TypeOK, Return
  <2>3. /\ wrlock_req_cnt \in [Objects -> 0 .. CntMod - 1]
        /\ wrlock_req_cnt' \in [Objects -> 0 .. CntMod - 1]
        /\ wrlock_req_cnt[o] > 0 => wrlock_req_cnt'[o] = wrlock_req_cnt[o] - 1
        /\ \A p \in Objects \ {o} : wrlock_req_cnt'[p] = wrlock_req_cnt[p]
    <3>1. wrlock_req_cnt \in [Objects -> 0 .. CntMod - 1]
      BY DEF TypeOK
    <3> QED
      BY <2>1, <3>1, Counting
  <2>4. TypeOK'
    <3>1. /\ pc' \in [Threads -> Returned \union Reading \union Writing \union {"read_unlock"}]
          /\ target' \in [Threads -> Objects \union {NoObject}]
          /\ wrlock' \in [Objects -> Threads \union {NoThread}]
      BY <2>1 DEF TypeOK, Return, Returned
    <3>2. \A u \in Threads : pc'[u] \in Returned <=> target'[u] = NoObject
      BY <2>2 DEF TypeOK, Returned
    <3> QED
      BY <1>2, <2>3, <3>1, <3>2 DEF TypeOK
  <2>5. Nesting'
    BY <1>2, <2>2 DEF Nesting, Reading
  <2>6. Settled'
    <3>1. ASSUME NEW u \in Threads, u # t, pc[u] = "write_mutex"
          PROVE  target[u] \in Objects /\ target[u] # o
      BY <1>2, <3>1, LockAssumption DEF Settled, TypeOK, Returned
    <3> QED
      BY <1>2, <2>2, <3>1 DEF Settled, Waiting
  <2>7. Exclusion'
    <3> SUFFICES ASSUME NEW u \in Threads, NEW q \in Objects, Holds(u, q)'
                 PROVE  ~immutable[q] /\ \A v \in Threads : lockstack[v][q] = 0
      BY <1>2 DEF Exclusion
    <3>1. CASE q = o
      BY <1>2, <1>4, <3>1, NoReaders
    <3>2. CASE q # o
      <4>1. Holds(u, q)
        BY <1>1, <1>2, <2>2, <3>2 DEF Holds
      <4> QED
        BY <4>1 DEF Exclusion
    <3> QED
      BY <3>1, <3>2
  <2>8. CountsAreLocks'
    <3> SUFFICES ASSUME NEW p \in Objects
                 PROVE  /\ rdlock_cnt'[p] = Cardinality(ReadLocks(p)')
                        /\ wrlock_req_cnt'[p] = Cardinality(Waiters(p)')
      BY DEF CountsAreLocks
    <3>1. ReadLocks(p)' = ReadLocks(p)
      BY <1>2 DEF ReadLocks
    <3>2. Cardinality(Waiters(p)') =
            IF p = o THEN Cardinality(Waiters(p)) - 1 ELSE Cardinality(Waiters(p))
      BY <1>1, <1>2, <2>1, DropWaiter DEF Waiting
    <3>3. Cardinality(Waiters(p)') \in 0 .. CntMod - 1
      BY WaitersFit DEF Waiters
    <3>4. Cardinality(Waiters(p)) = wrlock_req_cnt[p]
      BY DEF CountsAreLocks
    <3>5. wrlock_req_cnt'[p] = Cardinality(Waiters(p)')
      <4>1. CASE p = o
        BY <2>3, <3>2, <3>3, <3>4, <4>1
      <4>2. CASE p # o
        BY <2>3, <3>2, <3>4, <4>2
      <4> QED
        BY <4>1, <4>2
    <3> QED
      BY <1>2, <3>1, <3>5 DEF CountsAreLocks
  <2> QED
    BY <2>4, <2>5, <2>6, <2>7, <2>8
<1> QED
  BY <1>3, <1>4

LEMMA WriteUnlockInv ==
  ASSUME IndInv, NEW t \in Threads, NEW o \in Objects, WriteUnlock(t, o)
  PROVE  IndInv'
<1> USE DEF IndInv
<1>1. /\ pc' = pc /\ target' = target
      /\ rdlock_cnt' = rdlock_cnt /\ wrlock_req_cnt' = wrlock_req_cnt
      /\ immutable' = immutable /\ lockstack' = lockstack /\ write_mutex' = write_mutex
      /\ wrlock[o] = t /\ pc[t] \in Returned
      /\ wrlock' \in [Objects -> Threads \union {NoThread}]
      /\ wrlock'[o] \in {t, NoThread} /\ \A q \in Objects \ {o} : wrlock'[q] = wrlock[q]
  BY DEF WriteUnlock, counters, TypeOK
<1>2. TypeOK'
  BY <1>1 DEF TypeOK
<1>3. Nesting'
  BY <1>1 DEF Nesting
<1>4. Settled'
  <2>1. ASSUME NEW u \in Threads, pc[u] = "write_mutex"
        PROVE  wrlock[target[u]] = u /\ target[u] \in Objects /\ target[u] # o
    BY <1>1, <2>1 DEF Settled, TypeOK, Returned
  <2> QED
    BY <1>1, <2>1 DEF Settled
<1>5. Exclusion'
  <2>1. \A u \in Threads, q \in Objects : Holds(u, q)' => Holds(u, q)
    BY <1>1, LockAssumption DEF Holds
  <2> QED
    BY <1>1, <2>1 DEF Exclusion
<1>6. CountsAreLocks'
  BY <1>1, CountsKept
<1> QED
  BY <1>2, <1>3, <1>4, <1>5, <1>6

LEMMA FreezeInv ==
  ASSUME IndInv, NEW t \in Threads, NEW o \in Objects, NEW b \in BOOLEAN, Freeze(t, o, b)
  PROVE  IndInv'
<1> USE DEF IndInv
<1>1. /\ pc' = pc /\ target' = target /\ wrlock' = wrlock
      /\ rdlock_cnt' = rdlock_cnt /\ wrlock_req_cnt' = wrlock_req_cnt
      /\ lockstack' = lockstack /\ write_mutex' = write_mutex
      /\ wrlock[o] = NoThread
      /\ immutable' \in [Objects -> BOOLEAN]
      /\ \A q \in Objects \ {o} : immutable'[q] = immutable[q]
      /\ \A u \in Threads : target[u] # o /\ lockstack[u][o] = 0
  BY DEF Freeze, SetImmutable, Unshared, Free, counters, TypeOK
<1>2. TypeOK'
  BY <1>1 DEF TypeOK
<1>3. Nesting'
  BY <1>1 DEF Nesting
<1>4. Settled'
  <2>1. ASSUME NEW u \in Threads, pc[u] \in {"write_mutex", "read_wait"} \union Waiting
        PROVE  target[u] \in Objects /\ target[u] # o
    BY <1>1, <2>1 DEF TypeOK, Returned, Waiting
  <2> QED
    BY <1>1, <2>1 DEF Settled
<1>5. Exclusion'
  <2>1. \A u \in Threads, q \in Objects : Holds(u, q)' => Holds(u, q) /\ q # o
    BY <1>1, LockAssumption DEF Holds
  <2> QED
    BY <1>1, <2>1 DEF Exclusion
<1>6. CountsAreLocks'
  BY <1>1, CountsKept
<1> QED
  BY <1>2, <1>3, <1>4, <1>5, <1>6

\* The invariant survives every step: one step of the proof for each action.
LEMMA NextInv == IndInv /\ [Next]_vars => IndInv'
<1> SUFFICES ASSUME IndInv, [Next]_vars PROVE IndInv'
  OBVIOUS
<1>1. CASE UNCHANGED vars
  <2>1. /\ wrlock' = wrlock /\ rdlock_cnt' = rdlock_cnt /\ wrlock_req_cnt' = wrlock_req_cnt
        /\ immutable' = immutable /\ lockstack' = lockstack
        /\ write_mutex' = write_mutex /\ pc' = pc /\ target' = target
    BY <1>1 DEF vars
  <2>2. TypeOK' /\ Nesting' /\ Settled' /\ Exclusion'
    BY <2>1 DEF IndInv, TypeOK, Nesting, Settled, Exclusion, Holds
  <2> QED
    BY <2>1, <2>2, CountsKept DEF IndInv
<1>2. ASSUME NEW t \in Threads, LockStep(t) PROVE IndInv'
  <2>0. pc[t] \notin Returned => target[t] \in Objects
    BY DEF IndInv, TypeOK
  <2>1. CASE ReadDenied(t)
    BY <2>1, MoveInv DEF ReadDenied, Return, Returned, Waiting, counters, Reading
  <2>2. CASE ReadNotify(t)
    <3>1. target' = [target EXCEPT ![t] = target[t]]
      BY <2>2 DEF ReadNotify, Goto, IndInv, TypeOK
    <3>2. lockstack[t][target[t]] < MaxNest
      BY <2>2 DEF ReadNotify, IndInv, Nesting, Reading
    <3> QED
      BY <2>0, <2>2, <3>1, <3>2, MoveInv DEF ReadNotify, Goto, Returned, Waiting, counters, Reading
  <2>3. CASE ReadImmutable(t)
    BY <2>3, MoveInv DEF ReadImmutable, ReadChecked, Return, Returned, Waiting, counters, Reading
  <2>4. CASE ReadGrant(t)
    <3>1. pc[t] \in Reading
      BY <2>4 DEF ReadGrant, ReadChecked, Reading
    <3>2. target[t] \in Objects /\ lockstack[t][target[t]] < MaxNest
      BY <2>0, <3>1 DEF Reading, Returned, IndInv, Nesting
    <3> QED
      BY <2>4, <3>1, <3>2, TakeReadInv DEF ReadGrant, ReadChecked, Reading, Waiting
  <2>5. CASE ReadDefer(t)
    <3>1. pc[t] \in Reading /\ ~immutable[target[t]]
      BY <2>5 DEF ReadDefer, ReadChecked, Reading
    <3>2. target[t] \in Objects /\ lockstack[t][target[t]] < MaxNest
      BY <2>0, <3>1 DEF Reading, Returned, IndInv, Nesting
    <3>3. target' = [target EXCEPT ![t] = target[t]]
      BY <2>5 DEF ReadDefer, Goto, IndInv, TypeOK
    <3> QED
      BY <2>5, <3>1, <3>2, <3>3, MoveInv DEF ReadDefer, Goto, Returned, Waiting, counters, Reading
  <2>6. CASE ReadResume(t)
    <3>1. pc[t] \in Reading
      BY <2>6 DEF ReadResume, Reading
    <3>2. target[t] \in Objects /\ lockstack[t][target[t]] < MaxNest /\ ~immutable[target[t]]
      BY <2>0, <2>6, <3>1 DEF ReadResume, Reading, Returned, IndInv, Nesting, Settled
    <3> QED
      BY <2>6, <3>1, <3>2, TakeReadInv DEF ReadResume, Reading, Waiting
  <2>7. CASE ReadUnlock(t)
    BY <2>7, ReadUnlockInv
  <2>8. CASE WriteRefused(t)
    BY <2>8, MoveInv DEF WriteRefused, Return, Returned, Waiting, counters, Reading
  <2>9. CASE WriteGrant(t)
    <3>1. target[t] \in Objects
      BY <2>0, <2>9 DEF WriteGrant, WriteChecked, Returned
    <3> QED
      BY <2>9, <3>1, KeepSpinlockInv DEF WriteGrant, WriteChecked, Waiting
  <2>10. CASE WriteBlock(t)
    <3>1. target[t] \in Objects
      BY <2>0, <2>10 DEF WriteBlock, WriteChecked, Returned
    <3> QED
      BY <2>10, <3>1, KeepSpinlockInv DEF WriteBlock, WriteChecked, Waiting
  <2>11. CASE WriteSleep(t)
    BY <2>11, WriteSleepInv
  <2>12. CASE WriteWake(t)
    BY <2>12, PollInv DEF WriteWake, Waiting
  <2>13. CASE WriteRetry(t)
    BY <2>13, WriteRetryInv
  <2> QED
    BY <1>2, <2>1, <2>2, <2>3, <2>4, <2>5, <2>6, <2>7, <2>8, <2>9, <2>10, <2>11,
       <2>12, <2>13 DEF LockStep
<1>3. ASSUME NEW t \in Threads, NEW o \in Objects,
             CallReadLock(t, o) \/ CallReadUnlock(t, o) \/ CallWriteLock(t, o)
      PROVE  IndInv'
  <2>1. PICK label \in Reading \union {"write_lock", "read_unlock"} :
          /\ Call(t, label, o)
          /\ label \in Reading => label = "read_lock" /\ lockstack[t][o] < MaxNest
    BY <1>3 DEF CallReadLock, CallReadUnlock, CallWriteLock, MayRead, Reading
  <2> QED
    BY <2>1, MoveInv DEF Call, counters, Returned, Waiting
<1>4. ASSUME NEW t \in Threads, NEW o \in Objects, TryRead(t, o)
      PROVE  IndInv'
  BY <1>4, TakeReadInv DEF TryRead, MayRead, ReadLockTry, Returned, Waiting
<1>5. ASSUME NEW t \in Threads, NEW o \in Objects, TryWrite(t, o)
      PROVE  IndInv'
  BY <1>5, KeepSpinlockInv DEF TryWrite, WriteLockTry, Returned, Waiting
<1>6. ASSUME NEW t \in Threads, CallStep(t)
      PROVE  IndInv'
  BY <1>3, <1>4, <1>5, <1>6, WriteUnlockInv, FreezeInv DEF CallStep
<1> QED
  BY <1>1, <1>2, <1>6 DEF Next

-----------------------------------------------------------------------------
(* The theorems *)

\* The inductive invariant holds in every reachable state.
THEOREM Invariance == Spec => []IndInv
  BY InitInv, NextInv, PTL DEF Spec

\* Every variable of the lock keeps its type, and the 7-bit counters never wrap.
THEOREM TypeCorrect == Spec => []TypeOK
<1>1. IndInv => TypeOK
  BY DEF IndInv
<1> QED
  BY Invariance, <1>1, PTL

\* read_lock, read_unlock and write_lock keep the object's two counters equal
\* to the number of read locks and of waiting writers.
THEOREM CountsCorrect == Spec => []CountsAreLocks
<1>1. IndInv => CountsAreLocks
  BY DEF IndInv
<1> QED
  BY Invariance, <1>1, PTL

\* While a thread holds the write lock of an object, no thread has a read lock
\* on it, and the object is not immutable.
THEOREM MutualExclusion == Spec => []Exclusion
<1>1. IndInv => Exclusion
  BY DEF IndInv
<1> QED
  BY Invariance, <1>1, PTL

-----------------------------------------------------------------------------
(* Refinement *)

\* A step that changes neither the lockstacks nor who holds what is a stutter.
LEMMA Stutter ==
  ASSUME lockstack' = lockstack,
         \A o \in Objects : Writer'[o] = Writer[o]
  PROVE  UNCHANGED Abstract!vars
  BY DEF Abstract!vars, Writer

\* A read lock is taken where no thread writes.
LEMMA TakeReadRefines ==
  ASSUME TypeOK, NEW t \in Threads, NEW o \in Objects, Free(o), TakeRead(t, o),
         pc[t] # "write_mutex",
         Return(t, "idle") \/ UNCHANGED <<pc, target>>
  PROVE  Abstract!Next
<1>1. Writer[o] = NoThread
  BY DEF Writer, Free
<1>2. Writer' = Writer
  <2>1. \A u \in Threads, q \in Objects : Holds(u, q)' <=> Holds(u, q)
    BY DEF TypeOK, TakeRead, Holds, Return
  <2>2. wrlock' = wrlock
    BY DEF TakeRead
  <2>3. \A q \in Objects : wrlock[q] # NoThread => wrlock[q] \in Threads
    BY DEF TypeOK
  <2> QED
    BY <2>1, <2>2, <2>3 DEF Writer, Holds
<1>3. Abstract!Read(t, o)
  BY <1>1, <1>2 DEF Abstract!Read, TakeRead
<1> QED
  BY <1>3 DEF Abstract!Next

\* A step that leaves wrlock and lockstack alone, and keeps no thread in or out
\* of write_mutex, is a stutter.
LEMMA MoveRefines ==
  ASSUME TypeOK, NEW t \in Threads, NEW label, NEW o,
         pc[t] # "write_mutex", label # "write_mutex",
         pc' = [pc EXCEPT ![t] = label], target' = [target EXCEPT ![t] = o],
         UNCHANGED <<wrlock, lockstack>>
  PROVE  UNCHANGED Abstract!vars
<1>1. \A u \in Threads, q \in Objects : Holds(u, q)' <=> Holds(u, q)
  BY DEF TypeOK, Holds
<1>2. \A q \in Objects : wrlock[q] # NoThread => wrlock[q] \in Threads
  BY DEF TypeOK
<1> QED
  BY <1>1, <1>2, Stutter DEF Writer, Holds

\* A write lock is granted where no thread reads or writes.
LEMMA GrantRefines ==
  ASSUME IndInv, NEW t \in Threads, NEW o \in Objects, Free(o), rdlock_cnt[o] = 0,
         pc[t] # "write_mutex",
         wrlock' = [wrlock EXCEPT ![o] = t], lockstack' = lockstack,
         Return(t, "idle") \/ UNCHANGED <<pc, target>>
  PROVE  Abstract!Next
<1>1. Writer[o] = NoThread
  BY DEF Writer, Free
<1>2. \A u \in Threads : lockstack[u][o] = 0
  BY NoReaders
<1>3. Writer' = [Writer EXCEPT ![o] = t]
  <2>1. \A u \in Threads, q \in Objects \ {o} : Holds(u, q)' <=> Holds(u, q)
    BY DEF IndInv, TypeOK, Holds, Return
  <2>2. \A q \in Objects : wrlock[q] # NoThread => wrlock[q] \in Threads
    BY DEF IndInv, TypeOK
  <2>3. wrlock'[o] = t /\ Holds(t, o)' /\ \A q \in Objects \ {o} : wrlock'[q] = wrlock[q]
    BY DEF IndInv, TypeOK, Holds, Return
  <2>4. Writer'[o] = t
    BY <2>3 DEF Writer, Holds
  <2>5. \A q \in Objects \ {o} : Writer'[q] = Writer[q]
    BY <2>1, <2>2, <2>3 DEF Writer, Holds
  <2>6. Writer' = [q \in Objects |-> Writer'[q]] /\ Writer = [q \in Objects |-> Writer[q]]
    BY DEF Writer
  <2> QED
    BY <2>4, <2>5, <2>6
<1>4. Abstract!Write(t, o)
  BY <1>1, <1>2, <1>3 DEF Abstract!Write
<1> QED
  BY <1>4 DEF Abstract!Next

\* Every step of the lock is a step, or a stutter, of the abstract lock.
LEMMA StepRefines == IndInv /\ [Next]_vars => [Abstract!Next]_(Abstract!vars)
<1> SUFFICES ASSUME IndInv, [Next]_vars
             PROVE  Abstract!Next \/ UNCHANGED Abstract!vars
  OBVIOUS
<1> USE DEF IndInv
<1>1. CASE UNCHANGED vars
  <2>1. wrlock' = wrlock /\ lockstack' = lockstack /\ pc' = pc /\ target' = target
    BY <1>1 DEF vars
  <2> QED
    BY <2>1, Stutter DEF Writer, Holds
<1>2. ASSUME NEW t \in Threads, LockStep(t)
      PROVE  Abstract!Next \/ UNCHANGED Abstract!vars
  <2>0. /\ pc[t] \notin Returned => target[t] \in Objects
        /\ target = [target EXCEPT ![t] = target[t]]
    BY DEF TypeOK
  <2>1. CASE ReadDenied(t) \/ ReadImmutable(t) \/ WriteRefused(t)
    BY <2>1, MoveRefines DEF ReadDenied, ReadImmutable, ReadChecked, WriteRefused, Return
  <2>2. CASE ReadNotify(t) \/ ReadDefer(t) \/ WriteWake(t)
    BY <2>0, <2>2, MoveRefines DEF ReadNotify, ReadDefer, ReadChecked, WriteWake, Goto
  <2>3. CASE ReadGrant(t) \/ ReadResume(t)
    <3>1. target[t] \in Objects /\ pc[t] # "write_mutex"
      BY <2>0, <2>3 DEF ReadGrant, ReadChecked, ReadResume, Returned
    <3> QED
      BY <2>3, <3>1, TakeReadRefines DEF ReadGrant, ReadChecked, ReadResume
  <2>4. CASE ReadUnlock(t)
    <3>0. PICK o \in Objects : o = target[t]
      BY <2>0, <2>4 DEF ReadUnlock, Returned
    <3>1. /\ pc[t] = "read_unlock" /\ wrlock' = wrlock /\ Return(t, "idle")
          /\ \/ lockstack' = lockstack
             \/ lockstack[t][o] > 0 /\ lockstack' = [lockstack EXCEPT ![t][o] = @ - 1]
      BY <2>4, <3>0 DEF ReadUnlock
    <3>2. Writer' = Writer
      <4>1. \A u \in Threads, q \in Objects : Holds(u, q)' <=> Holds(u, q)
        BY <3>1 DEF TypeOK, Holds, Return
      <4>2. \A q \in Objects : wrlock[q] # NoThread => wrlock[q] \in Threads
        BY DEF TypeOK
      <4> QED
        BY <3>1, <4>1, <4>2 DEF Writer, Holds
    <3>3. CASE lockstack' = lockstack
      BY <3>2, <3>3 DEF Abstract!vars
    <3>4. CASE lockstack' # lockstack
      BY <3>1, <3>2, <3>4 DEF Abstract!EndRead, Abstract!Next
    <3> QED
      BY <3>3, <3>4
  <2>5. CASE WriteGrant(t)
    <3>1. target[t] \in Objects
      BY <2>0, <2>5 DEF WriteGrant, WriteChecked, Returned
    <3> QED
      BY <2>5, <3>1, GrantRefines DEF WriteGrant, WriteChecked
  <2>6. CASE WriteBlock(t)
    <3>0. PICK o \in Objects : o = target[t]
      BY <2>0, <2>6 DEF WriteBlock, WriteChecked, Returned
    <3>1. /\ wrlock[o] = NoThread /\ wrlock' = [wrlock EXCEPT ![o] = t] /\ lockstack' = lockstack
          /\ pc'[t] = "write_mutex" /\ target' = target
          /\ pc[t] # "write_mutex" /\ \A u \in Threads \ {t} : pc'[u] = pc[u]
      BY <2>6, <3>0 DEF WriteBlock, WriteChecked, Free, Goto, TypeOK
    <3>2. Writer'[o] = NoThread /\ Writer[o] = NoThread
      BY <3>0, <3>1 DEF Writer, Holds, TypeOK
    <3>3. \A q \in Objects \ {o} : Writer'[q] = Writer[q]
      BY <3>0, <3>1 DEF Writer, Holds, TypeOK
    <3> QED
      BY <3>1, <3>2, <3>3, Stutter
  <2>7. CASE WriteSleep(t)
    <3>0. PICK o \in Objects : o = target[t]
      BY <2>0, <2>7 DEF WriteSleep, Returned
    <3>1. /\ wrlock[o] = t /\ wrlock' = [wrlock EXCEPT ![o] = NoThread] /\ lockstack' = lockstack
          /\ pc'[t] = "write_wait" /\ target' = target
          /\ pc[t] = "write_mutex" /\ \A u \in Threads \ {t} : pc'[u] = pc[u]
      BY <2>7, <3>0 DEF WriteSleep, Goto, TypeOK, Settled
    <3>2. Writer'[o] = NoThread /\ Writer[o] = NoThread
      BY <3>0, <3>1 DEF Writer, Holds, TypeOK
    <3>3. \A q \in Objects \ {o} : Writer'[q] = Writer[q]
      BY <3>0, <3>1 DEF Writer, Holds, TypeOK
    <3> QED
      BY <3>1, <3>2, <3>3, Stutter
  <2>8. CASE WriteRetry(t)
    <3>1. target[t] \in Objects /\ pc[t] = "write_get" /\ Free(target[t])
      BY <2>0, <2>8 DEF WriteRetry, Returned
    <3>2. CASE rdlock_cnt[target[t]] = 0
      BY <2>8, <3>1, <3>2, GrantRefines DEF WriteRetry
    <3>3. CASE rdlock_cnt[target[t]] # 0
      BY <2>0, <2>8, <3>1, <3>3, MoveRefines DEF WriteRetry, Goto
    <3> QED
      BY <3>2, <3>3
  <2> QED
    BY <1>2, <2>1, <2>2, <2>3, <2>4, <2>5, <2>6, <2>7, <2>8 DEF LockStep
<1>3. ASSUME NEW t \in Threads, NEW o \in Objects,
             CallReadLock(t, o) \/ CallReadUnlock(t, o) \/ CallWriteLock(t, o)
      PROVE  UNCHANGED Abstract!vars
  BY <1>3, MoveRefines DEF CallReadLock, CallReadUnlock, CallWriteLock, Call, Returned
<1>4. ASSUME NEW t \in Threads, NEW o \in Objects, TryRead(t, o)
      PROVE  Abstract!Next
  BY <1>4, TakeReadRefines DEF TryRead, ReadLockTry, Returned
<1>5. ASSUME NEW t \in Threads, NEW o \in Objects, TryWrite(t, o)
      PROVE  Abstract!Next
  BY <1>5, GrantRefines DEF TryWrite, WriteLockTry, Returned
<1>6. ASSUME NEW t \in Threads, NEW o \in Objects, WriteUnlock(t, o)
      PROVE  Abstract!Next \/ UNCHANGED Abstract!vars
  <2>1. /\ wrlock[o] = t /\ pc[t] \in Returned /\ pc' = pc /\ target' = target
        /\ lockstack' = lockstack
        /\ wrlock' = wrlock \/ wrlock' = [wrlock EXCEPT ![o] = NoThread]
    BY <1>6 DEF WriteUnlock
  <2>2. CASE wrlock' = wrlock
    BY <2>1, <2>2, Stutter DEF Writer, Holds
  <2>3. CASE wrlock' = [wrlock EXCEPT ![o] = NoThread]
    <3>1. Writer[o] = t
      BY <2>1, LockAssumption DEF Writer, Holds, Returned
    <3>2. Writer'[o] = NoThread /\ \A q \in Objects \ {o} : Writer'[q] = Writer[q]
      BY <2>1, <2>3 DEF Writer, Holds, TypeOK
    <3>3. Writer' = [q \in Objects |-> Writer'[q]] /\ Writer = [q \in Objects |-> Writer[q]]
      BY DEF Writer
    <3>4. Writer' = [Writer EXCEPT ![o] = NoThread]
      BY <3>2, <3>3
    <3> QED
      BY <2>1, <3>1, <3>4 DEF Abstract!EndWrite, Abstract!Next
  <2> QED
    BY <2>1, <2>2, <2>3
<1>7. ASSUME NEW t \in Threads, NEW o \in Objects, NEW b \in BOOLEAN, Freeze(t, o, b)
      PROVE  UNCHANGED Abstract!vars
  <2>1. wrlock' = wrlock /\ lockstack' = lockstack /\ pc' = pc /\ target' = target
    BY <1>7 DEF Freeze, SetImmutable
  <2> QED
    BY <2>1, Stutter DEF Writer, Holds
<1>8. ASSUME NEW t \in Threads, CallStep(t)
      PROVE  Abstract!Next \/ UNCHANGED Abstract!vars
  BY <1>3, <1>4, <1>5, <1>6, <1>7, <1>8 DEF CallStep
<1> QED
  BY <1>1, <1>2, <1>8 DEF Next

\* lock.c implements the lock that the OBJECT LOCKING section describes: many
\* readers or one writer for each object, whatever waits, polls and overtakes.
THEOREM Refinement == Spec => ImplementsRWLock
<1>1. Init => Abstract!Init
  BY LockAssumption DEF Init, Abstract!Init, Writer
<1> QED
  BY Invariance, <1>1, StepRefines, PTL DEF Spec, ImplementsRWLock, Abstract!Spec

=============================================================================
