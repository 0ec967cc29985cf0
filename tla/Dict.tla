-------------------------------- MODULE Dict --------------------------------
(***************************************************************************)
(* The dictionary of builtins-dict.c: a hash table with open addressing    *)
(* behind the lock of its object, and the methods that threads call on one *)
(* shared dictionary.  A call holds the lock for reading, and trades that  *)
(* for the write lock and back around a change.  ObjectLock has every step *)
(* of lock.c; here a lock operation is one step, but a write_lock that is  *)
(* refused leaves the count of read locks as the code does.                *)
(***************************************************************************)
EXTENDS Integers, Sequences, FiniteSets, FiniteSetsExt, SequencesExt

CONSTANTS Threads, NoThread, Keys, Values, NoKey, NoValue,
          Hash,         \* Hash[k]: what hash_value returns, of any sign
          Unhashable,   \* keys on which hash_value raises
          AsSymbol,     \* AsSymbol[k]: the symbol of string k, or NoKey
          Garbage,      \* memory whose contents do not count
          Others,       \* contents of dictionaries to update! from
          HashWords,    \* HASH_MASK + 1
          SizeWords,    \* one more than the largest size_t
          InitialSize, MaxPercentFull, PadPercent,   \* the constants of dict.h
          Ops,          \* Ops[t]: the methods thread t calls
          MaxSize,      \* bound on the table
          MaxReads,     \* bound on the read locks of a thread, at a call
          CntMod        \* rdlock_cnt is a bit field: arithmetic is modulo CntMod

\* What calls store, one by one or from another dictionary.
AllValues == Values \cup UNION {{items[i][2] : i \in DOMAIN items} : items \in Others}

ASSUME DictAssumption == /\ HashWords \in Nat \ {0}
                         /\ SizeWords \in Nat /\ SizeWords >= HashWords
                         /\ Hash \in [Keys -> (-HashWords)..(HashWords - 1)]
                         /\ AsSymbol \in [Keys -> Keys \cup {NoKey}]
                         /\ Others \subseteq Seq(Keys \X AllValues)
                         /\ NoThread \notin Threads /\ NoValue \notin AllValues
                         /\ NoKey \notin Keys
                         /\ {InitialSize, MaxPercentFull, PadPercent} \subseteq Nat
\* A table that is not full has two free slots, and a larger one is due otherwise.
ASSUME SizeAssumption == /\ InitialSize * (99 - MaxPercentFull) >= 100
                         /\ InitialSize * (PadPercent - 100) >= 100
\* As many read locks as there can be fit into rdlock_cnt.
ASSUME CountAssumption == /\ IsFiniteSet(Threads) /\ MaxReads \in Nat /\ CntMod \in Nat
                          /\ Cardinality(Threads) * (MaxReads + 1) < CntMod

VARIABLES tbl, len,          \* the table, from 0, and its dictlen
          rdlock_cnt,        \* the read locks that the dictionary counts
          lockstack,         \* lockstack[t]: those that thread t has
          writer,            \* the thread that has the write lock
          call,              \* call[t]: the method thread t is in
          ret,               \* ret[t]: its result so far
          refused,           \* a write_lock was refused, and uncounted read locks
          recounts,          \* deletions that met an entry deleted already
          overlap            \* a popItem! or a write has begun beside another's call

lockVars == <<rdlock_cnt, lockstack, writer, refused>>
vars == <<tbl, len, lockVars, call, ret, recounts, overlap>>

ENTRY_DELETED == -1
Free == [hash |-> 0, key |-> NoKey, value |-> NoValue]
\* A deleted entry keeps its key and value.
Deleted(e) == [e EXCEPT !.hash = ENTRY_DELETED]
Table(size) == [i \in 0..(size - 1) |-> Free]
dictsize(t) == Cardinality(DOMAIN t)
new_dict_obj(size) == Table(Max({size, InitialSize}))
Live(t) == {i \in DOMAIN t : t[i].hash > 0}

(***************************************************************************)
(* The probe goes on from slot hash % size, and ends at the key or at a    *)
(* slot that never had one: with neither in the table it never ends.  An   *)
(* index below 0 is a large size_t, so the slots jump where it reaches 0.  *)
(***************************************************************************)
Slot(t, i) == (IF i < 0 THEN i + SizeWords ELSE i) % dictsize(t)
Turns(t, h) == 0..(dictsize(t) - 1 + IF h < 0 THEN -h ELSE 0)
Ends(t, h, k) == {j \in Turns(t, h) : LET e == t[Slot(t, h + j)]
                                      IN e.key = NoKey \/ (e.hash = h /\ e.key = k)}
Spins(t, h, k) == Ends(t, h, k) = {}
Stop(t, h, k) == Slot(t, h + Min(Ends(t, h, k)))
Holes(t, h, k) == {j \in 0..(Min(Ends(t, h, k)) - 1) : t[Slot(t, h + j)].hash < 0}

StoredHash(k) == LET h == Hash[k] % HashWords IN IF h = 0 THEN 1 ELSE h
FetchHash(k) == IF Hash[k] = 0 THEN 1 ELSE Hash[k]

\* A live entry moves to the first slot of its chain that has none.
Gaps(t, h) == {j \in 0..(dictsize(t) - 1) : t[(h + j) % dictsize(t)].hash = 0}
Placed(t, e) == [t EXCEPT ![(e.hash + Min(Gaps(t, e.hash))) % dictsize(t)] = e]
dict_realloc(t) ==
  LET moved[i \in 0..dictsize(t)] ==
        IF i = 0 THEN Table(Max({(dictsize(t) * PadPercent) \div 100, InitialSize}))
        ELSE IF t[i - 1].hash > 0 THEN Placed(moved[i - 1], t[i - 1])
        ELSE moved[i - 1]
  IN moved[dictsize(t)]

\* A length counted down below 0 is a large size_t.
Full(t, n) == n < 0 \/ (n * 100) \div dictsize(t) > MaxPercentFull
Room(t, n) == IF Full(t, n) THEN dict_realloc(t) ELSE t


\* Mutant: does not count an entry that takes a deleted one's slot.
dict_addUncounted(t, n, k, v) ==
  LET h == StoredHash(k)
      at == Stop(t, h, k)
      hole == Holes(t, h, k)
  IN IF t[at].key # NoKey
     THEN [tbl |-> [t EXCEPT ![at].value = v], len |-> n]
     ELSE IF hole # {}
     THEN [tbl |-> [t EXCEPT ![(h + Max(hole)) % dictsize(t)] =
                               [hash |-> h, key |-> k, value |-> v]], len |-> n]
     ELSE [tbl |-> [t EXCEPT ![at] = [hash |-> h, key |-> k, value |-> v]], len |-> n + 1]

\* The table and the length after dict_add; the table is in room already.
dict_add(t, n, k, v) ==
  LET h == StoredHash(k)
      at == Stop(t, h, k)
      hole == Holes(t, h, k)
      i == IF hole = {} THEN at ELSE (h + Max(hole)) % dictsize(t)
  IN IF t[at].key # NoKey
     THEN [tbl |-> [t EXCEPT ![at].value = v], len |-> n]
     ELSE [tbl |-> [t EXCEPT ![i] = [hash |-> h, key |-> k, value |-> v]], len |-> n + 1]
\* dict_item: string keys are tried again as symbols.
Misses(t, k) == k = NoKey \/ t[Stop(t, FetchHash(k), k)].key = NoKey
dict_item(t, k) == LET Value(x) == IF Misses(t, x) THEN NoValue
                                   ELSE t[Stop(t, FetchHash(x), x)].value
                   IN IF Misses(t, k) THEN Value(AsSymbol[k]) ELSE Value(k)
ItemSpins(t, k) == \/ Spins(t, FetchHash(k), k)
                   \/ /\ Misses(t, k) /\ AsSymbol[k] # NoKey
                      /\ Spins(t, FetchHash(AsSymbol[k]), AsSymbol[k])

dict_keys_values(t) ==
  LET list[i \in 0..dictsize(t)] ==
        IF i = 0 THEN <<>>
        ELSE IF t[i - 1].hash > 0 THEN Append(list[i - 1], <<t[i - 1].key, t[i - 1].value>>)
        ELSE list[i - 1]
  IN list[dictsize(t)]

\* A new dictionary with the items of a list, each way at its own size.
Filled(items, size) ==
  LET filled[i \in 0..Len(items)] ==
        IF i = 0 THEN [tbl |-> new_dict_obj(size), len |-> 0]
        ELSE LET d == filled[i - 1]
             IN dict_add(Room(d.tbl, d.len), d.len, items[i][1], items[i][2])
  IN filled[Len(items)].tbl
init_(n, items) == Filled(items, 3 * n)
fromStorProxy_(items) == Filled(items, 4 * Len(items))

\* The generator of iter_ runs over a list of two slots at least, to its size.
iter_(items) == items \o [i \in 1..(2 - Len(items)) |-> Garbage]

-----------------------------------------------------------------------------
Idle == [op |-> "none", at |-> "idle"]
At(t, op, at) == call[t].op = op /\ call[t].at = at

Goto(t, at) == call' = [call EXCEPT ![t].at = at]
\* What is left of a call is the same for all methods.
Leave(t, at) == call' = [call EXCEPT ![t] = [op |-> "none", at |-> at]]
Found(t, v) == ret' = [ret EXCEPT ![t] = v]

Init == /\ tbl = Table(InitialSize) /\ len = 0
        /\ rdlock_cnt = 0 /\ lockstack = [t \in Threads |-> 0] /\ writer = NoThread
        /\ call = [t \in Threads |-> Idle] /\ ret = [t \in Threads |-> NoValue]
        /\ refused = FALSE /\ recounts = 0 /\ overlap = FALSE

\* Each needs the spinlock, which a writer keeps.
read_lock(t) == /\ writer = NoThread /\ rdlock_cnt' = (rdlock_cnt + 1) % CntMod
                /\ lockstack' = [lockstack EXCEPT ![t] = @ + 1] /\ UNCHANGED <<writer, refused>>
read_unlock(t) == /\ writer = NoThread /\ rdlock_cnt' = (rdlock_cnt + CntMod - 1) % CntMod
                  /\ lockstack' = [lockstack EXCEPT ![t] = @ - 1]
                  /\ UNCHANGED <<writer, refused>>

\* pre_call_lock read-locks the dictionary; the keys and values are immutable.
Call(t, args) == /\ call[t] = Idle /\ args.op \in Ops[t]
                 /\ read_lock(t) /\ lockstack[t] < MaxReads
                 /\ call' = [call EXCEPT ![t] = args]
                 /\ UNCHANGED <<tbl, len, ret, recounts, overlap>>
CallOfKey(t) == \E k \in Keys \cup Unhashable :
                  \/ \E op \in {"get", "del"} : Call(t, [op |-> op, at |-> "called", key |-> k])
                  \/ \E op \in {"set", "default"}, v \in Values :
                       Call(t, [op |-> op, at |-> "called", key |-> k, value |-> v])
CallOfAll(t) == \/ \E op \in {"list", "iter", "init", "store", "clear", "pop", "updateSelf"} :
                     Call(t, [op |-> op, at |-> "called"])
                \/ \E d \in Others : Call(t, [op |-> "update", at |-> "called", rest |-> d])
Return(t) == /\ call[t].at = "done" /\ read_unlock(t)
             /\ call' = [call EXCEPT ![t] = Idle]
             /\ Found(t, NoValue) /\ UNCHANGED <<tbl, len, recounts, overlap>>

(***************************************************************************)
(* get, hasKey?, rIn?, rNotIn?, getItem_, and the first half of            *)
(* setDefault!, which goes on as setItem_ when it has found nothing.  The  *)
(* read lock inside of them, as in dict_keys_values, waits for a writer.   *)
(***************************************************************************)
Reads(t) == writer = NoThread /\ UNCHANGED <<tbl, len, lockVars, recounts, overlap>>
Get(t) == /\ At(t, "get", "called") \/ At(t, "default", "called")
          /\ Reads(t)
          /\ LET k == call[t].key
             IN IF k \in Unhashable
                  THEN /\ UNCHANGED ret
                       /\ IF call[t].op = "default"
                          THEN call' = [call EXCEPT ![t].op = "set"] ELSE Leave(t, "done")
                ELSE IF ItemSpins(tbl, k) THEN Leave(t, "spins") /\ UNCHANGED ret
                ELSE /\ Found(t, dict_item(tbl, k))
                     /\ IF call[t].op = "default" /\ dict_item(tbl, k) = NoValue
                        THEN call' = [call EXCEPT ![t].op = "set"] ELSE Leave(t, "done")

\* assert (cnt++ < len), once for each of n live entries.
Miscounted(n) == n > len /\ len >= 0

\* keys, values, items and toStorProxy_ copy the live entries.
List(t) == /\ \E op \in {"list", "iter", "init", "store"} : At(t, op, "called")
           /\ Reads(t)
           /\ LET items == dict_keys_values(tbl)
                  op == call[t].op
              IN IF Miscounted(Len(items)) THEN Leave(t, "aborts") /\ UNCHANGED ret
                 ELSE /\ Leave(t, "done")
                      /\ Found(t, CASE op = "list" -> items
                                    [] op = "iter" -> iter_(items)
                                    [] op = "init" -> dict_keys_values(init_(len, items))
                                    [] op = "store" -> dict_keys_values(fromStorProxy_(items)))

(***************************************************************************)
(* def_write_lock: the read lock is given up before the write lock is      *)
(* taken, so the dictionary may change in between.  write_lock is refused  *)
(* while the thread has read locks of its own left, and takes all of these *)
(* off the count, although they stay in the lockstack.  A refused caller   *)
(* takes one read lock again and returns.                                  *)
(***************************************************************************)
Writers == {"set", "del", "clear", "update"}
def_write_lock(t) == /\ \E op \in Writers : At(t, op, "called")
                     /\ read_unlock(t) /\ Goto(t, "waits")
                     /\ UNCHANGED <<tbl, len, ret, recounts, overlap>>
Refused(t) == /\ call[t].at = "waits" /\ writer = NoThread
              /\ rdlock_cnt # 0 /\ lockstack[t] > 0
              /\ rdlock_cnt' = (rdlock_cnt - lockstack[t]) % CntMod /\ refused' = TRUE
              /\ Leave(t, "unlocked")
              /\ UNCHANGED <<tbl, len, lockstack, writer, ret, recounts, overlap>>
\* In the middle of a call that reads, or changes the table under its read lock.
Popping(u) == call[u].op = "pop" /\ call[u].at \in {"marks", "stores"}
Reading(u) == \/ call[u].at \in {"marks", "stores", "spins"}
              \/ call[u].at = "called" /\ call[u].op \notin Writers
\* Mutant: write_lock does not wait for other readers.
GrantedBeside(t) == /\ call[t].at = "waits" /\ writer = NoThread
                    /\ writer' = t /\ Goto(t, "writes")
                    /\ overlap' = (overlap \/ \E u \in Threads \ {t} : Reading(u))
                    /\ UNCHANGED <<tbl, len, rdlock_cnt, lockstack, refused, ret, recounts>>
Granted(t) == /\ call[t].at = "waits" /\ writer = NoThread /\ rdlock_cnt = 0
              /\ writer' = t /\ Goto(t, "writes")
              /\ overlap' = (overlap \/ \E u \in Threads \ {t} : Reading(u))
              /\ UNCHANGED <<tbl, len, rdlock_cnt, lockstack, refused, ret, recounts>>
\* def_write_unlock, in two steps.
def_write_unlock(t) == /\ writer' = NoThread /\ Leave(t, "unlocked")
                       /\ UNCHANGED <<rdlock_cnt, lockstack, refused, ret, overlap>>
Reread(t) == /\ call[t].at = "unlocked" /\ read_lock(t) /\ Leave(t, "done")
             /\ UNCHANGED <<tbl, len, ret, recounts, overlap>>

\* dict_add, and the probe of it that never ends.
Add(t, k, v) == LET room == Room(tbl, len)
                    d == dict_add(room, len, k, v)
                IN /\ ~Spins(room, StoredHash(k), k) /\ dictsize(room) <= MaxSize
                   /\ tbl' = d.tbl /\ len' = d.len
AddSpins(t, k) == /\ Spins(Room(tbl, len), StoredHash(k), k)
                  /\ tbl' = Room(tbl, len) /\ Leave(t, "spins")
                  /\ UNCHANGED <<len, lockVars, ret, overlap>>

\* A key without a hash raises behind the reallocation, once the probe has met an
\* entry that is not deleted.
AddFails(t) ==
  LET room == Room(tbl, len)
  IN /\ tbl' = room /\ UNCHANGED len /\ dictsize(room) <= MaxSize
     /\ IF \A i \in DOMAIN room : room[i].hash < 0
        THEN Leave(t, "spins") /\ UNCHANGED <<lockVars, ret, overlap>>
        ELSE def_write_unlock(t)

SetItem(t) == /\ At(t, "set", "writes") /\ UNCHANGED recounts
              /\ LET k == call[t].key
                 IN \/ k \in Unhashable /\ AddFails(t)
                    \/ k \notin Unhashable /\ Add(t, k, call[t].value) /\ def_write_unlock(t)
                    \/ k \notin Unhashable /\ AddSpins(t, k)

\* update! from a list copied before the write lock, one pair at a time.
CopySelf(t) == /\ At(t, "updateSelf", "called") /\ Reads(t) /\ UNCHANGED ret
               /\ IF Miscounted(Len(dict_keys_values(tbl))) THEN Leave(t, "aborts")
                  ELSE call' = [call EXCEPT ![t] = [op |-> "update", at |-> "called",
                                                    rest |-> dict_keys_values(tbl)]]
Update(t) == /\ At(t, "update", "writes") /\ UNCHANGED recounts
             /\ LET rest == call[t].rest
                IN \/ rest = <<>> /\ def_write_unlock(t) /\ UNCHANGED <<tbl, len>>
                   \/ /\ rest # <<>> /\ Add(t, rest[1][1], rest[1][2])
                      /\ call' = [call EXCEPT ![t].rest = Tail(@)]
                      /\ UNCHANGED <<lockVars, ret, overlap>>
                   \/ rest # <<>> /\ AddSpins(t, rest[1][1])

(***************************************************************************)
(* delItem_: without the key it raises and keeps the write lock, which the *)
(* read_unlock behind the call waits for.  A key whose hash is that of the *)
(* mark meets a deleted entry of its own, which is deleted and counted     *)
(* down once more.                                                         *)
(***************************************************************************)
DelItem(t) ==
  /\ At(t, "del", "writes")
  /\ LET k == call[t].key
         i == Stop(tbl, Hash[k], k)
     IN IF k \in Unhashable
          THEN def_write_unlock(t) /\ UNCHANGED <<tbl, len, recounts>>
        ELSE IF Spins(tbl, Hash[k], k) \/ tbl[i].key = NoKey
          THEN /\ Leave(t, IF Spins(tbl, Hash[k], k) THEN "spins" ELSE "stuck")
               /\ UNCHANGED <<tbl, len, lockVars, ret, recounts, overlap>>
        ELSE /\ tbl' = [tbl EXCEPT ![i] = Deleted(@)] /\ len' = len - 1
             /\ recounts' = recounts + (IF tbl[i].hash = ENTRY_DELETED THEN 1 ELSE 0)
             /\ def_write_unlock(t)

Clear(t) == /\ At(t, "clear", "writes") /\ def_write_unlock(t)
            /\ tbl' = Table(dictsize(tbl)) /\ len' = 0 /\ recounts' = 0

(***************************************************************************)
(* popItem! changes the table under the read lock: two threads may take    *)
(* the same entry, or lose one of their two decrements.  Of an empty       *)
(* dictionary it leaves the read lock of dict_keys_values behind.          *)
(***************************************************************************)
PopFind(t) == /\ At(t, "pop", "called") /\ writer = NoThread
              /\ UNCHANGED <<tbl, len, recounts>>
              /\ IF Live(tbl) = {}
                 THEN read_lock(t) /\ Leave(t, "done") /\ UNCHANGED <<ret, overlap>>
                 ELSE IF Miscounted(1)
                 THEN Leave(t, "aborts") /\ UNCHANGED <<lockVars, ret, overlap>>
                 ELSE LET i == Min(Live(tbl))
                      IN /\ Found(t, <<tbl[i].key, tbl[i].value>>)
                         /\ call' = [call EXCEPT ![t] = [op |-> "pop", at |-> "marks", slot |-> i]]
                         /\ overlap' = (overlap \/ \E u \in Threads \ {t} : Popping(u))
                         /\ UNCHANGED lockVars
PopMark(t) == /\ At(t, "pop", "marks")
              /\ tbl' = [tbl EXCEPT ![call[t].slot] = Deleted(@)]
              /\ call' = [call EXCEPT ![t] = [op |-> "pop", at |-> "stores", len |-> len - 1]]
              /\ UNCHANGED <<len, lockVars, ret, recounts, overlap>>
PopStore(t) == /\ At(t, "pop", "stores") /\ len' = call[t].len
               /\ Leave(t, "done") /\ UNCHANGED <<tbl, lockVars, ret, recounts, overlap>>

Step(t) == \/ CallOfKey(t) \/ CallOfAll(t) \/ Return(t)
           \/ Get(t) \/ List(t)
           \/ def_write_lock(t) \/ Refused(t) \/ Granted(t) \/ Reread(t)
           \/ SetItem(t) \/ CopySelf(t) \/ Update(t) \/ DelItem(t) \/ Clear(t)
           \/ PopFind(t) \/ PopMark(t) \/ PopStore(t)
\* An assertion that fails ends the process.
Next == /\ \A t \in Threads : call[t].at # "aborts"
        /\ \E t \in Threads : Step(t)
Spec == Init /\ [][Next]_vars

-----------------------------------------------------------------------------
(***************************************************************************)
(* The steps of a change, as those of update!, have the dictionary to      *)
(* themselves, until a write_lock is refused.                              *)
(***************************************************************************)
Alone(t) == \A u \in Threads \ {t} : ~Reading(u) /\ call[u].at # "writes"
WriterAlone == refused \/ \A t \in Threads : call[t].at \in {"writes", "stuck"} => Alone(t)

(***************************************************************************)
(* "when it is write-locked there can be no read locks" (prothon.h): not   *)
(* even after a write_lock was refused.                                    *)
(***************************************************************************)
NoReadersBeside == \A t \in Threads : call[t].at = "writes" => Alone(t)

(***************************************************************************)
(* dictlen, from which dict_add decides when to grow the table, is the     *)
(* number of live entries after every sequence of calls, less the          *)
(* deletions of entries deleted already, while no popItem! runs beside     *)
(* another and no writer beside a reader.                                  *)
(***************************************************************************)
LenIsLive == overlap \/ len = Cardinality(Live(tbl)) - recounts
                            + Cardinality({t \in Threads : call[t].at = "stores"})

\* The assertion of dict_keys_values: it never meets more live entries than dictlen.
NeverAborts == \A t \in Threads : call[t].at # "aborts"

(***************************************************************************)
(* Every call on the table is one on a map, linearised in the call, while  *)
(* no popItem! runs beside another and no writer beside a reader: probing, *)
(* deleted entries, reallocation and string keys that stand for symbols do *)
(* not show.  What does show: a key with a negative hash is stored and not *)
(* found again, or found when it is gone if its hash is that of the mark   *)
(* of a deleted entry; one with a hash below 1 is not deleted; and a       *)
(* generator over fewer than two entries goes on with memory that was      *)
(* never written.                                                          *)
(***************************************************************************)
Contents == [k \in Keys |->
               LET at == {i \in Live(tbl) : tbl[i].key = k}
               IN IF at = {} THEN NoValue ELSE tbl[CHOOSE i \in at : TRUE].value]
Ghosts == {k \in Keys : Hash[k] = ENTRY_DELETED}
Gone == [k \in Ghosts |->
           {tbl[i].value : i \in {j \in DOMAIN tbl : tbl[j].hash < 0 /\ tbl[j].key = k}}]
Map == INSTANCE DictMap WITH map <- Contents, gone <- Gone, Values <- AllValues,
                             Unfindable <- {k \in Keys : Hash[k] < 0},
                             Undeletable <- {k \in Keys : Hash[k] < 1}
ImplementsMap == Map!Init /\ [][Map!Next \/ overlap']_<<Contents, Gone, ret>>
=============================================================================
