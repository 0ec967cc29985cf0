# Verification of Prothon

Prothon is a prototype-based language whose interpreter runs the scripts of one
process in native threads, on one shared heap of objects.  This directory holds
TLA+ models of the interpreter's core, the TLC configurations that check them on
small instances, and TLAPS proofs of what matters most for every instance.  All
paths below are relative to the repository.

```
tlc -workers 2 -config ObjectLock.cfg MCObjectLock     # model-check one run
tlapm ObjectLockProofs.tla                             # check the proofs
```

`PROJECT.json` lists the runs, the mutant that breaks each property, the code
lines behind each definition, the findings and the hazards.

## 1. The system

| part | source | state it keeps | operations |
|---|---|---|---|
| object locks | `src/lock.c`, `prothon.h` | per object a spinlock, two 7-bit counters, the immutable bit; per thread a lockstack | `read_lock`, `read_lock_try`, `read_unlock`, `write_lock`, `write_lock_try`, `write_unlock` |
| attribute tables | `src/object.c` | per object a hash table with open addressing, and the prototypes | `get_attr`, `set_attr`, `del_attr`, scans, reallocation |
| memory manager | `src/memory_mgr.c`, `src/lock.c` | the list of objects, marks, the scanned bit, the phase, the list of objects to scan | mark, sweep, the barrier in `write_unlock` |
| threads, start and end | `src/main.c`, `src/builtins-thread.c`, `src/interp.c`, `src/sys.c` | the registry, `new_thread_object`, the counts of main threads | create, register, look up, run a script, `sys.exit`, end |
| small-block allocator | `src/prmalloc.c` | pools, their links, the links in free blocks | `pr_malloc`, `pr_realloc`, `pr_free` |
| interpreter | `src/interp.c` | frames, value stack, exception stack | `exec_loop`, calls, exceptions, generators |
| prototype chains | `src/object.c` | prototype lists | `has_proto`, `add_proto`, `set_proto` |
| symbols | `src/symbol.c` | a trie from names to symbols | `sym` |
| dict | `src/builtins-dict.c` | a hash table with open addressing, behind its object's lock | the methods of Dict |
| lists, strings | `src/builtins-{list,tuple,bytes,string,core}.c` | items and the size of their memory | the methods, slices, ranges |
| numbers | `src/builtins-{int,float}.c` | object data | arithmetic |
| object store | `modules/Prosist/Prosist.c` | a database file, four dictionaries | create, open, commit, rollBack, close |
| parser | `src/prothon.y`, `src/parser_routines.c` | code being built | compile |
| the rest | console, files, time, formatting, DBM, OS, Re, SQLite | | input and output, wrappers |

**How they meet.**  Every built-in function runs with read locks on its object and
its parameters (`pre_call_lock`) and write-locks the object when it changes it.
`write_unlock` is also the memory manager's write barrier; the manager takes the
same locks to read objects and to mark them.  `main()` and the threads meet in the
thread registry, in `start_main_lock` and in two counters that are not protected as
a whole.  All of them allocate from one allocator, under one lock.

The parser turns a program into words that `exec_loop` runs; built-in functions call
back into it.  The store walks objects under their read locks and keeps a proxy of each.

**What is hard.**  The locks are home-made, with bit fields beside spinlocks,
sleeping and polling; reference changes race with marking; locks are handed from one
thread to another; counters are changed without locks; failing paths forget locks;
hash tables keep deleted entries; jumps are patched to distances; a return waits for a
`finally`; each method of Int has limits of its own between registers and digits; a
process may end between two records of a commit.  `PROJECT.json` lists each such place
under "hazards".

**What makes the parts correct.**

* Locks: one writer or many readers, counters that equal the locks held, calls that
  return once the others let go.
* Attribute tables: a map; the count is right; a lookup ends.
* Memory manager: what the root contains is kept; marks are exact when nobody
  interferes, and no change behind a scanned object goes unnoticed.
* Threads: each gets its own object; `main()` waits for all scripts and then ends.
* Allocator: blocks do not overlap, keep their data, and none is lost.
* Interpreter: a program prints and raises what the language says; a `finally` runs
  once; frames, stacks and exception registers match; programs end.
* Containers and numbers: equal to maps, sequences and integers.
* Store: opening gives back what was stored last; a call returns its locks.

## 2. Modules

| module | models | composed with |
|---|---|---|
| `RWLock` | what `prothon.h` promises of the locks | abstract specification |
| `ObjectLock` | the locks of `lock.c` | implements `RWLock` |
| `ObjectLockProofs` | proofs about `ObjectLock` | |
| `AttrMap` | attributes as a map | abstract specification |
| `AttrTable` | the table of `object.c` | implements `AttrMap` |
| `AttrTableProofs` | proofs about `AttrTable` | |
| `MemMgr` | the memory manager beside other threads | has what can block in an object lock, and `write_mutex` |
| `MemMgrProofs` | proofs about `MemMgr` | |
| `Threads` | start and end of threads and of the process | |
| `ThreadsProofs` | proofs about `Threads` | |
| `PrMalloc` | the allocator | |
| `PrMallocProofs` | proofs about `PrMalloc` | |
| `Codegen` | what `parser_routines.c` makes of a phrase: words, distances, stack depths | |
| `Interp` | `exec_loop` and the frames | runs the code of `Codegen` |
| `Lang` | what a phrase means | reference for `Interp` |
| `LongDigits` | sums, differences, order, products and division by a digit, on vectors of digits | |
| `LongInt` | Karatsuba, long division, powers, shifts, bits and texts of longs | extends `LongDigits` |
| `LongProofs` | proofs about `LongDigits` | |
| `Ints` | the methods of Int | on `LongInt` |
| `DictMap` | a dictionary as a map shared by threads | abstract specification |
| `Dict` | the table and methods of Dict | with its own read and write locks; implements `DictMap` |
| `DictProofs` | proofs about the locks of `Dict` | |
| `Lists` | lists, tuples, slices, ranges | |
| `Strings` | strings and bytes | extends `Lists`, whose call record it shares |
| `Prosist` | the object store, with crashes | |
| `NatLemmas` | lemmas about minima, remainders and recursive functions | for the proofs |
| `MC...` | instances for TLC, and the properties that compare a module with its reference | |

Definitions have the names of the code's functions and variables where possible.
A definition that a comment calls a *mutant* is not part of a specification: it is a
plausible bug, and the properties are checked to notice it.

### ObjectLock

`wrlock[o]` is the spinlock of an object, kept by a writer after `write_lock` has
returned; `rdlock_cnt` and `wrlock_req_cnt` are the 7-bit fields, with arithmetic
modulo `CntMod`; `lockstack[t][o]` counts the entries of a thread's lockstack;
`pc[t]` is the point in a call where the thread has no spinlock (`read_notified`
after the callback of a read notification, `write_mutex` before `write_mutex` is
taken with the spinlock held, `write_wait` in `timedwait`, `write_get` after it with
the mutex held).  A step runs from taking a spinlock to freeing it or blocking.

`WriteSleep`/`WriteWake` are `lock.c:309-314`; `ReadDefer`/`ReadResume` are a reader
that stands back for writers and polls; `Overtakes` is the exception for a thread
that already reads the object.  `Init` allows any immutable bits, as objects are made
immutable before they are shared (`Unshared`).

### AttrTable

One object's table; a key is the number of a symbol, a multiple of 3 as `sym()`
gives them out.  `slots` has keys, deleted marks (`-1`) and free entries (`0`).
Probing is "the nearest distance at which the key or a never used slot is met";
when there is none the code loops with the lock held, which is the variable
`looping`.  `SetAttr` reuses the deleted entry it met, counts and reallocates as
`object.c:624-660`; `ScanFirst` and `ScanNext` are `attr_first_key` and
`attr_next_key`, with the wrap-around behind the last slot.

### MemMgr

The manager's walk is `mm` (where it is, its object, what is left to visit); other
threads make calls of three shapes: `set` and `del` (write lock only) and `append`
(a C function, which read-locks its object and its parameter, and gives the first up for the
write lock as `def_write_lock` does).  `readers`, `wrlock` and `waiting` are the locks: who
reads, who has the spinlock, and where a process is in `write_lock` once it found readers
(`AwaitReaders`: it has the spinlock and asks for `write_mutex`; `Sleep`, `Wake`,
`SleepAgain`: `timedwait`, without and with `write_mutex`).  `CanRead` is a reader that stands
back for requests.  `Store` and `Barrier` are the
two halves of `write_unlock`: the test of phase and scanned bit without the list's
lock, and the second test under it.  `Sweep` is the code as it is: every object is
delete-locked from its creation and `del_unlock` is empty, so nothing is ever freed.

### Threads

`console` is where `main()` is, `pc[t]` where a thread is.  `NewThread` takes
`thread_registry_lock` and `RegisterThread`, in the new thread, releases it.
The counter `main_threads_running` is loaded and stored in two steps, since `--` is
not under the lock of `++`; `miscounted` remembers that an update was lost,
`foreign` that `sys.exit` was called by a thread that was never counted, `missing`
the scripts that were not found: the three ways in which the count goes wrong.
`os_id` is the system's identifier of a thread, which the system may give again.

### PrMalloc

Memory is a row of units of `ALIGNMENT` bytes; pools, list headers and their
forward and backward links are as in `prmalloc.c`, with the link of a free block in
its first unit.  `FromList`, `Extend`, `LastOfPool`, `FromCached`, `FromArena` and
`Redirect` are the paths of `pr_malloc` in its order; `FreeToFull` and `FreeToUsed`
those of `pr_free`; `pr_realloc` is several steps, because it releases the lock
between them.  Callers write their mark into every unit of a block they get.

### Codegen, Interp, Lang

A program is a tree of phrases.  `Codegen` has one operator for each routine the
grammar calls, and gives the words, the relative jumps and the simulated stack depth
(`create_frame` allots that depth and `STACK_PADDING`).  `Interp` has one action for each
group of op-codes; `frames`, `loops` (one `exec_loop` for each call from C, with its C
locals) and `ist` are the C structures, and `status` records what would be memory
corruption.  Conditions and iterators get their answers from an oracle that `asked`
records; so `Lang`, a direct semantics of the same tree, gives exactly one meaning for a
finished run, and `Agrees` compares what was printed and how it ended.

### LongDigits, LongInt, Ints

A long is a sign and digits below `BASE`, which is `2^SHIFT`.  The routines that run once over
the digits are in `LongDigits`, without `RECURSIVE`, so that they can be proved about: the
carry of each loop is a recursive function of the place (`Carries`, `Remainders`, `Rows`).  An immediate is a register of `WORD` bits,
with arithmetic modulo `2^WORD`.  Each method of Int is an action that leaves its
operands, its result and the operands after the call in `call`.  An assertion that fails
is `Aborted`, a followed `NULL` is `Ends`.

### Dict, DictMap

`tbl` and `len` are the table and `dictlen`.  A call read-locks the dictionary, gives that up
for the write lock, and takes it back, as `def_write_lock` does: between these steps the other
thread gets in.  `rdlock_cnt` and `lockstack` count as in `lock.c`, so that a `write_lock` that
is refused (`Refused`) takes read locks off the count that are still held; `refused` remembers
it, and `overlap` that a change began beside another call.  Hashes are integers of any
sign: an index below 0 is a large `size_t`, at which the slots of a probe jump (`Slot`), a deleted
entry keeps its key, and a key whose hash is `ENTRY_DELETED` is found there; `recounts` counts the
entries that were so deleted twice, and an assertion that then fails (`Miscounted`) ends the
process.  `popItem!` changes the entry under the
read lock in steps of its own.  `AsSymbol` is the second lookup of a string as a symbol.
`AddFails` is a `dict_add` of a key that has no hash: it may reallocate the table before it
raises.  The loops of `dict_realloc` and `dict_keys_values` are recursive functions of the
number of slots done.

### Lists, Strings

A list is its items and the number of items its memory holds; what is written outside is
`Overrun`, what is read before it was written is `Garbage`.  Every call leaves its
method, arguments and outcome in `last`.  A string is a sequence of character codes, and
its methods are given what lies in memory behind it.

### Prosist

`heap`, `archived`, `immutable` are the objects; `ids`, `proxies`, `nextid` the dictionaries of
`psrec_t`; `recs`, `storedNext` the file.  `load_obj` runs over
the ids that `append_load_ids` listed, the last first and some twice.  `Collect` is one turn of the loop of
`append_refs`, `Store` the record of one object, and `Crash` may happen before each.
`Edit` is the program, which changes objects between calls and, where they are not
read-locked, during them.  `committed` is what the last call stored, by ids; `damaged` and `torn`
remember known causes of loss: a crash or exception while records were written.

## 3. Runs

| run | instance | what it shows |
|---|---|---|
| `object_lock` | 3 threads, 2 objects, 2 nested read locks, counters modulo 8 | counters equal the locks held, exclusion, each step is a step of `RWLock` |
| `object_lock_live` | 2 threads, 2 objects, one writer each, read locks nested in object order | every call returns; no deadlock |
| `attr_table` | 4 keys, of which some collide in each table size; 4 to 12 slots | the table is the map that was stored; scans visit all |
| `mem_mgr` | root, one object, one new object, 2 threads, 2 calls | nothing contained is freed, the barrier notices every change of a scanned object, undisturbed marks are exact, deadlocks are of two kinds |
| `threads` | up to 3 scripts, a script's thread, the memory manager; 3 threads in a run | hand-over, look-up, distinct modules; early ends and hangs only for known causes; the process ends |
| `prmalloc` | 2 threads, 2 classes, 2 pools of 4 units, 3 blocks at a time, one block of the system | no overlap, data intact, no block lost, each pool in the right list, linked both ways |
| `interp` | every nesting of one and two of 12 contexts around 7 leaves, each sixth nesting of three, 21 programs for the other phrases; 2 free answers | the program prints and ends as `Lang` says; no word, slot or frame that is not there is used; every program ends |
| `interp_unnamed` | the nestings of an exception that no handler names | **violation**: the exception is dropped |
| `ints` | digits of 4 bits, registers of 12, Karatsuba from three digits; about 80 operands for each place | every method is exact outside a named list of cases and not in them; results are normalised; a counting loop ends |
| `dict` | 2 threads, 3 keys that collide or have the hash -1 and one without a hash, tables of 4 and 6, 2 read locks left behind | a writer is alone until a `write_lock` is refused; each call is one on a map; the length is right |
| `lists` | lists of items 1 to 3 that grow to 4, strings of up to 5 characters, bytes of up to 13 | every method gives what sequences give, but in the cases listed |
| `store` | 7 graphs of up to 4 objects, 2 changes by the program | what is opened or rolled back is what was stored last; opening is refused only for shared immutable objects; locks kept are those of objects reached in several ways; only cycles grow for ever |

**Why the bounds are enough.**  The locks treat an object alone except for the one
`write_mutex`: two objects let a writer of one meet a writer of another, three threads
let two writers meet a reader, two levels of nesting tell a first from a nested read
lock, and modulo 8 wraps exactly where modulo 128 would for a lost decrement.  A
table of four slots with four keys reaches collision chains with a deleted entry in
front, in the middle and at the end, reallocation to a larger and to a smaller table,
and a table with no free slot.  In `mem_mgr` an object can be changed before, during
and after its scan, and created in any phase; two calls let threads hold a parameter
and wait for each other, and two writers meet at `write_mutex`.  In `threads`, three scripts are what it takes for one to be
missing while another one chooses its module and a third waits; with three scripts,
option `-i` is left out, and with `-i` the memory manager.  In `prmalloc` a pool
holds two or four blocks: it becomes full, is extended, empties, and is cut anew for the
other class, and two pools are in one list.

In `interp` two free answers let a loop turn and then end, or a condition differ between
two turns; the programs left out are those that `Clean` names (section 4).  In `ints` the
widths are scaled down so that a register, like the real one, has more than two digits and
an `int` half its bits; operands lie on both sides of every limit that a method tests.  In `dict`
the table has 4 slots instead of 8 and grows by half instead of threefold, so that it grows and
fills with deleted entries within a few calls; the second thread only pops, which is the call
that changes the table in more than one step and the one that leaves a read lock behind.  The keys have the hashes 0 and 5, which begin at the same
slot, and -1, which is the deleted mark.  The table is not followed (`Followed`) past two
`popItem!` calls or a write and a read that overlap, nor past a second recount.  `SizeWords` is
a multiple of one table size and not of the other, as `2^64` is.  In `lists` slices are tried on
lists with up to four different items; a state with overwritten or unset memory is not
followed.  Texts have the shapes that matter to a search: a part that overlaps itself,
one that is prefixed by a part of itself, and one whose continuation lies in memory.  In
`store` four objects allow a chain, a shared object and a cycle; `MaxRefs` is 16, and an
acyclic graph of four objects has at most 15 places in the list; the locks of each call are
counted on their own.

Bounds on counts: `MaxNest` (nested read locks), `MaxOps` (calls in a behaviour),
`MaxThreads` (threads started), `MaxArenas`, `SysBlocks`, `MaxUnits`, `MaxLive`
(memory and blocks), `MaxAsk` (free answers), `MaxSize` (slots of a dictionary), `MaxReads`
(read locks that a thread has when it calls), `MaxLen` (lists that calls start from), `MaxObj`, `MaxRefs`,
`MaxEdits` (the store).  `ConsoleSysExit` happens once.

**Deadlock.**  It is checked in `object_lock_live`, `mem_mgr`, `threads`, `interp` and `ints`.
`MemMgr` can stop at `write_mutex` and at crossed read and write locks, and `Threads` at a count that is wrong:
`Deadlocked` and `Hangs` say so by the guards of the actions, `MCMemMgr` and `MCThreads` let
such a state (and the end of the process) stutter, so TLC's check shows that every other state
has a step, and `DeadlocksAreCrossed` and `HangsKnown` say what those states look like.  In
`interp` and `ints` a finished program and a finished call stutter or go on.  The other runs
turn the check off because the code can stop: two writers (`object_lock`), a probe without end
(`attr_table`), no memory left (`prmalloc`), a search without end under the lock or a failed assertion
(`dict`), a list or
string call that is the last one followed (`lists`), and a store that is lost or
refused (`store`).

**Fairness.**  `ObjectLock`: threads are scheduled, and a poll of a spinlock or mutex
that is free again and again succeeds in the end (strong fairness of lock steps: the
code polls with sleeps, and the sections are short); critical sections are finite, so
that locks taken are given back.  `Threads`: a runnable thread runs (weak fairness of
its own steps), a script may run for ever, and the user of the console may stay; `Ends`
therefore assumes that the scripts have ended and nobody is at the console.  `Interp`,
`Ints`: one thread executes instructions or turns of a loop as long as there are any (weak
fairness of the next step).

## 4. Findings and known cases

**The finding of a run.**  `interp_unnamed` finds a violation of what a comment of the code
says: an exception that no handler of a `try` statement names is dropped, and the program goes on
behind the statement (`interp.c:1224`, against `bytecodes.h:438`).

**Shown by configurations that are not among the runs.**  Each of these finds a
violation with `tlc -config X.cfg`:

| configuration | module | property | what the code does |
|---|---|---|---|
| `ObjectLockUpgrade` | `MCObjectLock` | `Exclusion` | a refused `write_lock` on an object that the caller reads uncounts its read locks (`lock.c:305`) |
| `ObjectLockWriters` | `MCObjectLock` | `WriteLockReturns` | `write_lock` asks for `write_mutex` with the object's spinlock held (`lock.c:309`), and a writer that wakes polls the spinlock with `write_mutex` held: two writers of one object that is being read wait for each other for ever, against `prothon.h:1238` |
| `AttrLookup` | `MCAttrTable` | `GetReturns` | a lookup in a table full of deleted marks never ends (`object.c:559`) |
| `MemMgrMarks` | `MCMemMgr` | `MarkingIsComplete` | the scanned bit is not set again by a second scan, so later changes are missed (`memory_mgr.c:206`); the delete lock keeps this from freeing anything |
| `ThreadsCounted` | `MCThreads` | `AllCounted` | `main()` may open the console or end beside a script that is starting (`main.c:179`) |
| `DictRefused` | `MCDict` | `NoReadersBeside` | `popItem!` of an empty dictionary returns with a read lock (`builtins-dict.c:277`); a change that is then refused takes it off `rdlock_cnt` (`lock.c:305`) but not off the lockstack, and `def_write_lock` takes another one: in the end a write lock is granted beside a reader, against `prothon.h:1236` |
| `DictRecounted` | `MCDict` | `NeverAborts` | an Int may hash to -1, `ENTRY_DELETED`: `delItem_` of such a key finds an entry that `popItem!` deleted, deletes it again and counts `dictlen` down once more (`builtins-dict.c:494`); the next listing fails `assert (cnt++ < len)` (line 253) |
| `ProsistShared` | `MCProsist` | `Reopens` | an id that two references lead to is loaded twice, and the second `switch_proto` of a string, an int or a tuple raises, since the first load made it immutable (`Prosist.c:600`, `lock.c:297`): a store that was committed cannot be opened, against `pr/pretest/prosist.pr:65` |

**Known cases.**  These runs pass because their properties name what the code does
otherwise; each name is a definition, and outside of it the property is strict.

*Interpreter* (`Clean` in `MCInterp`).  A `return` inside a loop over an iterator or a
`try` with handlers finds the stack not as it expects.  A `return` inside a `try` with a
`finally` is lost in a property's getter and in a generator.  `CLRSP` at a handler or
`finally` inside a `for` drops the loop's iterator.  `break` and `continue` out of a `try` with a
`finally` leave `exc_final_return` set.  A generator's frame leaves a slot on the stack of the
code that made it.  An exception in a default value or a getter leaves the half-built call
on the stack.

*Int* (`Known` in `MCInts`, and in every such case the result does differ, but for
`UndefinedShift`, which may be right by chance).  `SumWraps`: `add_` tests its limits with `||`.
`CutsQuotient`: immediates are divided towards zero, longs down.  `FollowsNull`: division
by a long zero, and a shift by a long that is negative or too large, follow the `NULL` of the
exception.  `UndefinedShift`: a count that C leaves undefined.  `CutToInt`: `abs` of C on 64
bits, and `longp2int32`, which tests a loop that has already cut.  `MinimalHasNoNegative`:
`neg_` and the text (two minus signs) of the least register.  `OperandChanges`: `neg_` and
`abs_` of a long also change the operand.  `EmptyHalf`: an assertion in `k_mul` ends the
process, in every large power too.  `NoCompare`: a loop over a long follows `NULL`.

*Dict* (`DictMap`, `ImplementsMap`).  A key with a negative hash is stored under a masked one and
never found, or, with the hash -1, found with a value it had when it was deleted by `popItem!`
(`Ghosts`); one with a hash below 1 is not deleted.  A search in a table of nothing but deleted and
live entries never ends, with the lock held.  `popItem!` changes the table under a read
lock; two at once, or a writer beside a reader after a refused `write_lock`, are not followed
further (`overlap`), and a length that was counted down twice is right but for that (`recounts`).
`popItem!` of an empty dictionary keeps its read lock, `delItem_` of a missing key the write
lock.  `setDefault!` and `update!` test and store in two steps.  A generator over fewer
than two items yields memory that was never written.

*Lists* (`Known` in `MCLists`, and in every such case the call does differ).  `l[None]`
keeps the lock.  Slices that go down or end before they start are miscounted.  `l[i:j] = l`
and `extend!(l)` ask for the kind of an object that they have write-locked, and wait for its lock
for ever; `l += l` does not end.  Memory of no items doubles to
none.  `extend!` of what is no sequence keeps the lock.  A negative number of times, `l * 1`
(which is `l` itself), `pop!(i)` of an empty list, and `sort!` with a function, which always
raises.

*Strings and bytes* (`Misled`, `Wrong`).  `ch3_strstr` compares the characters at the end of
the part, not the pointers: a part is found when the character that comes next equals the
one that lies behind the part in memory.  `replace` searches behind the end of the string in its
second pass, `find` does so when it starts later, and frees the memory of both strings.
`expandTabs` with a negative number searches through a missing string.  The empty part is
found in a string only by chance.  `cmp_` of bytes compares their first bytes in each turn, and `* 0`
gives no object, a negative number a huge one.  The generator of bytes takes the wrong
size; the last `next` of both generators keeps the write lock.

*Store* (`MCProsist`).  After a crash while records are written, old and new records and
ids without a record remain (`damaged`).  `commit` keeps a read lock for each further way
to an object (`LocksReturned`), and all of them when it raises; commit and rollBack never
end on a cycle.  A reference to an object that cannot be cloned is written as 0, those
after it as -1, and the object counts as stored already.  The archived bit belongs to the
object, not to the file.  `rollBack` follows attributes only; a second one frees the memory it
copies from; the first one after opening raises.  A dictionary that is loaded replaces the
object that others were given before, and with several references it is made twice
(`SharedDict`); with several references to an immutable object opening is refused
(`SharedImmutable`).  A list that is loaded is immutable.  The program may change an object that `commit` has
not reached yet, so a commit is not an instant (`torn`).

## 5. Proofs

All theorems hold for every value of the constants that satisfies the `ASSUME` of the
module: finite sets of threads and scripts, any objects, distinct special values, and for
the locks `Threads * MaxNest < CntMod`, that is, fewer read locks than the 7-bit counter
holds.

**ObjectLockProofs** (`CountsCorrect`, `MutualExclusion`, `Refinement`).
`CountsAreLocks` and `Exclusion` are not inductive.  `IndInv` adds `Nesting` (a lockstack
holds at most `MaxNest` entries of an object, fewer when one is being added, some when
one is being removed) and `Settled` (a thread is in a call only on an object that suits
the call, and the holder of `write_mutex` is in a write call with the spinlock).  The counters
are cardinalities of sets of pairs; the lemmas about them say how adding or
removing one lock changes the cardinality.  Refinement follows step by step: a grant is
a `Read` or `Write`, an unlock `EndRead` or `EndWrite`, everything else stutters.

**MemMgrProofs** (`TypeCorrect`, `NothingLost`, `ScannedHidesNothing`, `MarksExact`,
`StopsCrossed`).  `HeapOK`: every
reference, and everything a process holds in its hands, is in the list of objects, and
everything in the list is delete-locked; so what the root contains is in the list.
`LocksOK`: locks are held where the steps need them.  `PhaseOK`: the phase follows the
manager's position.  `TriColour`: in the marking phase a reference from a scanned object
to an unmarked one exists only while the object waits to be scanned, is being scanned with
the value still to visit, or is being written.  The last one is the invariant of an
incremental collector, here for this barrier.  `MarksExact` adds that while nobody interferes
only contained objects are marked.  What the root contains is the least set that is closed
under references, so both inclusions follow from closed sets: no induction over paths.
`StopsCrossed` needs who can be waited for: `WaitInv` adds to `IndInv` that
a thread has read-locked only the objects of its call (`ReadersInCalls`), that nobody locks
an object that it has read-locked (`NeverTwice`), and that who has a spinlock stores or asks for
`write_mutex` with it held (`SpinsInCalls`).  If the system has stopped and a spinlock is held, its
holder can only be asking for `write_mutex`, and the thread that has that polls a spinlock
(`MutexCrossed`); if none is held, every thread that waits to write waits for a reader, which
itself waits in its call (`CallCrossed`).

**NatLemmas.**  The prover has no induction principle to apply to a formula, so the models'
recursive functions are reasoned about with sets: a set of numbers that has 0 and with each
number below `n` the next one has `n` (`UpTo`), and a function that a recursive definition
names exists because another one that satisfies its equations is at hand.  The rest is about
minima and about distances around a table (`DivMod`, `ModUnique`, `Behind`).

**AttrTableProofs** (`TableSound`, `LengthExact`, `ScansComplete`, `TableIsMap`).  The
invariant: every live entry is where the probe for its key stops, and `attr_alen` is the
number of live entries.  Storing keeps it although the entry may go to a deleted slot in
front of the place where the probe ended, since no probe passes a never used slot; a
reallocation moves one entry at a time, and after `i` moves the new table has the live
entries among the first `i` slots and satisfies the invariant itself.  So a table has at most
one entry of a key, and deleting, storing and looking up are those of `AttrMap`.  A scan has
returned the keys in front of its place, or all once it went round.

**PrMallocProofs** (`HeapSound`, `BlocksDisjoint`, `DataKept`, `BlocksCounted`,
`PoolsLinkedRight`).  A list is a *path*: a function from `1 .. n` to its members without
repetition, each linked to the next.  The invariant says for each pool that the blocks held and
those on the path from `freeblock` are together the blocks it was cut into, with nothing in both
(`FreeList`); for each class that the path from its header has the pools with held and free
blocks, with links back that match, from the header and to it, and for `freepools` the empty
ones (`LinksOK`); that what a caller holds fits its block (`LiveOK`); and that the blocks which a `pr_realloc` keeps between
its steps are still its caller's (`ReallocOf`).  Each unit of a pool lies in one block of the
pool's class, so blocks that differ do not overlap.  Writing goes to held blocks, and links are
kept in free ones: so the data stay and the paths do too.  `BlocksAccounted` and `PoolsLinked`
walk the lists as the run does; the walk yields the path (`FreeChainIs`, `PoolChainIs`).

**ThreadsProofs** (`TypeCorrect`, `ObjectsHandedOver`, `ModulesDistinct`,
`ThreadsFindThemselves`, `MainWaits`, `HangsOnlyMiscounted`).  `Handoff`: from
its creation to its registration a thread owns the registry's lock and `new_thread_object`,
although another thread took the lock.  `OnlyMains`: only main threads count and choose.
`Exclusion`: while no script was missing, `start_main_lock` admits one thread to the
choice of a module name, and the name found is still free when it is published.
`Known`: a live thread is in the registry under the identifier of its system thread, no
two live threads share an identifier, and what is registered has run; so the first object
that the lookup meets is the thread's own or that of an ended one.  `Tally`: the counter is
the number of main threads that have counted themselves, and of those of missing scripts.
It needs `Known`: a thread that did not find itself in `sys.exit` would run on after it has
been counted down.
`HangInv` says that each lock that is taken has a thread which can go on and will release it,
and that what is not started yet has an identifier to get; with `Tally`, a wait without end is
a wait for a count that nobody is left to lower.

**DictProofs** (`LocksHeld`, `WriterHasItAlone`, `TableGuarded`).  `WriterAlone` is not
inductive.  `LockInv` adds `Holds` (a thread has the lock that its place in the call needs),
`Nested` (no more read locks than `MaxReads` and the one of a call), `Counted` (`rdlock_cnt` is
the number of read locks, as a cardinality, so that the bit field does not wrap) and `Excluded`
(read locks and the write lock exclude each other), the last two until a `write_lock` is refused.
What stays true after a refusal is `Apart`: a writer may be granted beside a reader, which
`overlap` notes, but nobody begins to read beside a writer, since the spinlock is taken.  The
table changes without the write lock only in `popItem!`: why `Dict` may take its other calls for
single steps as long as `overlap` is false.

**LongProofs** (`AddExact`, `SubExact`, `CompareExact`, `MulAddExact`, `DivRemExact`,
`XMulExact`, `AddFits`, `RowsFit`), for every base from 2 on and every number of digits.
The run `ints` checks these routines, through the methods of Int, on a few digits of four
bits.  Values are compared from the most significant end: `Tops` gives the number that the
highest `k` digits make, and each routine has a relation between the `Tops` of what it reads
and writes and its carry, kept from one place to the next without powers of the base.  The
highest `k` terms and the carry into them are worth the highest `k` digits of the result and
the last carry (`RippleValue`).  In `x_sub` the last borrow is dropped by the code: it is 0, because a
borrow at the top outweighs all digits below it (`BelowZero`) and `long_compare` has found
the larger operand (`LessByDigit`, `LessByLength`).  A row of `x_mul` adds a multiple of `b`
to the digits from its place on, and its carry ends in a digit that was still 0
(`AddRowIs`); from the last row down, the rows make the product (`RowsExact`).  The model
computes with integers of any size where the C code has `digit` (16 bits) and `twodigits`;
`AddFits` and `RowsFit` say that in `x_add` and `x_mul` nothing is lost by that: what is
accumulated stays below `2 * BASE` and `BASE^2`.

**Only model-checked.**  Liveness (`WriteLockReturns`, `ReadLockReturns`, `Ends`) and what
is stated with `ENABLED` are outside the prover.
The table of a dictionary, its length and its being a map (`LenIsLive`, `ImplementsMap`) are not proved yet, only its locks.
`Codegen`, `Lang`, `LongInt` (Karatsuba, long division, powers, conversion), `Strings` and
`Prosist` are recursive over programs, digits, texts and graphs, with RECURSIVE operators that the prover does not take; so what they compute
is compared with a reference by TLC.

## 6. Not modelled

* `read_unlock` of an object the thread did not lock, the immutable bit changed between
  lock and unlock (`setProto`, `addProto`, `WeakRef`), and the locks that a failing
  `pre_call_lock` or an `apr_thread_exit` leaves.
* What callbacks of notifications do; `Thread.sleep`, `join`, access levels, `Mutex`.
* The sweep's branch that frees an object: it cannot be reached.
* What happens to objects while the process ends under running threads.
* Failures of `malloc` on redirected requests, the allocator's hooks and its limit (they
  are compiled out).
* Prototype chains, the symbol table, and the lazy creation of a `pr_lock`.
* In the interpreter: import, `NEWDICT`, `NEWSLICE`, `PUSH_SUPER_REF`, the read locks of a
  call, and two threads in one program; in the parser: the scanner and the source map.
* In the types: `hash_`, `str_` and formatting where the text is no property, operands of
  other types, and exceptions raised by an item's own `cmp_`, `eq?` or `eq_`.
* In the store: how names and numbers are encoded, errors of the file library, two stores
  at once.
* Terminal input, files, time, text formatting, float arithmetic, and the wrappers of
  external libraries: input and output, or nothing that TLC can evaluate.

## 7. What is left

1. `Symbols`: two threads in `sym()`.  `Protos`: prototype lists and `has_proto`, and
   references of objects without attributes in `MemMgr`.
2. The locks of a call (`pre_call_lock`, `post_call_unlock`, `def_write_lock`) in `Interp`, on
   top of `RWLock`, with two threads.
3. Two threads on one list, as `Dict` has them.
4. Proofs about the table of `Dict`: that every live entry is where the probe for its key ends,
   as in `AttrTableProofs`, as long as `overlap` is false, with the length that `recounts` explains
   and the marks that a search for the hash -1 finds.
5. Proofs about `Prosist` and `Lists`: `LocksReturned` and `Restores` for any graph, once
   the recursive operators of `Prosist` are functions of what is left to do, as in `Dict`;
   `Split` and `quicksort` in a module of their own, so that `Lists` can be reasoned about.
6. `x_divrem`, shifts and Karatsuba beside the routines of `LongDigits`: the guess of a
   quotient digit and the bound of its corrections.
