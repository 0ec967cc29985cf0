------------------------------ MODULE PrMalloc ------------------------------
(***************************************************************************)
(* The allocator of small blocks (prmalloc.c).  A pool holds blocks of one *)
(* size class; the pools of a class with allocated and with free blocks    *)
(* are doubly linked, empty pools are kept for any class, full pools are   *)
(* in no list.  A free block holds the address of the next one.            *)
(*                                                                         *)
(* Memory is a sequence of units (ALIGNMENT bytes).  Pools start at        *)
(* multiples of PoolUnits, the system's blocks behind them.  A pool's      *)
(* header is beside its units here, not among them.  What a unit held is   *)
(* forgotten (Junk) when its block is freed, except for the link.          *)
(***************************************************************************)
EXTENDS Integers, FiniteSets, SequencesExt

CONSTANTS
  Callers,       \* threads that allocate
  NClasses,      \* NB_SMALL_SIZE_CLASSES: class c holds blocks of c + 1 units
  PoolUnits,     \* (POOL_SIZE - POOL_OVERHEAD) in units
  ArenaPools,    \* ARENA_NB_POOLS
  MaxArenas,     \* bound: the arenas that the system gives
  SysBlocks,     \* bound: the blocks of MaxUnits that the system gives
  MaxUnits,      \* bound: the largest request, in units
  MaxLive,       \* bound: blocks that callers hold at a time
  Junk, Nil      \* the content of fresh memory, and NULL

\* A pool has room for two blocks at least, as the code takes for granted.
ASSUME PrMallocAssumption ==
  /\ NClasses \in Nat \ {0} /\ PoolUnits \in Nat /\ PoolUnits >= 2 * NClasses
  /\ ArenaPools \in Nat \ {0} /\ MaxArenas \in Nat /\ SysBlocks \in Nat
  /\ MaxUnits \in Nat /\ MaxUnits >= NClasses /\ MaxLive \in Nat
  /\ Junk # Nil /\ {Junk, Nil} \intersect (Int \union Callers) = {}

Classes == 0 .. NClasses - 1
Pools == 1 .. ArenaPools * MaxArenas
Dummy == NClasses                         \* DUMMY_SIZE_IDX
Header(c) == -1 - c                       \* the list header usedpools[2 * c]
Nodes == Pools \union {Header(c) : c \in Classes}

Start(p) == (p - 1) * PoolUnits
PoolOf(a) == a \div PoolUnits + 1
PoolCells == Cardinality(Pools) * PoolUnits
SysAddresses == {PoolCells + i * MaxUnits : i \in 0 .. SysBlocks - 1}
Cells == 0 .. PoolCells + SysBlocks * MaxUnits - 1
InPool(a) == a < PoolCells
BlockUnits(c) == c + 1
ClassOf(n) == n - 1
Small(n) == n \in 1 .. NClasses

VARIABLES
  mem,                                    \* mem[a]: the word in a unit
  count, freeblock, nextpool, prevpool, szidx, capacity,   \* a pool's header
  freepools,                              \* the cached pools, by nextpool
  arenacnt, watermark,
  sys,                                    \* addresses the system has given out
  live,                                   \* the blocks callers hold
  realloc                                 \* where each caller's pr_realloc is

headers == <<count, freeblock, nextpool, prevpool, szidx, capacity>>
pools == <<headers, freepools, arenacnt, watermark>>
vars == <<mem, pools, sys, live, realloc>>

\* A block as its holder knows it: address, units, and how many of them, from the
\* first, hold the caller's data.
Block(t, a, n, k) == [owner |-> t, at |-> a, units |-> n, kept |-> k]
Idle == [step |-> "idle"]

Init ==
  /\ mem = [a \in Cells |-> Junk]
  /\ count = [p \in Pools |-> 0] /\ capacity = [p \in Pools |-> 0]
  /\ freeblock = [p \in Pools |-> Nil] /\ szidx = [p \in Pools |-> Dummy]
  /\ nextpool = [x \in Nodes |-> IF x < 0 THEN x ELSE Nil] /\ prevpool = nextpool
  /\ freepools = Nil
  /\ arenacnt = 0 /\ watermark = ArenaPools
  /\ sys = {} /\ live = {} /\ realloc = [t \in Callers |-> Idle]

-----------------------------------------------------------------------------
(* pr_malloc: n units are asked for and the address is bp *)

\* Mutant: the neighbour behind keeps its link.
UnlinkForward(p) ==
  /\ nextpool' = [nextpool EXCEPT ![prevpool[p]] = nextpool[p]]
  /\ UNCHANGED prevpool

Unlink(p) ==
  /\ nextpool' = [nextpool EXCEPT ![prevpool[p]] = nextpool[p]]
  /\ prevpool' = [prevpool EXCEPT ![nextpool[p]] = prevpool[p]]

\* The pool of the class that was last put in front.
FrontPool(n) == nextpool[Header(ClassOf(n))]
NoneUsed(n) == FrontPool(n) = Header(ClassOf(n))

\* It gives its first free block.
Used(n, bp) ==
  LET p == FrontPool(n) IN
  /\ ~NoneUsed(n)
  /\ bp = freeblock[p]
  /\ count' = [count EXCEPT ![p] = @ + 1]
  /\ UNCHANGED <<szidx, capacity, freepools, arenacnt, watermark>>

FromList(n, bp) ==
  /\ Used(n, bp)
  /\ mem[bp] # Nil
  /\ freeblock' = [freeblock EXCEPT ![FrontPool(n)] = mem[bp]]
  /\ UNCHANGED <<mem, nextpool, prevpool>>

\* Mutant: room is seen for one more block than there is.
RoomForMore(p) == count[p] + 1 <= capacity[p]

Room(p) == count[p] + 1 < capacity[p]

\* "Reached the end of the free list, try to extend it".
Extend(n, bp) ==
  LET p == FrontPool(n)
      new == Start(p) + (count[p] + 1) * BlockUnits(ClassOf(n)) IN
  /\ Used(n, bp)
  /\ mem[bp] = Nil /\ Room(p)
  /\ freeblock' = [freeblock EXCEPT ![p] = new]
  /\ mem' = [mem EXCEPT ![new] = Nil]
  /\ UNCHANGED <<nextpool, prevpool>>

LastOfPool(n, bp) ==
  /\ Used(n, bp)
  /\ mem[bp] = Nil /\ ~Room(FrontPool(n))
  /\ freeblock' = [freeblock EXCEPT ![FrontPool(n)] = Nil]
  /\ Unlink(FrontPool(n))
  /\ UNCHANGED mem

\* Mutant: a cached pool keeps its blocks whatever their size.
InitPoolAnyClass(p, c, idx, rest, bp) ==
  LET h == Header(c) IN
  /\ nextpool' = [nextpool EXCEPT ![p] = h, ![h] = p]
  /\ prevpool' = [prevpool EXCEPT ![p] = h, ![h] = p]
  /\ count' = [count EXCEPT ![p] = 1]
  /\ freepools' = rest
  /\ \/ /\ idx # Dummy
        /\ bp = freeblock[p]
        /\ freeblock' = [freeblock EXCEPT ![p] = mem[bp]]
        /\ szidx' = [szidx EXCEPT ![p] = c]
        /\ UNCHANGED <<mem, capacity>>
     \/ /\ idx = Dummy
        /\ bp = Start(p)
        /\ szidx' = [szidx EXCEPT ![p] = c]
        /\ freeblock' = [freeblock EXCEPT ![p] = bp + BlockUnits(c)]
        /\ mem' = [a \in Cells |-> IF a = bp + BlockUnits(c) THEN Nil
                                  ELSE IF PoolOf(a) = p THEN Junk ELSE mem[a]]
        /\ capacity' = [capacity EXCEPT ![p] = PoolUnits \div BlockUnits(c)]

\* init_pool, with the class idx that the pool had.  The list of the class is empty,
\* so its next and its previous neighbour are the header.
InitPool(p, c, idx, rest, bp) ==
  LET h == Header(c) IN
  /\ nextpool' = [nextpool EXCEPT ![p] = h, ![h] = p]
  /\ prevpool' = [prevpool EXCEPT ![p] = h, ![h] = p]
  /\ count' = [count EXCEPT ![p] = 1]
  /\ freepools' = rest
  /\ \/ /\ idx = c
        /\ bp = freeblock[p]
        /\ freeblock' = [freeblock EXCEPT ![p] = mem[bp]]
        /\ UNCHANGED <<mem, szidx, capacity>>
     \/ /\ idx # c
        /\ bp = Start(p)
        /\ szidx' = [szidx EXCEPT ![p] = c]
        /\ freeblock' = [freeblock EXCEPT ![p] = bp + BlockUnits(c)]
        /\ mem' = [a \in Cells |-> IF a = bp + BlockUnits(c) THEN Nil
                                  ELSE IF PoolOf(a) = p THEN Junk ELSE mem[a]]
        /\ capacity' = [capacity EXCEPT ![p] = PoolUnits \div BlockUnits(c)]

FromCached(n, bp) ==
  /\ NoneUsed(n) /\ freepools # Nil
  /\ InitPool(freepools, ClassOf(n), szidx[freepools], nextpool[freepools], bp)
  /\ UNCHANGED <<arenacnt, watermark>>

FromArena(n, bp) ==
  /\ NoneUsed(n) /\ freepools = Nil
  /\ \/ watermark < ArenaPools /\ watermark' = watermark + 1 /\ UNCHANGED arenacnt
     \/ /\ watermark = ArenaPools /\ arenacnt < MaxArenas
        /\ watermark' = 1 /\ arenacnt' = arenacnt + 1
  /\ InitPool((arenacnt' - 1) * ArenaPools + watermark', ClassOf(n), Dummy, Nil, bp)

SmallBlock(n, bp) ==
  \/ FromList(n, bp) \/ Extend(n, bp) \/ LastOfPool(n, bp) \/ FromCached(n, bp) \/ FromArena(n, bp)

\* A large request, or the system gives no arena when one is needed.
Redirect(n, bp) ==
  /\ Small(n) => NoneUsed(n) /\ freepools = Nil /\ watermark = ArenaPools
  /\ bp \in SysAddresses \ sys
  /\ sys' = sys \union {bp}
  /\ UNCHANGED <<mem, pools>>

Malloc(n, bp) == (Small(n) /\ SmallBlock(n, bp) /\ UNCHANGED sys) \/ Redirect(n, bp)

-----------------------------------------------------------------------------
(* pr_free *)

Forget(a, n) == [c \in Cells |-> IF c \in a .. a + n - 1 THEN Junk ELSE mem[c]]

PushBlock(a) ==
  /\ mem' = [Forget(a, BlockUnits(szidx[PoolOf(a)])) EXCEPT ![a] = freeblock[PoolOf(a)]]
  /\ freeblock' = [freeblock EXCEPT ![PoolOf(a)] = a]

\* Mutant: the block is not counted as free.
FreeToFullKeepsCount(a) ==
  LET p == PoolOf(a)  h == Header(szidx[p])  next == nextpool[h] IN
  /\ freeblock[p] = Nil
  /\ PushBlock(a)
  /\ nextpool' = [nextpool EXCEPT ![p] = next, ![prevpool[next]] = p]
  /\ prevpool' = [prevpool EXCEPT ![p] = prevpool[next], ![next] = p]
  /\ UNCHANGED <<count, freepools>>

\* The pool was full: it is put in front of its class.
FreeToFull(a) ==
  LET p == PoolOf(a)  next == nextpool[Header(szidx[p])] IN
  /\ freeblock[p] = Nil
  /\ PushBlock(a)
  /\ count' = [count EXCEPT ![p] = @ - 1]
  /\ nextpool' = [nextpool EXCEPT ![p] = next, ![prevpool[next]] = p]
  /\ prevpool' = [prevpool EXCEPT ![p] = prevpool[next], ![next] = p]
  /\ UNCHANGED freepools

FreeToUsed(a) ==
  LET p == PoolOf(a) IN
  /\ freeblock[p] # Nil
  /\ PushBlock(a)
  /\ count' = [count EXCEPT ![p] = @ - 1]
  /\ \/ count[p] > 1 /\ UNCHANGED <<nextpool, prevpool, freepools>>
     \/ /\ count[p] = 1
        /\ nextpool' = [nextpool EXCEPT ![prevpool[p]] = nextpool[p], ![p] = freepools]
        /\ prevpool' = [prevpool EXCEPT ![nextpool[p]] = prevpool[p]]
        /\ freepools' = p

FreeBlock(a) ==
  \/ /\ InPool(a) /\ (FreeToFull(a) \/ FreeToUsed(a))
     /\ UNCHANGED <<szidx, capacity, arenacnt, watermark, sys>>
  \/ /\ ~InPool(a) /\ sys' = sys \ {a}
     /\ mem' = Forget(a, MaxUnits)
     /\ UNCHANGED pools

-----------------------------------------------------------------------------
(* What threads do.  Each call locks __malloc_lock once, pr_realloc several *)
(* times; a caller writes its blocks without the lock.                      *)

\* A caller writes a block before it calls again.
Ready(t) == realloc[t] = Idle /\ \A b \in live : b.owner = t => b.kept = b.units

Call(t, n) ==
  /\ Ready(t) /\ Cardinality(live) < MaxLive
  /\ \E bp \in Cells :
       /\ Malloc(n, bp)
       /\ live' = live \union {Block(t, bp, n, 0)}
  /\ UNCHANGED realloc

Fill(a, n, t) == [c \in Cells |-> IF c \in a .. a + n - 1 THEN t ELSE mem[c]]

Write(t, b) ==
  /\ realloc[t] = Idle /\ b.owner = t /\ b.kept < b.units
  /\ mem' = Fill(b.at, b.units, t)
  /\ live' = (live \ {b}) \union {[b EXCEPT !.kept = b.units]}
  /\ UNCHANGED <<pools, sys, realloc>>

Free(t, b) ==
  /\ Ready(t) /\ b.owner = t
  /\ FreeBlock(b.at)
  /\ live' = live \ {b}
  /\ UNCHANGED realloc

\* The block stays when its class has room for n units, and so does a block of the
\* system, which is large enough here.  pr_realloc(p, 0) is pr_free.
ReallocSame(t, b, n) ==
  /\ Ready(t) /\ b.owner = t
  /\ \/ InPool(b.at) /\ n <= BlockUnits(szidx[PoolOf(b.at)])
     \/ ~InPool(b.at) /\ ~Small(n)
  /\ live' = (live \ {b}) \union {Block(t, b.at, n, IF b.kept < n THEN b.kept ELSE n)}
  /\ UNCHANGED <<mem, pools, sys, realloc>>

\* A block is moved to or from a pool; how much is copied is read under the lock.
ReallocMove(t, b, n) ==
  /\ Ready(t) /\ b.owner = t /\ Cardinality(live) < MaxLive
  /\ \/ InPool(b.at) /\ n > BlockUnits(szidx[PoolOf(b.at)])
     \/ ~InPool(b.at) /\ Small(n)
  /\ realloc' = [realloc EXCEPT ![t] =
       [step |-> "malloc", old |-> b, units |-> n,
        size |-> IF InPool(b.at) THEN BlockUnits(szidx[PoolOf(b.at)]) ELSE n]]
  /\ UNCHANGED <<mem, pools, sys, live>>

ReallocMalloc(t) ==
  LET r == realloc[t] IN
  /\ r.step = "malloc"
  /\ \E bp \in Cells :
       /\ Malloc(r.units, bp)
       /\ live' = live \union {Block(t, bp, r.units, 0)}
       /\ realloc' = [realloc EXCEPT ![t] =
            [step |-> "copy", old |-> r.old, new |-> Block(t, bp, r.units, 0), size |-> r.size]]

ReallocCopy(t) ==
  LET r == realloc[t]
      new == [r.new EXCEPT !.kept = IF r.old.kept < r.size THEN r.old.kept ELSE r.size] IN
  /\ r.step = "copy"
  /\ mem' = [c \in Cells |-> IF c \in r.new.at .. r.new.at + r.size - 1
                             THEN mem[r.old.at + (c - r.new.at)] ELSE mem[c]]
  /\ live' = (live \ {r.new}) \union {new}
  /\ realloc' = [realloc EXCEPT ![t] = [step |-> "free", old |-> r.old]]
  /\ UNCHANGED <<pools, sys>>

ReallocFree(t) ==
  LET r == realloc[t] IN
  /\ r.step = "free"
  /\ FreeBlock(r.old.at)
  /\ live' = live \ {r.old}
  /\ realloc' = [realloc EXCEPT ![t] = Idle]

Next ==
  \E t \in Callers :
    \/ (\E n \in 1 .. MaxUnits : Call(t, n))
    \/ (\E b \in live : Write(t, b) \/ Free(t, b))
    \/ (\E b \in live, n \in 1 .. MaxUnits : ReallocSame(t, b, n) \/ ReallocMove(t, b, n))
    \/ ReallocMalloc(t) \/ ReallocCopy(t) \/ ReallocFree(t)

Spec == Init /\ [][Next]_vars

-----------------------------------------------------------------------------
(* Properties *)

Committed == 1 .. (arenacnt - 1) * ArenaPools + watermark

Units(b) == b.at .. b.at + b.units - 1

\* No two blocks that callers hold share a unit, and each lies in one pool that was
\* taken from an arena.
Disjoint ==
  /\ \A b, c \in live : b # c => Units(b) \intersect Units(c) = {}
  /\ \A b \in live :
       InPool(b.at) => PoolOf(b.at) = PoolOf(b.at + b.units - 1) /\ PoolOf(b.at) \in Committed

\* What a caller wrote into its block stays, whatever others allocate, free and
\* reallocate, and through its own pr_realloc.
DataIntact ==
  \A b \in live : \A i \in 0 .. b.kept - 1 : mem[b.at + i] = b.owner

\* The free blocks of a pool, first to last; its length is cut at PoolUnits + 1.
FreeChain(p) ==
  LET next(s) == IF s = <<>> THEN freeblock[p] ELSE mem[Last(s)]
      chain[i \in 0 .. PoolUnits + 1] ==
        IF i = 0 THEN <<>>
        ELSE LET s == chain[i - 1] IN IF next(s) = Nil THEN s ELSE Append(s, next(s))
  IN chain[PoolUnits + 1]

\* Every block that a pool was cut into is held by a caller or is once in the free
\* list, count is the number of those held, and the list is empty only in a full
\* pool: a pool in the list of its class can always give a block.
BlocksAccounted ==
  \A p \in Committed :
    LET held == {b.at : b \in {b \in live : InPool(b.at) /\ PoolOf(b.at) = p}}
        chain == FreeChain(p)
        cut == count[p] + Len(chain) IN
    /\ Cardinality(held) = count[p]
    /\ held \union ToSet(chain) = {Start(p) + i * BlockUnits(szidx[p]) : i \in 0 .. cut - 1}
    /\ cut <= capacity[p]
    /\ chain = <<>> <=> count[p] = capacity[p]

\* The list that starts behind x, up to a header or Nil.
PoolChain(x) ==
  LET next(s) == IF s = <<>> THEN x ELSE nextpool[Last(s)]
      chain[i \in 0 .. Cardinality(Pools) + 1] ==
        IF i = 0 THEN <<>>
        ELSE LET s == chain[i - 1] IN IF next(s) \in Pools THEN Append(s, next(s)) ELSE s
  IN chain[Cardinality(Pools) + 1]

\* A pool is in the list of its class when it has both held and free blocks, with
\* the cached pools when it is empty, and in no list when it is full.  Every link
\* back is right, the header's to the last pool too, although a full pool keeps the
\* links that it had and pr_free links it again at any later time.
PoolsLinked ==
  /\ \A c \in Classes :
       LET list == PoolChain(nextpool[Header(c)]) IN
       /\ IsInjective(list)
       /\ ToSet(list) = {p \in Committed : szidx[p] = c /\ count[p] \in 1 .. capacity[p] - 1}
       /\ \A i \in DOMAIN list : prevpool[list[i]] = IF i = 1 THEN Header(c) ELSE list[i - 1]
       /\ prevpool[Header(c)] = IF list = <<>> THEN Header(c) ELSE Last(list)
  /\ LET cached == PoolChain(freepools) IN
       /\ IsInjective(cached)
       /\ ToSet(cached) = {p \in Committed : count[p] = 0}
=============================================================================
