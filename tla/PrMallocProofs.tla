--------------------------- MODULE PrMallocProofs ---------------------------
(***************************************************************************)
(* For any number of callers, classes, pools and units: the blocks that    *)
(* the allocator gives out do not overlap, keep their data and are all     *)
(* accounted for, and its pools are in the lists they belong to.           *)
(*                                                                         *)
(* A list is a path: a function f on 1 .. n that starts at x and follows   *)
(* the links nx to its end e.                                              *)
(***************************************************************************)
EXTENDS PrMalloc, NatLemmas, FiniteSetTheorems, SequenceTheorems

On(f, n) == {f[i] : i \in 1 .. n}

Path(f, n, x, nx, e) ==
  /\ n \in Nat /\ f = [i \in 1 .. n |-> f[i]]
  /\ x = IF n = 0 THEN e ELSE f[1]
  /\ \A i \in 1 .. n : f[i] # e /\ nx[f[i]] = IF i = n THEN e ELSE f[i + 1]
  /\ \A i, j \in 1 .. n : f[i] = f[j] => i = j

-----------------------------------------------------------------------------
(* One pool: the k blocks of class c that are held and those in its list *)

Cap(c) == PoolUnits \div BlockUnits(c)
Cut(p, c, k) == {Start(p) + i * BlockUnits(c) : i \in 0 .. k - 1}
HeldIn(p, H) == {a \in H : InPool(a) /\ PoolOf(a) = p}

FreeList(p, c, k, H, f, n) ==
  /\ HeldIn(p, H) \union On(f, n) = Cut(p, c, k + n)
  /\ HeldIn(p, H) \intersect On(f, n) = {}
  /\ k + n \in 2 .. Cap(c)
  /\ n = 0 => k = Cap(c)

PoolOK(p, c, k, first, m, H) ==
  /\ c \in Classes /\ k \in Nat
  /\ Cardinality(HeldIn(p, H)) = k
  /\ \E f, n : Path(f, n, first, m, Nil) /\ FreeList(p, c, k, H, f, n)

-----------------------------------------------------------------------------
(* The lists of pools *)

ListOf(h, S, nx, pv, f, n) ==
  /\ Path(f, n, nx[h], nx, h) /\ On(f, n) = S
  /\ \A i \in 1 .. n : pv[f[i]] = IF i = 1 THEN h ELSE f[i - 1]
  /\ pv[h] = IF n = 0 THEN h ELSE f[n]

ListOK(h, S, nx, pv) == \E f, n : ListOf(h, S, nx, pv, f, n)
CachedOK(x, S, nx) == \E f, n : Path(f, n, x, nx, Nil) /\ On(f, n) = S

UsedPools(c) == {p \in Committed : szidx[p] = c /\ count[p] \in 1 .. capacity[p] - 1}
EmptyPools == {p \in Committed : count[p] = 0}

-----------------------------------------------------------------------------
(* The invariant *)

Held == {b.at : b \in live}

HeapType ==
  /\ mem = [a \in Cells |-> mem[a]]
  /\ count \in [Pools -> Nat] /\ capacity \in [Pools -> Nat]
  /\ freeblock = [p \in Pools |-> freeblock[p]]
  /\ szidx = [p \in Pools |-> szidx[p]]
  /\ nextpool = [x \in Nodes |-> nextpool[x]] /\ prevpool = [x \in Nodes |-> prevpool[x]]
  /\ arenacnt \in 0 .. MaxArenas /\ watermark \in 1 .. ArenaPools
  /\ arenacnt = 0 => watermark = ArenaPools
  /\ sys \subseteq SysAddresses

BlocksOK ==
  \A p \in Committed :
    /\ PoolOK(p, szidx[p], count[p], freeblock[p], mem, Held)
    /\ capacity[p] = Cap(szidx[p])

LinksOK ==
  /\ \A c \in Classes : ListOK(Header(c), UsedPools(c), nextpool, prevpool)
  /\ CachedOK(freepools, EmptyPools, nextpool)

\* A block that a caller holds lies in a block of its pool, or in one of the system.
Fits(b) ==
  IF InPool(b.at)
  THEN PoolOf(b.at) \in Committed /\ b.units <= BlockUnits(szidx[PoolOf(b.at)])
  ELSE b.at \in sys /\ b.units <= MaxUnits

Blocks == [owner : Callers, at : Cells, units : 1 .. MaxUnits, kept : 0 .. MaxUnits]

LiveOK ==
  /\ live \subseteq Blocks /\ IsFiniteSet(live)
  /\ \A b \in live : b.kept <= b.units /\ Fits(b)
  /\ \A b, c \in live : b.at = c.at => b = c

\* The blocks that the pr_realloc of t works on are its own, and it copies no more than
\* the new one holds.
ReallocOf(t) ==
  LET r == realloc[t] IN
  \/ r = Idle
  \/ /\ r.step = "malloc" /\ r.old \in live /\ r.old.owner = t
     /\ r.units \in 1 .. MaxUnits /\ r.size \in 1 .. r.units
  \/ /\ r.step = "copy" /\ {r.old, r.new} \subseteq live /\ r.old # r.new
     /\ r.old.owner = t /\ r.new.owner = t /\ r.size \in 1 .. r.new.units
  \/ r.step = "free" /\ r.old \in live /\ r.old.owner = t

ReallocOK == realloc = [t \in Callers |-> realloc[t]] /\ \A t \in Callers : ReallocOf(t)

HeapInv == HeapType /\ BlocksOK /\ LinksOK /\ LiveOK
AllocInv == HeapInv /\ DataIntact /\ ReallocOK

-----------------------------------------------------------------------------
(* Where things are *)

LEMMA Sizes ==
  /\ PoolUnits \in Nat \ {0} /\ MaxUnits \in Nat \ {0} /\ NClasses \in Nat \ {0}
  /\ NClasses <= MaxUnits /\ ArenaPools \in Nat \ {0} /\ MaxArenas \in Nat /\ SysBlocks \in Nat
  /\ PoolUnits >= 2 * NClasses
BY PrMallocAssumption

LEMMA NilFacts == Nil \notin Int /\ Nil \notin Callers /\ Junk # Nil
BY PrMallocAssumption

LEMMA ClassFacts ==
  ASSUME NEW c \in Classes
  PROVE  /\ c \in Nat /\ BlockUnits(c) \in Nat \ {0} /\ BlockUnits(c) = c + 1
         /\ BlockUnits(c) <= NClasses /\ 2 * BlockUnits(c) <= PoolUnits
         /\ Header(c) \in Nodes /\ Header(c) \in Int /\ Header(c) < 0 /\ c # Dummy
BY Sizes DEF Classes, BlockUnits, Header, Nodes, Dummy

LEMMA PoolFacts ==
  /\ ArenaPools * MaxArenas \in Nat
  /\ \A p \in Pools : p \in Nat /\ 1 <= p /\ p <= ArenaPools * MaxArenas /\ p # Nil /\ p \in Nodes
  /\ IsFiniteSet(Pools) /\ PoolCells = ArenaPools * MaxArenas * PoolUnits
  /\ PoolCells \in Nat
<1>1. ArenaPools * MaxArenas \in Nat
  BY Sizes
<1> DEFINE N == ArenaPools * MaxArenas
<1>2. N \in Nat
  BY <1>1
<1> HIDE DEF N
<1>3. IsFiniteSet(1 .. N) /\ Cardinality(1 .. N) = N
  BY <1>2, FS_Interval
<1>4. Pools = 1 .. N
  BY DEF Pools, N
<1>5. PoolCells = N * PoolUnits
  BY <1>3, <1>4 DEF PoolCells
<1>6. N * PoolUnits \in Nat
  BY <1>2, Sizes
<1> QED
  BY <1>2, <1>3, <1>4, <1>5, <1>6, NilFacts DEF N, Nodes

\* The units of pool p.
LEMMA PoolSpan ==
  ASSUME NEW p \in Pools, NEW j \in 0 .. PoolUnits - 1
  PROVE  /\ Start(p) \in Nat /\ Start(p) + j \in Cells /\ InPool(Start(p) + j)
         /\ PoolOf(Start(p) + j) = p
<1> DEFINE N == ArenaPools * MaxArenas
<1>1. p \in Nat /\ 1 <= p /\ p <= N /\ N \in Nat /\ PoolCells = N * PoolUnits /\ PoolUnits \in Nat \ {0}
  BY PoolFacts, Sizes
<1> HIDE DEF N
<1>2. p - 1 \in Int /\ Start(p) = (p - 1) * PoolUnits /\ Start(p) \in Nat
  BY <1>1 DEF Start
<1>3. p * PoolUnits <= N * PoolUnits
  BY <1>1, TimesMonotonic
<1>4. p * PoolUnits = Start(p) + PoolUnits
  BY <1>1, <1>2
<1>5. Start(p) + j \in Nat /\ Start(p) + j < PoolCells
  BY <1>1, <1>2, <1>3, <1>4
<1>6. SysBlocks * MaxUnits \in Nat
  BY Sizes
<1>7. Start(p) + j \in Cells
  BY <1>1, <1>5, <1>6, PoolFacts DEF Cells
<1>8. (PoolUnits * (p - 1) + j) \div PoolUnits = p - 1
  BY <1>1, <1>2, DivOf
<1>9. PoolUnits * (p - 1) + j = Start(p) + j
  BY <1>1, <1>2
<1>10. PoolOf(Start(p) + j) = p
  BY <1>1, <1>8, <1>9 DEF PoolOf
<1> QED
  BY <1>2, <1>5, <1>7, <1>10 DEF InPool

LEMMA CapFacts ==
  ASSUME NEW c \in Classes
  PROVE  /\ Cap(c) \in Nat /\ Cap(c) >= 2
         /\ \A i \in 0 .. Cap(c) - 1, j \in 0 .. c :
              i * BlockUnits(c) + j \in 0 .. PoolUnits - 1
<1> DEFINE u == BlockUnits(c)
<1>1. u \in Nat \ {0} /\ 2 * u <= PoolUnits /\ u = c + 1 /\ c \in Nat /\ PoolUnits \in Nat \ {0}
  BY ClassFacts, Sizes
<1> HIDE DEF u
<1> DEFINE q == PoolUnits \div u
           r == PoolUnits % u
<1>2. q \in Int /\ r \in 0 .. u - 1 /\ PoolUnits = u * q + r
  <2>1. PoolUnits \in Int
    BY <1>1
  <2>2. PoolUnits \div u \in Int /\ PoolUnits = u * (PoolUnits \div u) + (PoolUnits % u)
    BY <1>1, <2>1, DivMod
  <2>3. PoolUnits % u \in 0 .. u - 1
    BY <1>1, <2>1, ModRange
  <2> QED
    BY <2>2, <2>3
<1>0. Cap(c) = q
  BY DEF Cap, u
<1> HIDE DEF q, r
<1>3. q >= 2
  <2> SUFFICES ASSUME q <= 1 PROVE FALSE
    BY <1>2
  <2>1. q * u <= 1 * u
    BY <1>1, <1>2, TimesMonotonic
  <2>2. q * u = u * q
    BY <1>1, <1>2
  <2> QED
    BY <1>1, <1>2, <2>1, <2>2
<1>4. ASSUME NEW i \in 0 .. q - 1, NEW j \in 0 .. c
      PROVE  i * u + j \in 0 .. PoolUnits - 1
  <2>1. i + 1 <= q /\ i \in Nat
    BY <1>2
  <2>2. (i + 1) * u <= q * u
    BY <1>1, <1>2, <2>1, TimesMonotonic
  <2>3. (i + 1) * u = i * u + u /\ q * u = u * q /\ i * u \in Nat
    BY <1>1, <1>2, <2>1
  <2> QED
    BY <1>1, <1>2, <2>2, <2>3
<1> QED
  BY <1>0, <1>2, <1>3, <1>4 DEF u

\* Each block of a pool has units of its own: any unit of it tells its address.
LEMMA BlockSpan ==
  ASSUME NEW p \in Pools, NEW c \in Classes, NEW i \in 0 .. Cap(c) - 1, NEW j \in 0 .. c
  PROVE  LET a == Start(p) + i * BlockUnits(c) IN
         /\ a \in Cells /\ a + j \in Cells /\ InPool(a + j) /\ PoolOf(a + j) = p
         /\ InPool(a) /\ PoolOf(a) = p
         /\ ((a + j) - Start(p)) \div BlockUnits(c) = i
<1> DEFINE u == BlockUnits(c)
<1>1. u \in Nat \ {0} /\ u = c + 1 /\ c \in Nat /\ i \in Nat
  BY ClassFacts, CapFacts
<1>0. i * u + j \in 0 .. PoolUnits - 1 /\ i * u + 0 \in 0 .. PoolUnits - 1
  <2>1. 0 \in 0 .. c
    BY <1>1
  <2> QED
    BY <2>1, CapFacts
<1> HIDE DEF u
<1>2. i * u + j \in 0 .. PoolUnits - 1 /\ i * u + 0 \in 0 .. PoolUnits - 1 /\ i * u \in Nat
  BY <1>0, <1>1
<1>3. /\ Start(p) \in Nat /\ Start(p) + (i * u + j) \in Cells
      /\ InPool(Start(p) + (i * u + j)) /\ PoolOf(Start(p) + (i * u + j)) = p
      /\ Start(p) + (i * u + 0) \in Cells
      /\ InPool(Start(p) + (i * u + 0)) /\ PoolOf(Start(p) + (i * u + 0)) = p
  BY <1>2, PoolSpan
<1> DEFINE a == Start(p) + i * u
<1>4. a + j = Start(p) + (i * u + j) /\ a = Start(p) + (i * u + 0)
  BY <1>1, <1>2, <1>3
<1>5. (u * i + j) \div u = i
  BY <1>1, DivOf
<1>6. (a + j) - Start(p) = u * i + j
  BY <1>1, <1>2, <1>3
<1> QED
  BY <1>3, <1>4, <1>5, <1>6 DEF u

-----------------------------------------------------------------------------
(* Paths *)

Popped(f, n) == [i \in 1 .. n - 1 |-> f[i + 1]]
Pushed(f, n, a) == [i \in 1 .. n + 1 |-> IF i = 1 THEN a ELSE f[i - 1]]
Without(f, n, k) == [i \in 1 .. n - 1 |-> IF i < k THEN f[i] ELSE f[i + 1]]

LEMMA PathFrame ==
  ASSUME NEW f, NEW n, NEW x, NEW e, NEW nx, NEW nx2, Path(f, n, x, nx, e),
         \A y \in On(f, n) : nx2[y] = nx[y]
  PROVE  Path(f, n, x, nx2, e)
<1>1. \A i \in 1 .. n : nx2[f[i]] = nx[f[i]]
  BY DEF On
<1> QED
  BY <1>1 DEF Path

LEMMA OnPushed ==
  ASSUME NEW f, NEW n \in Nat, NEW a
  PROVE  On(Pushed(f, n, a), n + 1) = On(f, n) \union {a}
<1> DEFINE g == Pushed(f, n, a)
<1>1. g[1] = a /\ \A i \in 1 .. n : i + 1 \in 1 .. n + 1 /\ g[i + 1] = f[i]
  BY DEF Pushed
<1>2. \A i \in 1 .. n + 1 : i = 1 \/ (i - 1 \in 1 .. n /\ g[i] = f[i - 1])
  BY <1>1
<1> HIDE DEF g
<1>3. \A y : y \in On(g, n + 1) <=> y \in On(f, n) \union {a}
  BY <1>1, <1>2 DEF On
<1> QED
  BY <1>3 DEF g

LEMMA PathPush ==
  ASSUME NEW f, NEW n, NEW x, NEW e, NEW nx, NEW nx2, NEW a, Path(f, n, x, nx, e),
         a \notin On(f, n), a # e, nx2[a] = x, \A y \in On(f, n) : nx2[y] = nx[y]
  PROVE  /\ Path(Pushed(f, n, a), n + 1, a, nx2, e)
         /\ On(Pushed(f, n, a), n + 1) = On(f, n) \union {a}
<1> DEFINE g == Pushed(f, n, a)
<1>1. n \in Nat /\ x = (IF n = 0 THEN e ELSE f[1])
      /\ (\A i \in 1 .. n : f[i] # e /\ nx[f[i]] = IF i = n THEN e ELSE f[i + 1])
      /\ (\A i, j \in 1 .. n : f[i] = f[j] => i = j)
  BY DEF Path
<1>2. \A i \in 1 .. n : nx2[f[i]] = nx[f[i]] /\ f[i] # a
  BY DEF On
<1>3. g[1] = a /\ \A i \in 1 .. n : i + 1 \in 1 .. n + 1 /\ g[i + 1] = f[i]
  BY <1>1 DEF Pushed
<1>4. \A i \in 1 .. n + 1 : i = 1 \/ (i - 1 \in 1 .. n /\ g[i] = f[i - 1])
  BY <1>1, <1>3
<1>5. g = [i \in 1 .. n + 1 |-> g[i]]
  BY DEF Pushed
<1> HIDE DEF g
<1>6. \A i \in 1 .. n + 1 : g[i] # e /\ nx2[g[i]] = IF i = n + 1 THEN e ELSE g[i + 1]
  <2> SUFFICES ASSUME NEW i \in 1 .. n + 1
               PROVE  g[i] # e /\ nx2[g[i]] = IF i = n + 1 THEN e ELSE g[i + 1]
    OBVIOUS
  <2>1. CASE i = 1
    BY <1>1, <1>3, <2>1
  <2>2. CASE i # 1
    BY <1>1, <1>2, <1>3, <1>4, <2>2
  <2> QED
    BY <2>1, <2>2
<1>7. \A i, j \in 1 .. n + 1 : g[i] = g[j] => i = j
  BY <1>1, <1>2, <1>3, <1>4
<1>8. Path(g, n + 1, a, nx2, e)
  <2>1. n + 1 \in Nat /\ n + 1 # 0 /\ a = g[1]
    BY <1>1, <1>3
  <2> DEFINE m == n + 1
  <2> HIDE DEF m
  <2>2. Path(g, m, a, nx2, e)
    <3>1. m \in Nat /\ a = IF m = 0 THEN e ELSE g[1]
      BY <2>1 DEF m
    <3> QED
      BY <1>5, <1>6, <1>7, <3>1 DEF Path, m
  <2> QED
    BY <2>2 DEF m
<1>9. On(g, n + 1) = On(f, n) \union {a}
  BY <1>1, OnPushed DEF g
<1> QED
  BY <1>8, <1>9 DEF g

LEMMA PathPop ==
  ASSUME NEW f, NEW n, NEW x, NEW e, NEW nx, Path(f, n, x, nx, e), n # 0
  PROVE  /\ Path(Popped(f, n), n - 1, nx[x], nx, e)
         /\ On(Popped(f, n), n - 1) = On(f, n) \ {x}
         /\ x \in On(f, n) /\ x # e /\ (nx[x] = e <=> n = 1)
<1> DEFINE g == Popped(f, n)
<1>0. n \in Nat /\ x = (IF n = 0 THEN e ELSE f[1])
      /\ (\A i \in 1 .. n : f[i] # e /\ nx[f[i]] = IF i = n THEN e ELSE f[i + 1])
      /\ (\A i, j \in 1 .. n : f[i] = f[j] => i = j)
  BY DEF Path
<1>1. n \in Nat /\ x = f[1] /\ 1 \in 1 .. n /\ n - 1 \in Nat
      /\ (\A i \in 1 .. n : f[i] # e /\ nx[f[i]] = IF i = n THEN e ELSE f[i + 1])
      /\ (\A i, j \in 1 .. n : f[i] = f[j] => i = j)
  BY <1>0
<1>3. \A i \in 1 .. n - 1 : i + 1 \in 1 .. n /\ i + 1 # 1 /\ g[i] = f[i + 1]
  BY <1>1 DEF Popped
<1>4. \A i \in 1 .. n : i = 1 \/ (i - 1 \in 1 .. n - 1 /\ g[i - 1] = f[i])
  BY <1>1, <1>3
<1>5. g = [i \in 1 .. n - 1 |-> g[i]]
  BY DEF Popped
<1> HIDE DEF g
<1>6. \A i \in 1 .. n - 1 : g[i] # e /\ nx[g[i]] = IF i = n - 1 THEN e ELSE g[i + 1]
  BY <1>1, <1>3
<1>7. \A i, j \in 1 .. n - 1 : g[i] = g[j] => i = j
  BY <1>1, <1>3
<1>2. nx[x] = IF n - 1 = 0 THEN e ELSE g[1]
  BY <1>1, <1>3
<1>8. Path(g, n - 1, nx[x], nx, e)
  BY <1>1, <1>2, <1>5, <1>6, <1>7 DEF Path
<1>9. \A y : y \in On(g, n - 1) <=> y \in On(f, n) \ {x}
  <2>1. \A y : y \in On(g, n - 1) => y \in On(f, n) /\ y # x
    BY <1>1, <1>3 DEF On
  <2>2. \A y : y \in On(f, n) /\ y # x => y \in On(g, n - 1)
    BY <1>1, <1>4 DEF On
  <2> QED
    BY <2>1, <2>2
<1>10. x # e /\ x \in On(f, n) /\ (nx[x] = e <=> n = 1)
  BY <1>1 DEF On
<1> QED
  BY <1>8, <1>9, <1>10 DEF g

\* A path without its k-th node, which the node before it now leads past.
LEMMA PathCut ==
  ASSUME NEW f, NEW n, NEW x, NEW e, NEW nx, NEW nx2, NEW x2, Path(f, n, x, nx, e),
         NEW k \in 1 .. n,
         x2 = IF k = 1 THEN nx[f[k]] ELSE x,
         \A i \in 1 .. n : i # k => nx2[f[i]] = IF i + 1 = k THEN nx[f[k]] ELSE nx[f[i]]
  PROVE  /\ Path(Without(f, n, k), n - 1, x2, nx2, e)
         /\ On(Without(f, n, k), n - 1) = On(f, n) \ {f[k]}
<1> DEFINE g == Without(f, n, k)
<1>0. n \in Nat /\ x = (IF n = 0 THEN e ELSE f[1])
      /\ (\A i \in 1 .. n : f[i] # e /\ nx[f[i]] = IF i = n THEN e ELSE f[i + 1])
      /\ (\A i, j \in 1 .. n : f[i] = f[j] => i = j)
  BY DEF Path
<1>1. n \in Nat /\ x = f[1] /\ 1 \in 1 .. n /\ n - 1 \in Nat
      /\ (\A i \in 1 .. n : f[i] # e /\ nx[f[i]] = IF i = n THEN e ELSE f[i + 1])
      /\ (\A i, j \in 1 .. n : f[i] = f[j] => i = j)
  BY <1>0
<1>3. \A i \in 1 .. n - 1 : g[i] = IF i < k THEN f[i] ELSE f[i + 1]
  BY <1>1 DEF Without
<1>4. \A i \in 1 .. n : \/ i = k \/ (i < k /\ i \in 1 .. n - 1 /\ g[i] = f[i])
                        \/ (i > k /\ i - 1 \in 1 .. n - 1 /\ g[i - 1] = f[i])
  BY <1>1, <1>3
<1>5. g = [i \in 1 .. n - 1 |-> g[i]]
  BY DEF Without
<1> HIDE DEF g
<1>6. \A i \in 1 .. n - 1 : g[i] # e /\ nx2[g[i]] = IF i = n - 1 THEN e ELSE g[i + 1]
  <2> SUFFICES ASSUME NEW i \in 1 .. n - 1
               PROVE  g[i] # e /\ nx2[g[i]] = IF i = n - 1 THEN e ELSE g[i + 1]
    OBVIOUS
  <2>0. i \in 1 .. n /\ i + 1 \in 1 .. n
    BY <1>1
  <2>1. CASE i + 1 < k
    BY <1>1, <1>3, <2>0, <2>1
  <2>2. CASE i + 1 = k
    <3>1. g[i] = f[i] /\ nx2[f[i]] = nx[f[k]]
      BY <1>1, <1>3, <2>0, <2>2
    <3>2. nx[f[k]] = IF k = n THEN e ELSE f[k + 1]
      BY <1>1
    <3>3. k # n => g[i + 1] = f[k + 1]
      BY <1>1, <1>3, <2>0, <2>2
    <3> QED
      BY <1>1, <2>0, <2>2, <3>1, <3>2, <3>3
  <2>3. CASE i >= k
    <3>1. g[i] = f[i + 1] /\ nx2[f[i + 1]] = nx[f[i + 1]]
      BY <1>1, <1>3, <2>0, <2>3
    <3>2. nx[f[i + 1]] = IF i + 1 = n THEN e ELSE f[(i + 1) + 1]
      BY <1>1, <2>0
    <3>3. i + 1 # n => g[i + 1] = f[(i + 1) + 1]
      BY <1>1, <1>3, <2>0, <2>3
    <3> QED
      BY <1>1, <2>0, <2>3, <3>1, <3>2, <3>3
  <2> QED
    BY <2>0, <2>1, <2>2, <2>3
<1>7. \A i, j \in 1 .. n - 1 : g[i] = g[j] => i = j
  BY <1>1, <1>3
<1>2. x2 = IF n - 1 = 0 THEN e ELSE g[1]
  <2>1. CASE k = 1
    BY <1>1, <1>3, <2>1
  <2>2. CASE k # 1
    BY <1>1, <1>3, <2>2
  <2> QED
    BY <2>1, <2>2
<1>8. Path(g, n - 1, x2, nx2, e)
  BY <1>1, <1>2, <1>5, <1>6, <1>7 DEF Path
<1>9. \A y : y \in On(g, n - 1) <=> y \in On(f, n) \ {f[k]}
  <2>1. \A i \in 1 .. n - 1 : \E j \in 1 .. n : j # k /\ g[i] = f[j]
    <3> SUFFICES ASSUME NEW i \in 1 .. n - 1 PROVE \E j \in 1 .. n : j # k /\ g[i] = f[j]
      OBVIOUS
    <3>1. i \in 1 .. n /\ i + 1 \in 1 .. n
      BY <1>1
    <3> QED
      BY <1>3, <3>1
  <2>2. \A y : y \in On(g, n - 1) => y \in On(f, n) /\ y # f[k]
    BY <1>1, <2>1 DEF On
  <2>3. \A y : y \in On(f, n) /\ y # f[k] => y \in On(g, n - 1)
    BY <1>4 DEF On
  <2> QED
    BY <2>2, <2>3
<1> QED
  BY <1>8, <1>9 DEF g

-----------------------------------------------------------------------------
(* One pool: what allocating and freeing a block do to it *)

LEMMA CutFacts ==
  ASSUME NEW p \in Pools, NEW c \in Classes
  PROVE  /\ \A k \in 0 .. Cap(c) : Cut(p, c, k) \subseteq Cut(p, c, Cap(c)) /\ IsFiniteSet(Cut(p, c, k))
         /\ \A a \in Cut(p, c, Cap(c)) : a \in Cells /\ a \in Int /\ a # Nil /\ InPool(a) /\ PoolOf(a) = p
<1>0. Cap(c) \in Nat /\ c \in Nat
  BY CapFacts, ClassFacts
<1>1. ASSUME NEW a \in Cut(p, c, Cap(c))
      PROVE  a \in Cells /\ a \in Int /\ a # Nil /\ InPool(a) /\ PoolOf(a) = p
  <2>1. PICK i \in 0 .. Cap(c) - 1 : a = Start(p) + i * BlockUnits(c)
    BY DEF Cut
  <2>2. 0 \in 0 .. c
    BY <1>0
  <2>3. a \in Cells /\ InPool(a) /\ PoolOf(a) = p
    BY <2>1, <2>2, BlockSpan
  <2> QED
    BY <2>3, NilFacts DEF Cells
<1>2. PoolCells + SysBlocks * MaxUnits - 1 \in Int
  BY Sizes, PoolFacts
<1>3. IsFiniteSet(Cells)
  BY <1>2, FS_Interval DEF Cells
<1>4. ASSUME NEW k \in 0 .. Cap(c)
      PROVE  Cut(p, c, k) \subseteq Cut(p, c, Cap(c))
  <2>1. 0 .. k - 1 \subseteq 0 .. Cap(c) - 1
    BY <1>0
  <2> QED
    BY <2>1 DEF Cut
<1>5. \A k \in 0 .. Cap(c) : Cut(p, c, k) \in SUBSET Cells
  BY <1>1, <1>4
<1> QED
  BY <1>1, <1>3, <1>4, <1>5, FS_Subset

LEMMA PoolShape ==
  ASSUME NEW p \in Pools, NEW c \in Classes, NEW k \in Nat, NEW H, NEW f, NEW n \in Nat,
         FreeList(p, c, k, H, f, n)
  PROVE  /\ IsFiniteSet(HeldIn(p, H))
         /\ HeldIn(p, H) \union On(f, n) \subseteq Cut(p, c, Cap(c))
         /\ On(f, n) \intersect H = {}
<1>1. k + n \in 0 .. Cap(c)
  BY DEF FreeList
<1>2. HeldIn(p, H) \union On(f, n) = Cut(p, c, k + n) /\ HeldIn(p, H) \intersect On(f, n) = {}
  BY DEF FreeList
<1>3. Cut(p, c, k + n) \subseteq Cut(p, c, Cap(c)) /\ IsFiniteSet(Cut(p, c, k + n))
  BY <1>1, CutFacts
<1>4. IsFiniteSet(HeldIn(p, H))
  BY <1>2, <1>3, FS_Subset
<1>5. \A a \in On(f, n) : InPool(a) /\ PoolOf(a) = p
  BY <1>2, <1>3, CutFacts
<1>6. On(f, n) \intersect H = {}
  BY <1>2, <1>5 DEF HeldIn
<1> QED
  BY <1>2, <1>3, <1>4, <1>6

LEMMA HeldAdd ==
  ASSUME NEW p, NEW H, NEW a, IsFiniteSet(HeldIn(p, H)), a \notin H, InPool(a), PoolOf(a) = p
  PROVE  /\ HeldIn(p, H \union {a}) = HeldIn(p, H) \union {a}
         /\ Cardinality(HeldIn(p, H \union {a})) = Cardinality(HeldIn(p, H)) + 1
<1>1. HeldIn(p, H \union {a}) = HeldIn(p, H) \union {a} /\ a \notin HeldIn(p, H)
  BY DEF HeldIn
<1> QED
  BY <1>1, FS_AddElement

LEMMA HeldRemove ==
  ASSUME NEW p, NEW H, NEW a, IsFiniteSet(HeldIn(p, H)), a \in HeldIn(p, H)
  PROVE  /\ HeldIn(p, H \ {a}) = HeldIn(p, H) \ {a}
         /\ Cardinality(HeldIn(p, H \ {a})) = Cardinality(HeldIn(p, H)) - 1
         /\ Cardinality(HeldIn(p, H)) > 0
<1>1. HeldIn(p, H \ {a}) = HeldIn(p, H) \ {a}
  BY DEF HeldIn
<1>2. Cardinality(HeldIn(p, H) \ {a}) = Cardinality(HeldIn(p, H)) - 1
  BY FS_RemoveElement
<1> DEFINE n == Cardinality(HeldIn(p, H))
<1>3. n \in Nat /\ n # 0
  BY FS_CardinalityType, FS_EmptySet
<1>4. n > 0
  BY <1>3
<1> QED
  BY <1>1, <1>2, <1>4

LEMMA PoolFrame ==
  ASSUME NEW p \in Pools, NEW c, NEW k, NEW first, NEW m, NEW H, NEW m2, NEW H2,
         PoolOK(p, c, k, first, m, H), HeldIn(p, H2) = HeldIn(p, H),
         \A x \in Cut(p, c, Cap(c)) : x \notin H => m2[x] = m[x]
  PROVE  PoolOK(p, c, k, first, m2, H2)
<1>1. /\ c \in Classes /\ k \in Nat /\ Cardinality(HeldIn(p, H)) = k
      /\ \E f, n : Path(f, n, first, m, Nil) /\ FreeList(p, c, k, H, f, n)
  BY DEF PoolOK
<1>2. PICK f, n : Path(f, n, first, m, Nil) /\ FreeList(p, c, k, H, f, n)
  BY <1>1
<1>3. n \in Nat
  BY <1>2 DEF Path
<1>4. \A x \in On(f, n) : m2[x] = m[x]
  BY <1>1, <1>2, <1>3, PoolShape
<1>5. Path(f, n, first, m2, Nil)
  BY <1>2, <1>4, PathFrame
<1>6. FreeList(p, c, k, H2, f, n)
  BY <1>2 DEF FreeList
<1> QED
  BY <1>1, <1>5, <1>6 DEF PoolOK

\* The first free block of a pool that is not full.
LEMMA PoolFirst ==
  ASSUME NEW p \in Pools, NEW c, NEW k, NEW first, NEW m, NEW H,
         PoolOK(p, c, k, first, m, H), k # Cap(c)
  PROVE  /\ c \in Classes /\ k \in Nat /\ k + 1 <= Cap(c)
         /\ first \in Cut(p, c, Cap(c)) /\ first \notin H /\ first # Nil
         /\ k = 0 => m[first] # Nil
<1>1. c \in Classes /\ k \in Nat
  BY DEF PoolOK
<1>2. PICK f, n : Path(f, n, first, m, Nil) /\ FreeList(p, c, k, H, f, n)
  BY DEF PoolOK
<1>3. n \in Nat /\ n # 0 /\ k + n \in 2 .. Cap(c) /\ Cap(c) \in Nat
  BY <1>1, <1>2, CapFacts DEF Path, FreeList
<1>4. first \in On(f, n) /\ first # Nil /\ (m[first] = Nil <=> n = 1)
  BY <1>2, <1>3, PathPop
<1>5. HeldIn(p, H) \union On(f, n) \subseteq Cut(p, c, Cap(c)) /\ On(f, n) \intersect H = {}
  BY <1>1, <1>2, <1>3, PoolShape
<1>6. k = 0 => n # 1
  BY <1>3
<1>7. k + 1 <= Cap(c)
  BY <1>1, <1>3
<1> QED
  BY <1>1, <1>4, <1>5, <1>6, <1>7

LEMMA CutNext ==
  ASSUME NEW p \in Pools, NEW c \in Classes, NEW k \in Nat, k + 1 <= Cap(c)
  PROVE  /\ Cut(p, c, k + 1) = Cut(p, c, k) \union {Start(p) + k * BlockUnits(c)}
         /\ Start(p) + k * BlockUnits(c) \notin Cut(p, c, k)
<1> DEFINE at(i) == Start(p) + i * BlockUnits(c)
<1>0. Cap(c) \in Nat /\ c \in Nat /\ 0 \in 0 .. c
  BY CapFacts, ClassFacts
<1>1. \A i \in 0 .. Cap(c) - 1 : at(i) \in Int /\ (at(i) - Start(p)) \div BlockUnits(c) = i
  <2> SUFFICES ASSUME NEW i \in 0 .. Cap(c) - 1
               PROVE  at(i) \in Int /\ (at(i) - Start(p)) \div BlockUnits(c) = i
    OBVIOUS
  <2>1. at(i) \in Cells /\ ((at(i) + 0) - Start(p)) \div BlockUnits(c) = i
    BY <1>0, BlockSpan
  <2>2. at(i) \in Int /\ at(i) + 0 = at(i)
    BY <2>1 DEF Cells
  <2> QED
    BY <2>1, <2>2
<1>2. \A j : Cut(p, c, j) = {at(i) : i \in 0 .. j - 1}
  BY DEF Cut
<1> HIDE DEF at
<1>3. \A i \in 0 .. (k + 1) - 1 : i \in 0 .. k - 1 \/ i = k
  OBVIOUS
<1>4. \A i \in 0 .. k - 1 : i \in 0 .. (k + 1) - 1 /\ i \in 0 .. Cap(c) - 1 /\ i # k
  BY <1>0
<1>5. k \in 0 .. (k + 1) - 1 /\ k \in 0 .. Cap(c) - 1
  BY <1>0
<1>6. \A y : y \in Cut(p, c, k + 1) <=> y \in Cut(p, c, k) \union {at(k)}
  BY <1>2, <1>3, <1>4, <1>5
<1>7. at(k) \notin Cut(p, c, k)
  BY <1>1, <1>2, <1>4, <1>5
<1> QED
  BY <1>6, <1>7 DEF at

LEMMA PoolTake ==
  ASSUME NEW p \in Pools, NEW c, NEW k, NEW first, NEW m, NEW H,
         PoolOK(p, c, k, first, m, H), k # Cap(c), m[first] # Nil
  PROVE  PoolOK(p, c, k + 1, m[first], m, H \union {first}) /\ k + 1 < Cap(c)
<1>1. c \in Classes /\ k \in Nat /\ Cardinality(HeldIn(p, H)) = k
  BY DEF PoolOK
<1>2. PICK f, n : Path(f, n, first, m, Nil) /\ FreeList(p, c, k, H, f, n)
  BY DEF PoolOK
<1>3. n \in Nat /\ n # 0 /\ k + n \in 2 .. Cap(c) /\ Cap(c) \in Nat
  BY <1>1, <1>2, CapFacts DEF Path, FreeList
<1>4. HeldIn(p, H) \union On(f, n) = Cut(p, c, k + n) /\ HeldIn(p, H) \intersect On(f, n) = {}
  BY <1>2 DEF FreeList
<1>5. first \in Cut(p, c, Cap(c)) /\ first \notin H
  BY PoolFirst
<1>6. InPool(first) /\ PoolOf(first) = p
  BY <1>1, <1>5, CutFacts
<1>7. IsFiniteSet(HeldIn(p, H))
  BY <1>1, <1>2, <1>3, PoolShape
<1>8. /\ HeldIn(p, H \union {first}) = HeldIn(p, H) \union {first}
      /\ Cardinality(HeldIn(p, H \union {first})) = k + 1
  BY <1>1, <1>5, <1>6, <1>7, HeldAdd
<1> DEFINE g == Popped(f, n)
<1>9. /\ Path(g, n - 1, m[first], m, Nil) /\ On(g, n - 1) = On(f, n) \ {first}
      /\ first \in On(f, n) /\ n # 1
  BY <1>2, <1>3, PathPop
<1> HIDE DEF g
<1>10. n - 1 \in Nat /\ n - 1 # 0 /\ (k + 1) + (n - 1) = k + n /\ k + 1 < Cap(c) /\ k + 1 \in Nat
  BY <1>1, <1>3, <1>9
<1>11. FreeList(p, c, k + 1, H \union {first}, g, n - 1)
  <2>1. HeldIn(p, H \union {first}) \union On(g, n - 1) = Cut(p, c, k + n)
    BY <1>4, <1>8, <1>9
  <2>2. HeldIn(p, H \union {first}) \intersect On(g, n - 1) = {}
    BY <1>4, <1>8, <1>9
  <2> QED
    BY <1>3, <1>10, <2>1, <2>2 DEF FreeList
<1> QED
  BY <1>1, <1>8, <1>9, <1>10, <1>11 DEF PoolOK

\* The list of one block: the one that a pool is cut next.
LEMMA PathOne ==
  ASSUME NEW a, NEW m, a # Nil, m[a] = Nil
  PROVE  Path([i \in 1 .. 1 |-> a], 1, a, m, Nil) /\ On([i \in 1 .. 1 |-> a], 1) = {a}
<1> DEFINE f == [i \in 1 .. 1 |-> a]
<1>1. \A i \in 1 .. 1 : i = 1
  OBVIOUS
<1>2. 1 \in 1 .. 1 /\ f[1] = a /\ f = [i \in 1 .. 1 |-> f[i]]
  OBVIOUS
<1> HIDE DEF f
<1>3. Path(f, 1, a, m, Nil)
  BY <1>1, <1>2 DEF Path
<1>4. On(f, 1) = {a}
  BY <1>1, <1>2 DEF On
<1> QED
  BY <1>3, <1>4 DEF f

LEMMA PoolExtend ==
  ASSUME NEW p \in Pools, NEW c, NEW k, NEW first, NEW m, NEW H, NEW m2, NEW new,
         PoolOK(p, c, k, first, m, H), k # Cap(c), m[first] = Nil, k + 1 < Cap(c),
         new = Start(p) + (k + 1) * BlockUnits(c), m2[new] = Nil
  PROVE  /\ PoolOK(p, c, k + 1, new, m2, H \union {first})
         /\ new \in Cut(p, c, Cap(c)) /\ new \notin H
<1>1. c \in Classes /\ k \in Nat /\ Cardinality(HeldIn(p, H)) = k
  BY DEF PoolOK
<1>2. PICK f, n : Path(f, n, first, m, Nil) /\ FreeList(p, c, k, H, f, n)
  BY DEF PoolOK
<1>3. n \in Nat /\ n # 0 /\ k + n \in 2 .. Cap(c) /\ Cap(c) \in Nat
  BY <1>1, <1>2, CapFacts DEF Path, FreeList
<1>4. HeldIn(p, H) \union On(f, n) = Cut(p, c, k + n) /\ HeldIn(p, H) \intersect On(f, n) = {}
  BY <1>2 DEF FreeList
<1>5. first \in Cut(p, c, Cap(c)) /\ first \notin H
  BY PoolFirst
<1>6. InPool(first) /\ PoolOf(first) = p
  BY <1>1, <1>5, CutFacts
<1>7. IsFiniteSet(HeldIn(p, H))
  BY <1>1, <1>2, <1>3, PoolShape
<1>8. /\ HeldIn(p, H \union {first}) = HeldIn(p, H) \union {first}
      /\ Cardinality(HeldIn(p, H \union {first})) = k + 1
  BY <1>1, <1>5, <1>6, <1>7, HeldAdd
<1>9. n = 1 /\ On(f, n) \ {first} = {} /\ first \in On(f, n)
  <2>1. n = 1 /\ first \in On(f, n) /\ On(Popped(f, n), n - 1) = On(f, n) \ {first}
    BY <1>2, <1>3, PathPop
  <2>2. On(Popped(f, n), 0) = {}
    BY DEF On
  <2> QED
    BY <2>1, <2>2
<1>10. HeldIn(p, H \union {first}) = Cut(p, c, k + 1)
  BY <1>4, <1>8, <1>9
<1>11. /\ Cut(p, c, (k + 1) + 1) = Cut(p, c, k + 1) \union {new} /\ new \notin Cut(p, c, k + 1)
  <2>1. k + 1 \in Nat /\ (k + 1) + 1 <= Cap(c)
    BY <1>1, <1>3
  <2> QED
    BY <1>1, <2>1, CutNext
<1>12. new \in Cut(p, c, Cap(c)) /\ InPool(new) /\ PoolOf(new) = p /\ new # Nil
  <2>1. (k + 1) + 1 \in 0 .. Cap(c)
    BY <1>1, <1>3
  <2> QED
    BY <1>1, <1>11, <2>1, CutFacts
<1>13. new \notin H
  BY <1>8, <1>10, <1>11, <1>12 DEF HeldIn
<1> DEFINE g == [i \in 1 .. 1 |-> new]
<1>14. Path(g, 1, new, m2, Nil) /\ On(g, 1) = {new}
  BY <1>12, PathOne
<1> HIDE DEF g
<1>15. FreeList(p, c, k + 1, H \union {first}, g, 1)
  <2>1. (k + 1) + 1 \in 2 .. Cap(c) /\ 1 # 0
    BY <1>1, <1>3
  <2> QED
    BY <1>10, <1>11, <1>14, <2>1 DEF FreeList
<1>16. k + 1 \in Nat
  BY <1>1
<1> QED
  BY <1>1, <1>8, <1>12, <1>13, <1>14, <1>15, <1>16 DEF PoolOK

LEMMA PoolLast ==
  ASSUME NEW p \in Pools, NEW c, NEW k, NEW first, NEW m, NEW H,
         PoolOK(p, c, k, first, m, H), k # Cap(c), m[first] = Nil, ~(k + 1 < Cap(c))
  PROVE  PoolOK(p, c, k + 1, Nil, m, H \union {first}) /\ k + 1 = Cap(c)
<1>1. c \in Classes /\ k \in Nat /\ Cardinality(HeldIn(p, H)) = k
  BY DEF PoolOK
<1>2. PICK f, n : Path(f, n, first, m, Nil) /\ FreeList(p, c, k, H, f, n)
  BY DEF PoolOK
<1>3. n \in Nat /\ n # 0 /\ k + n \in 2 .. Cap(c) /\ Cap(c) \in Nat
  BY <1>1, <1>2, CapFacts DEF Path, FreeList
<1>4. HeldIn(p, H) \union On(f, n) = Cut(p, c, k + n) /\ HeldIn(p, H) \intersect On(f, n) = {}
  BY <1>2 DEF FreeList
<1>5. first \in Cut(p, c, Cap(c)) /\ first \notin H
  BY PoolFirst
<1>6. InPool(first) /\ PoolOf(first) = p
  BY <1>1, <1>5, CutFacts
<1>7. IsFiniteSet(HeldIn(p, H))
  BY <1>1, <1>2, <1>3, PoolShape
<1>8. /\ HeldIn(p, H \union {first}) = HeldIn(p, H) \union {first}
      /\ Cardinality(HeldIn(p, H \union {first})) = k + 1
  BY <1>1, <1>5, <1>6, <1>7, HeldAdd
<1> DEFINE g == Popped(f, n)
<1>9. /\ Path(g, n - 1, m[first], m, Nil) /\ On(g, n - 1) = On(f, n) \ {first}
      /\ first \in On(f, n) /\ n = 1
  BY <1>2, <1>3, PathPop
<1> HIDE DEF g
<1>10. n - 1 = 0 /\ (k + 1) + 0 = k + n /\ k + 1 = Cap(c) /\ k + 1 \in Nat
  BY <1>1, <1>3, <1>9
<1>11. FreeList(p, c, k + 1, H \union {first}, g, 0)
  <2>1. HeldIn(p, H \union {first}) \union On(g, 0) = Cut(p, c, k + n)
    BY <1>4, <1>8, <1>9, <1>10
  <2>2. HeldIn(p, H \union {first}) \intersect On(g, 0) = {}
    BY <1>4, <1>8, <1>9, <1>10
  <2> QED
    BY <1>3, <1>10, <2>1, <2>2 DEF FreeList
<1>12. Path(g, 0, Nil, m, Nil)
  BY <1>9, <1>10
<1> QED
  BY <1>1, <1>8, <1>10, <1>11, <1>12 DEF PoolOK

LEMMA PoolFresh ==
  ASSUME NEW p \in Pools, NEW c \in Classes, NEW m, NEW H, NEW new,
         HeldIn(p, H) = {}, new = Start(p) + BlockUnits(c), m[new] = Nil
  PROVE  /\ PoolOK(p, c, 1, new, m, H \union {Start(p)}) /\ Cap(c) >= 2
         /\ Start(p) \in Cut(p, c, Cap(c)) /\ Start(p) \notin H
         /\ new \in Cut(p, c, Cap(c))
<1>1. Cap(c) \in Nat /\ Cap(c) >= 2 /\ BlockUnits(c) \in Nat /\ Start(p) \in Int
  BY CapFacts, ClassFacts, PoolFacts, Sizes DEF Start
<1>2. /\ Cut(p, c, 0 + 1) = Cut(p, c, 0) \union {Start(p) + 0 * BlockUnits(c)}
      /\ Cut(p, c, 1 + 1) = Cut(p, c, 1) \union {Start(p) + 1 * BlockUnits(c)}
      /\ Start(p) + 1 * BlockUnits(c) \notin Cut(p, c, 1)
  BY <1>1, CutNext
<1>3. Cut(p, c, 0) = {}
  BY DEF Cut
<1>4. Start(p) + 0 * BlockUnits(c) = Start(p) /\ Start(p) + 1 * BlockUnits(c) = new
  BY <1>1
<1>5. Cut(p, c, 1) = {Start(p)} /\ Cut(p, c, 2) = {Start(p), new} /\ new # Start(p)
  BY <1>2, <1>3, <1>4
<1>6. 1 \in 0 .. Cap(c) /\ 2 \in 0 .. Cap(c)
  BY <1>1
<1>7. Cut(p, c, 1) \subseteq Cut(p, c, Cap(c)) /\ Cut(p, c, 2) \subseteq Cut(p, c, Cap(c))
  BY <1>6, CutFacts
<1>8. /\ Start(p) \in Cut(p, c, Cap(c)) /\ new \in Cut(p, c, Cap(c))
      /\ InPool(Start(p)) /\ PoolOf(Start(p)) = p /\ new # Nil
  BY <1>5, <1>7, CutFacts
<1>9. Start(p) \notin H
  BY <1>8 DEF HeldIn
<1>10. /\ HeldIn(p, H \union {Start(p)}) = {Start(p)}
       /\ Cardinality(HeldIn(p, H \union {Start(p)})) = 1
  <2>1. IsFiniteSet(HeldIn(p, H)) /\ Cardinality(HeldIn(p, H)) = 0
    BY FS_EmptySet
  <2>2. /\ HeldIn(p, H \union {Start(p)}) = HeldIn(p, H) \union {Start(p)}
        /\ Cardinality(HeldIn(p, H \union {Start(p)})) = Cardinality(HeldIn(p, H)) + 1
    BY <1>8, <1>9, <2>1, HeldAdd
  <2> QED
    BY <2>1, <2>2
<1> DEFINE g == [i \in 1 .. 1 |-> new]
<1>11. Path(g, 1, new, m, Nil) /\ On(g, 1) = {new}
  BY <1>8, PathOne
<1> HIDE DEF g
<1>12. FreeList(p, c, 1, H \union {Start(p)}, g, 1)
  <2>1. 1 + 1 \in 2 .. Cap(c) /\ 1 + 1 = 2 /\ 1 # 0
    BY <1>1
  <2>2. HeldIn(p, H \union {Start(p)}) \union On(g, 1) = Cut(p, c, 1 + 1)
    BY <1>5, <1>10, <1>11, <2>1
  <2>3. HeldIn(p, H \union {Start(p)}) \intersect On(g, 1) = {}
    BY <1>5, <1>10, <1>11
  <2> QED
    BY <2>1, <2>2, <2>3 DEF FreeList
<1> QED
  BY <1>1, <1>8, <1>9, <1>10, <1>11, <1>12 DEF PoolOK

LEMMA PoolRelease ==
  ASSUME NEW p \in Pools, NEW c, NEW k, NEW first, NEW m, NEW H, NEW m2, NEW a,
         PoolOK(p, c, k, first, m, H), a \in HeldIn(p, H), m2[a] = first,
         \A x \in Cut(p, c, Cap(c)) : x \notin H => m2[x] = m[x]
  PROVE  PoolOK(p, c, k - 1, a, m2, H \ {a}) /\ k \in Nat /\ k > 0 /\ k <= Cap(c)
<1>1. c \in Classes /\ k \in Nat /\ Cardinality(HeldIn(p, H)) = k
  BY DEF PoolOK
<1>2. PICK f, n : Path(f, n, first, m, Nil) /\ FreeList(p, c, k, H, f, n)
  BY DEF PoolOK
<1>3. n \in Nat /\ k + n \in 2 .. Cap(c) /\ Cap(c) \in Nat
  BY <1>1, <1>2, CapFacts DEF Path, FreeList
<1>4. HeldIn(p, H) \union On(f, n) = Cut(p, c, k + n) /\ HeldIn(p, H) \intersect On(f, n) = {}
  BY <1>2 DEF FreeList
<1>5. IsFiniteSet(HeldIn(p, H)) /\ HeldIn(p, H) \union On(f, n) \subseteq Cut(p, c, Cap(c))
      /\ On(f, n) \intersect H = {}
  BY <1>1, <1>2, <1>3, PoolShape
<1>6. /\ HeldIn(p, H \ {a}) = HeldIn(p, H) \ {a}
      /\ Cardinality(HeldIn(p, H \ {a})) = k - 1 /\ k > 0
  BY <1>1, <1>5, HeldRemove
<1>7. a \notin On(f, n) /\ a # Nil
  BY <1>1, <1>4, <1>5, CutFacts
<1>8. \A x \in On(f, n) : m2[x] = m[x]
  BY <1>5
<1> DEFINE g == Pushed(f, n, a)
<1>9. Path(g, n + 1, a, m2, Nil) /\ On(g, n + 1) = On(f, n) \union {a}
  BY <1>2, <1>7, <1>8, PathPush
<1> HIDE DEF g
<1>10. (k - 1) + (n + 1) = k + n /\ n + 1 # 0 /\ n + 1 \in Nat /\ k - 1 \in Nat /\ k <= Cap(c)
  BY <1>1, <1>3, <1>6
<1>11. FreeList(p, c, k - 1, H \ {a}, g, n + 1)
  <2>1. HeldIn(p, H \ {a}) \union On(g, n + 1) = Cut(p, c, k + n)
    BY <1>4, <1>6, <1>9
  <2>2. HeldIn(p, H \ {a}) \intersect On(g, n + 1) = {}
    BY <1>4, <1>6, <1>9
  <2> QED
    BY <1>3, <1>10, <2>1, <2>2 DEF FreeList
<1> QED
  BY <1>1, <1>6, <1>9, <1>10, <1>11 DEF PoolOK

-----------------------------------------------------------------------------
(* The lists of pools: linking and unlinking one *)

LEMMA ListFrame ==
  ASSUME NEW h, NEW S, NEW nx, NEW pv, NEW nx2, NEW pv2, ListOK(h, S, nx, pv),
         \A y \in S \union {h} : nx2[y] = nx[y] /\ pv2[y] = pv[y]
  PROVE  ListOK(h, S, nx2, pv2)
<1>1. PICK f, n : ListOf(h, S, nx, pv, f, n)
  BY DEF ListOK
<1>2. /\ Path(f, n, nx[h], nx, h) /\ On(f, n) = S /\ pv[h] = (IF n = 0 THEN h ELSE f[n])
      /\ \A i \in 1 .. n : pv[f[i]] = IF i = 1 THEN h ELSE f[i - 1]
  BY <1>1 DEF ListOf
<1>3. Path(f, n, nx2[h], nx2, h)
  BY <1>2, PathFrame
<1>4. \A i \in 1 .. n : f[i] \in S
  BY <1>2 DEF On
<1>5. ListOf(h, S, nx2, pv2, f, n)
  BY <1>2, <1>3, <1>4 DEF ListOf
<1> QED
  BY <1>5 DEF ListOK

\* The header's neighbour: in front of it is the header.
LEMMA ListHead ==
  ASSUME NEW h, NEW S, NEW nx, NEW pv, ListOK(h, S, nx, pv)
  PROVE  /\ h \notin S /\ pv[nx[h]] = h /\ nx[h] \in S \union {h}
         /\ nx[h] = h <=> S = {}
<1>1. PICK f, n : ListOf(h, S, nx, pv, f, n)
  BY DEF ListOK
<1>2. /\ Path(f, n, nx[h], nx, h) /\ On(f, n) = S /\ pv[h] = (IF n = 0 THEN h ELSE f[n])
      /\ \A i \in 1 .. n : pv[f[i]] = IF i = 1 THEN h ELSE f[i - 1]
  BY <1>1 DEF ListOf
<1>3. /\ n \in Nat /\ nx[h] = (IF n = 0 THEN h ELSE f[1]) /\ \A i \in 1 .. n : f[i] # h
  BY <1>2 DEF Path
<1>4. h \notin S
  BY <1>2, <1>3 DEF On
<1>5. CASE n = 0
  <2>1. S = {}
    BY <1>2, <1>5 DEF On
  <2> QED
    BY <1>2, <1>3, <1>4, <1>5, <2>1
<1>6. CASE n # 0
  <2>1. 1 \in 1 .. n
    BY <1>3, <1>6
  <2>2. f[1] \in S /\ pv[f[1]] = h /\ f[1] # h /\ nx[h] = f[1]
    BY <1>2, <1>3, <1>6, <2>1 DEF On
  <2> QED
    BY <1>4, <2>2
<1> QED
  BY <1>5, <1>6

\* The neighbours of a pool in a list, in it too or its header.
LEMMA ListNeighbours ==
  ASSUME NEW h, NEW S, NEW nx, NEW pv, ListOK(h, S, nx, pv), NEW p \in S
  PROVE  /\ nx[p] \in S \union {h} /\ pv[p] \in S \union {h} /\ nx[p] # p /\ pv[p] # p
<1>1. PICK f, n : ListOf(h, S, nx, pv, f, n)
  BY DEF ListOK
<1>2. /\ Path(f, n, nx[h], nx, h) /\ On(f, n) = S
      /\ \A i \in 1 .. n : pv[f[i]] = IF i = 1 THEN h ELSE f[i - 1]
  BY <1>1 DEF ListOf
<1>3. /\ n \in Nat /\ \A i \in 1 .. n : f[i] # h /\ nx[f[i]] = IF i = n THEN h ELSE f[i + 1]
      /\ (\A i, j \in 1 .. n : f[i] = f[j] => i = j)
  BY <1>2 DEF Path
<1>4. PICK k \in 1 .. n : p = f[k]
  BY <1>2 DEF On
<1>5. k # n => k + 1 \in 1 .. n /\ k + 1 # k
  BY <1>3
<1>6. k # 1 => k - 1 \in 1 .. n /\ k - 1 # k
  BY <1>3
<1>7. \A i \in 1 .. n : f[i] \in S
  BY <1>2 DEF On
<1> QED
  BY <1>2, <1>3, <1>4, <1>5, <1>6, <1>7

LEMMA ListUnlink ==
  ASSUME NEW h, NEW S, NEW nx, NEW pv, NEW nx2, NEW pv2, NEW p \in S, ListOK(h, S, nx, pv),
         \A y \in (S \ {p}) \union {h} :
            /\ nx2[y] = IF y = pv[p] THEN nx[p] ELSE nx[y]
            /\ pv2[y] = IF y = nx[p] THEN pv[p] ELSE pv[y]
  PROVE  ListOK(h, S \ {p}, nx2, pv2)
<1>1. PICK f, n : ListOf(h, S, nx, pv, f, n)
  BY DEF ListOK
<1>2. /\ Path(f, n, nx[h], nx, h) /\ On(f, n) = S /\ pv[h] = (IF n = 0 THEN h ELSE f[n])
      /\ \A i \in 1 .. n : pv[f[i]] = IF i = 1 THEN h ELSE f[i - 1]
  BY <1>1 DEF ListOf
<1>3. /\ n \in Nat /\ \A i \in 1 .. n : f[i] # h /\ nx[f[i]] = IF i = n THEN h ELSE f[i + 1]
      /\ (\A i, j \in 1 .. n : f[i] = f[j] => i = j)
      /\ nx[h] = IF n = 0 THEN h ELSE f[1]
  BY <1>2 DEF Path
<1>4. PICK k \in 1 .. n : p = f[k]
  BY <1>2 DEF On
<1>5. /\ n # 0 /\ n - 1 \in Nat /\ pv[p] = (IF k = 1 THEN h ELSE f[k - 1])
      /\ nx[p] = (IF k = n THEN h ELSE f[k + 1])
  BY <1>2, <1>3, <1>4
<1>6. \A i \in 1 .. n : i # k => f[i] \in S \ {p}
  BY <1>2, <1>3, <1>4 DEF On
<1>7. \A i \in 1 .. n : i # k => (f[i] = pv[p] <=> i + 1 = k)
  <2> SUFFICES ASSUME NEW i \in 1 .. n, i # k PROVE f[i] = pv[p] <=> i + 1 = k
    OBVIOUS
  <2>1. CASE k = 1
    BY <1>3, <1>5, <2>1
  <2>2. CASE k # 1
    <3>1. k - 1 \in 1 .. n
      BY <1>3, <2>2
    <3> QED
      BY <1>3, <1>5, <2>2, <3>1
  <2> QED
    BY <2>1, <2>2
<1>8. \A i \in 1 .. n : i # k => (f[i] = nx[p] <=> i = k + 1)
  <2> SUFFICES ASSUME NEW i \in 1 .. n, i # k PROVE f[i] = nx[p] <=> i = k + 1
    OBVIOUS
  <2>1. CASE k = n
    BY <1>3, <1>5, <2>1
  <2>2. CASE k # n
    <3>1. k + 1 \in 1 .. n
      BY <1>3, <2>2
    <3> QED
      BY <1>3, <1>5, <2>2, <3>1
  <2> QED
    BY <2>1, <2>2
<1>9. \A i \in 1 .. n : i # k =>
         /\ nx2[f[i]] = IF i + 1 = k THEN nx[f[k]] ELSE nx[f[i]]
         /\ pv2[f[i]] = IF i = k + 1 THEN pv[p] ELSE pv[f[i]]
  BY <1>4, <1>6, <1>7, <1>8
<1>10. h = pv[p] <=> k = 1
  <2>1. k # 1 => k - 1 \in 1 .. n
    BY <1>3
  <2> QED
    BY <1>3, <1>5, <2>1
<1>11. nx2[h] = IF k = 1 THEN nx[f[k]] ELSE nx[h]
  BY <1>4, <1>10
<1> DEFINE g == Without(f, n, k)
<1>12. Path(g, n - 1, nx2[h], nx2, h) /\ On(g, n - 1) = S \ {p}
  <2> DEFINE x2 == nx2[h]
             x == nx[h]
  <2>1. Path(f, n, x, nx, h) /\ x2 = IF k = 1 THEN nx[f[k]] ELSE x
    BY <1>2, <1>11
  <2> HIDE DEF x2, x
  <2>2. Path(g, n - 1, x2, nx2, h) /\ On(g, n - 1) = On(f, n) \ {f[k]}
    BY <1>9, <2>1, PathCut
  <2> QED
    BY <1>2, <1>4, <2>2 DEF x2
<1>13. \A i \in 1 .. n - 1 : g[i] = IF i < k THEN f[i] ELSE f[i + 1]
  BY <1>3 DEF Without
<1> HIDE DEF g
<1>14. \A i \in 1 .. n - 1 : pv2[g[i]] = IF i = 1 THEN h ELSE g[i - 1]
  <2> SUFFICES ASSUME NEW i \in 1 .. n - 1 PROVE pv2[g[i]] = IF i = 1 THEN h ELSE g[i - 1]
    OBVIOUS
  <2>0. i \in 1 .. n /\ i + 1 \in 1 .. n /\ (i # 1 => i - 1 \in 1 .. n - 1)
    BY <1>3
  <2>1. CASE i < k
    <3>1. g[i] = f[i] /\ pv2[f[i]] = pv[f[i]] /\ (i # 1 => g[i - 1] = f[i - 1])
      BY <1>9, <1>13, <2>0, <2>1
    <3> QED
      BY <1>2, <2>0, <3>1
  <2>2. CASE i = k
    <3>1. g[i] = f[i + 1] /\ pv2[f[i + 1]] = pv[p] /\ (i # 1 => g[i - 1] = f[i - 1])
      BY <1>9, <1>13, <2>0, <2>2
    <3> QED
      BY <1>5, <2>2, <3>1
  <2>3. CASE i > k
    <3>1. g[i] = f[i + 1] /\ pv2[f[i + 1]] = pv[f[i + 1]] /\ i # 1 /\ g[i - 1] = f[(i - 1) + 1]
      BY <1>9, <1>13, <2>0, <2>3
    <3>2. pv[f[i + 1]] = f[(i + 1) - 1] /\ (i + 1) - 1 = i /\ (i - 1) + 1 = i
      BY <1>2, <2>0
    <3> QED
      BY <3>1, <3>2
  <2> QED
    BY <2>0, <2>1, <2>2, <2>3
<1>15. pv2[h] = IF n - 1 = 0 THEN h ELSE g[n - 1]
  <2>1. pv2[h] = IF h = nx[p] THEN pv[p] ELSE pv[h]
    OBVIOUS
  <2>2. CASE k = n
    <3>1. n # 1 => n - 1 \in 1 .. n - 1 /\ n - 1 < k
      BY <1>3, <1>5, <2>2
    <3>2. n # 1 => g[n - 1] = f[n - 1]
      BY <1>13, <3>1
    <3> QED
      BY <1>3, <1>5, <2>1, <2>2, <3>2
  <2>3. CASE k # n
    <3>1. n - 1 \in 1 .. n - 1 /\ ~(n - 1 < k) /\ (n - 1) + 1 = n /\ k + 1 \in 1 .. n
      BY <1>3, <1>5, <2>3
    <3>2. g[n - 1] = f[n] /\ nx[p] # h
      BY <1>3, <1>5, <1>13, <2>3, <3>1
    <3> QED
      BY <1>2, <1>5, <2>1, <3>1, <3>2
  <2> QED
    BY <2>2, <2>3
<1>16. ListOf(h, S \ {p}, nx2, pv2, g, n - 1)
  BY <1>12, <1>14, <1>15 DEF ListOf
<1> QED
  BY <1>16 DEF ListOK

\* The links back after a pool was linked in behind the header h.
BackPushed(h, S, nx, pv, pv2, p) ==
  /\ pv2[p] = h
  /\ pv2[h] = IF nx[h] = h THEN p ELSE pv[h]
  /\ \A y \in S : pv2[y] = IF y = nx[h] THEN p ELSE pv[y]

LEMMA ListPush ==
  ASSUME NEW h, NEW S, NEW nx, NEW pv, NEW nx2, NEW pv2, NEW p, ListOK(h, S, nx, pv),
         p \notin S, p # h, nx2[p] = nx[h], nx2[h] = p, \A y \in S : nx2[y] = nx[y],
         BackPushed(h, S, nx, pv, pv2, p)
  PROVE  ListOK(h, S \union {p}, nx2, pv2)
<1>1. PICK f, n : ListOf(h, S, nx, pv, f, n)
  BY DEF ListOK
<1>2. /\ Path(f, n, nx[h], nx, h) /\ On(f, n) = S /\ pv[h] = (IF n = 0 THEN h ELSE f[n])
      /\ \A i \in 1 .. n : pv[f[i]] = IF i = 1 THEN h ELSE f[i - 1]
  BY <1>1 DEF ListOf
<1>3. /\ n \in Nat /\ nx[h] = (IF n = 0 THEN h ELSE f[1])
      /\ (\A i, j \in 1 .. n : f[i] = f[j] => i = j)
  BY <1>2 DEF Path
<1> DEFINE g == Pushed(f, n, p)
<1>4. Path(g, n + 1, p, nx2, h) /\ On(g, n + 1) = S \union {p}
  <2> DEFINE x == nx[h]
  <2>1. Path(f, n, x, nx, h) /\ nx2[p] = x
    BY <1>2
  <2> HIDE DEF x
  <2>0. p # h
    OBVIOUS
  <2>2. p \notin On(f, n) /\ \A y \in On(f, n) : nx2[y] = nx[y]
    BY <1>2
  <2>3. Path(Pushed(f, n, p), n + 1, p, nx2, h)
    BY ONLY <2>0, <2>1, <2>2, PathPush
  <2>4. On(Pushed(f, n, p), n + 1) = S \union {p}
    <3>1. On(f, n) = S /\ n \in Nat
      BY <1>2, <1>3
    <3>2. On(Pushed(f, n, p), n + 1) = On(f, n) \union {p}
      BY ONLY <3>1, OnPushed
    <3> QED
      BY ONLY <3>1, <3>2
  <2> QED
    BY ONLY <2>3, <2>4
<1>5. g[1] = p /\ \A i \in 1 .. n : g[i + 1] = f[i]
  BY <1>3 DEF Pushed
<1> HIDE DEF g
<1>6. \A i \in 1 .. n : f[i] \in S /\ pv2[f[i]] = IF i = 1 THEN p ELSE f[i - 1]
  <2> SUFFICES ASSUME NEW i \in 1 .. n
               PROVE  f[i] \in S /\ pv2[f[i]] = IF i = 1 THEN p ELSE f[i - 1]
    OBVIOUS
  <2>1. f[i] \in S /\ n # 0 /\ 1 \in 1 .. n
    BY <1>2, <1>3 DEF On
  <2>2. f[i] = nx[h] <=> i = 1
    BY <1>3, <2>1
  <2> QED
    BY <1>2, <2>1, <2>2 DEF BackPushed
<1>7. \A j \in 1 .. n + 1 : pv2[g[j]] = IF j = 1 THEN h ELSE g[j - 1]
  <2> SUFFICES ASSUME NEW j \in 1 .. n + 1, j # 1 PROVE pv2[g[j]] = g[j - 1]
    BY <1>5 DEF BackPushed
  <2> DEFINE i == j - 1
  <2>1. i \in 1 .. n /\ j = i + 1 /\ (i # 1 => i - 1 \in 1 .. n /\ (i - 1) + 1 = i)
    BY <1>3
  <2> HIDE DEF i
  <2>2. g[j] = f[i] /\ pv2[f[i]] = IF i = 1 THEN p ELSE f[i - 1]
    BY <1>5, <1>6, <2>1
  <2>3. g[i] = IF i = 1 THEN p ELSE f[i - 1]
    BY <1>5, <2>1
  <2> QED
    BY <2>2, <2>3 DEF i
<1>8. n + 1 # 0 /\ pv2[h] = g[n + 1]
  <2>1. CASE n = 0
    BY <1>3, <1>5, <2>1 DEF BackPushed
  <2>2. CASE n # 0
    <3>1. 1 \in 1 .. n /\ n \in 1 .. n
      BY <1>3, <2>2
    <3>2. \A i \in 1 .. n : f[i] # h
      BY <1>2 DEF Path
    <3>3. nx[h] # h
      BY <1>3, <2>2, <3>1, <3>2
    <3> QED
      BY <1>2, <1>3, <1>5, <2>2, <3>1, <3>3 DEF BackPushed
  <2> QED
    BY <2>1, <2>2
<1>9. ListOf(h, S \union {p}, nx2, pv2, g, n + 1)
  BY <1>4, <1>7, <1>8 DEF ListOf
<1> QED
  BY <1>9 DEF ListOK

\* init_pool links a pool into an empty list.
LEMMA ListOne ==
  ASSUME NEW h, NEW nx, NEW pv, NEW p, p # h, nx[h] = p, nx[p] = h, pv[p] = h, pv[h] = p
  PROVE  ListOK(h, {p}, nx, pv)
<1> DEFINE f == [i \in 1 .. 1 |-> p]
<1>1. \A i \in 1 .. 1 : i = 1
  OBVIOUS
<1>2. 1 \in 1 .. 1 /\ f[1] = p /\ f = [i \in 1 .. 1 |-> f[i]]
  OBVIOUS
<1> HIDE DEF f
<1>3. Path(f, 1, nx[h], nx, h)
  BY <1>1, <1>2 DEF Path
<1>4. On(f, 1) = {p}
  BY <1>1, <1>2 DEF On
<1>5. ListOf(h, {p}, nx, pv, f, 1)
  BY <1>1, <1>2, <1>3, <1>4 DEF ListOf
<1> QED
  BY <1>5 DEF ListOK

LEMMA CachedFrame ==
  ASSUME NEW x, NEW S, NEW nx, NEW nx2, CachedOK(x, S, nx), \A y \in S : nx2[y] = nx[y]
  PROVE  CachedOK(x, S, nx2)
BY PathFrame DEF CachedOK

LEMMA CachedPop ==
  ASSUME NEW x, NEW S, NEW nx, CachedOK(x, S, nx)
  PROVE  /\ x = Nil => S = {}
         /\ x # Nil => x \in S /\ CachedOK(nx[x], S \ {x}, nx)
<1>1. PICK f, n : Path(f, n, x, nx, Nil) /\ On(f, n) = S
  BY DEF CachedOK
<1>2. CASE n = 0
  BY <1>1, <1>2 DEF Path, On
<1>3. CASE n # 0
  <2>1. /\ Path(Popped(f, n), n - 1, nx[x], nx, Nil) /\ On(Popped(f, n), n - 1) = S \ {x}
        /\ x \in S /\ x # Nil
    BY <1>1, <1>3, PathPop
  <2> QED
    BY <2>1 DEF CachedOK
<1> QED
  BY <1>2, <1>3

LEMMA CachedPush ==
  ASSUME NEW x, NEW S, NEW nx, NEW nx2, NEW p, CachedOK(x, S, nx), p \notin S, p # Nil,
         nx2[p] = x, \A y \in S : nx2[y] = nx[y]
  PROVE  CachedOK(p, S \union {p}, nx2)
<1>1. PICK f, n : Path(f, n, x, nx, Nil) /\ On(f, n) = S
  BY DEF CachedOK
<1>2. Path(Pushed(f, n, p), n + 1, p, nx2, Nil) /\ On(Pushed(f, n, p), n + 1) = S \union {p}
  BY <1>1, PathPush
<1> QED
  BY <1>2 DEF CachedOK

-----------------------------------------------------------------------------
(* Every unit has a home: the block that it is in *)

Width(a) == IF InPool(a) THEN BlockUnits(szidx[PoolOf(a)]) ELSE MaxUnits
Span(a) == a .. a + Width(a) - 1

Home(x) ==
  IF InPool(x)
  THEN Start(PoolOf(x)) + ((x - Start(PoolOf(x))) \div BlockUnits(szidx[PoolOf(x)]))
                             * BlockUnits(szidx[PoolOf(x)])
  ELSE PoolCells + ((x - PoolCells) \div MaxUnits) * MaxUnits

LEMMA CommittedFacts ==
  ASSUME HeapType
  PROVE  /\ (arenacnt - 1) * ArenaPools + watermark \in Nat
         /\ (arenacnt - 1) * ArenaPools + watermark <= ArenaPools * MaxArenas
         /\ Committed \subseteq Pools
<1>1. /\ arenacnt \in 0 .. MaxArenas /\ watermark \in 1 .. ArenaPools
      /\ arenacnt = 0 => watermark = ArenaPools
      /\ ArenaPools \in Nat \ {0} /\ MaxArenas \in Nat
  BY Sizes DEF HeapType
<1> DEFINE T == (arenacnt - 1) * ArenaPools + watermark
<1>2. T \in Int /\ T = arenacnt * ArenaPools - ArenaPools + watermark
  BY <1>1
<1>3. T \in Nat
  <2>1. CASE arenacnt = 0
    BY <1>1, <2>1
  <2>2. CASE arenacnt # 0
    <3>1. arenacnt - 1 \in Nat
      BY <1>1, <2>2
    <3> QED
      BY <1>1, <3>1
  <2> QED
    BY <2>1, <2>2
<1>4. arenacnt * ArenaPools <= MaxArenas * ArenaPools
  BY <1>1, TimesMonotonic
<1>5. arenacnt * ArenaPools \in Int /\ MaxArenas * ArenaPools = ArenaPools * MaxArenas
      /\ ArenaPools * MaxArenas \in Nat
  BY <1>1
<1> HIDE DEF T
<1>6. T <= ArenaPools * MaxArenas
  BY <1>1, <1>2, <1>4, <1>5
<1>7. 1 .. T \subseteq 1 .. ArenaPools * MaxArenas
  BY <1>3, <1>5, <1>6
<1>8. Committed \subseteq Pools
  BY <1>7 DEF Committed, Pools, T
<1> QED
  BY <1>3, <1>6, <1>8 DEF T

LEMMA CutHome ==
  ASSUME NEW p \in Pools, szidx[p] \in Classes, NEW a \in Cut(p, szidx[p], Cap(szidx[p]))
  PROVE  /\ InPool(a) /\ PoolOf(a) = p /\ a \in Cells /\ a \in Span(a)
         /\ \A x \in Span(a) : x \in Cells /\ InPool(x) /\ PoolOf(x) = p /\ Home(x) = a
<1> DEFINE c == szidx[p]
           u == BlockUnits(c)
<1>1. c \in Classes /\ c \in Nat /\ u = c + 1 /\ a \in Cut(p, c, Cap(c))
  BY ClassFacts
<1>2. InPool(a) /\ PoolOf(a) = p /\ a \in Cells /\ a \in Int
  BY CutFacts
<1>3. PICK i \in 0 .. Cap(c) - 1 : a = Start(p) + i * u
  BY DEF Cut
<1>4. Span(a) = a .. a + u - 1
  BY <1>2 DEF Span, Width
<1> HIDE DEF u
<1>5. ASSUME NEW x \in Span(a)
      PROVE  x \in Cells /\ InPool(x) /\ PoolOf(x) = p /\ Home(x) = a
  <2> DEFINE j == x - a
  <2>1. j \in 0 .. c /\ x = a + j
    BY <1>1, <1>2, <1>4
  <2> HIDE DEF j
  <2>2. /\ a + j \in Cells /\ InPool(a + j) /\ PoolOf(a + j) = p
        /\ ((a + j) - Start(p)) \div BlockUnits(c) = i
    BY <1>1, <1>3, <2>1, BlockSpan DEF u
  <2>3. Home(x) = Start(p) + i * u
    BY <2>1, <2>2 DEF Home, u
  <2> QED
    BY <1>3, <2>1, <2>2, <2>3
<1>6. a \in Span(a)
  BY <1>1, <1>2, <1>4
<1> QED
  BY <1>2, <1>5, <1>6

LEMMA SysHome ==
  ASSUME NEW a \in SysAddresses
  PROVE  /\ ~InPool(a) /\ a \in Cells /\ Span(a) = a .. a + MaxUnits - 1 /\ a \in Span(a)
         /\ \A x \in Span(a) : x \in Cells /\ ~InPool(x) /\ Home(x) = a
<1>1. PICK i \in 0 .. SysBlocks - 1 : a = PoolCells + i * MaxUnits
  BY DEF SysAddresses
<1>2. /\ PoolCells \in Nat /\ MaxUnits \in Nat \ {0} /\ SysBlocks \in Nat /\ i \in Nat
      /\ i + 1 \in Int /\ i + 1 <= SysBlocks
  BY Sizes, PoolFacts
<1>3. (i + 1) * MaxUnits <= SysBlocks * MaxUnits
  BY <1>2, TimesMonotonic
<1>4. (i + 1) * MaxUnits = i * MaxUnits + MaxUnits /\ i * MaxUnits \in Nat
  BY <1>2
<1>5. a \in Nat /\ a >= PoolCells /\ SysBlocks * MaxUnits \in Nat
  BY <1>1, <1>2, <1>4
<1>6. ~InPool(a)
  BY <1>2, <1>5 DEF InPool
<1>7. Span(a) = a .. a + MaxUnits - 1
  BY <1>6 DEF Span, Width
<1>8. ASSUME NEW x \in Span(a)
      PROVE  x \in Cells /\ ~InPool(x) /\ Home(x) = a
  <2>1. x \in Nat /\ x >= PoolCells /\ x \in Cells
    BY <1>1, <1>2, <1>3, <1>4, <1>5, <1>7 DEF Cells
  <2>2. ~InPool(x)
    BY <1>2, <2>1 DEF InPool
  <2> DEFINE j == x - a
  <2>3. j \in 0 .. MaxUnits - 1 /\ x = a + j
    BY <1>2, <1>5, <1>7
  <2> HIDE DEF j
  <2>4. (MaxUnits * i + j) \div MaxUnits = i
    BY <1>2, <2>3, DivOf
  <2>5. x - PoolCells = MaxUnits * i + j
    BY <1>1, <1>2, <1>4, <2>3
  <2>6. Home(x) = PoolCells + i * MaxUnits
    BY <2>2, <2>4, <2>5 DEF Home
  <2> QED
    BY <1>1, <2>1, <2>2, <2>6
<1>9. a \in Span(a)
  BY <1>2, <1>5, <1>7
<1> QED
  BY <1>6, <1>7, <1>8, <1>9

\* The pools that the blocks of callers are in.
LEMMA HeldPool ==
  ASSUME HeapInv, NEW b \in live, InPool(b.at)
  PROVE  /\ PoolOf(b.at) \in Committed /\ PoolOf(b.at) \in Pools
         /\ szidx[PoolOf(b.at)] \in Classes /\ b.at \in HeldIn(PoolOf(b.at), Held)
         /\ b.at \in Cut(PoolOf(b.at), szidx[PoolOf(b.at)], Cap(szidx[PoolOf(b.at)]))
<1> DEFINE p == PoolOf(b.at)
<1>1. p \in Committed /\ p \in Pools
  BY CommittedFacts DEF HeapInv, LiveOK, Fits
<1>2. PoolOK(p, szidx[p], count[p], freeblock[p], mem, Held)
  BY <1>1 DEF HeapInv, BlocksOK
<1>3. szidx[p] \in Classes /\ count[p] \in Nat
  BY <1>2 DEF PoolOK
<1>4. PICK f, n : Path(f, n, freeblock[p], mem, Nil) /\ FreeList(p, szidx[p], count[p], Held, f, n)
  BY <1>2 DEF PoolOK
<1>5. n \in Nat
  BY <1>4 DEF Path
<1>6. HeldIn(p, Held) \subseteq Cut(p, szidx[p], Cap(szidx[p]))
  BY <1>1, <1>3, <1>4, <1>5, PoolShape
<1>7. b.at \in HeldIn(p, Held)
  BY DEF HeldIn, Held
<1> QED
  BY <1>1, <1>3, <1>6, <1>7

LEMMA LiveHome ==
  ASSUME HeapInv, NEW b \in live
  PROVE  /\ Units(b) \subseteq Span(b.at) /\ b.at \in Span(b.at) /\ b.at \in Units(b)
         /\ b.at + b.units - 1 \in Units(b)
         /\ \A x \in Span(b.at) : /\ x \in Cells /\ Home(x) = b.at
                                  /\ InPool(x) <=> InPool(b.at)
                                  /\ InPool(b.at) => PoolOf(x) = PoolOf(b.at)
<1>1. /\ b.at \in Int /\ b.units \in Nat \ {0} /\ Fits(b)
  BY DEF HeapInv, LiveOK, Blocks, Cells
<1>2. b.units <= Width(b.at) /\ Width(b.at) \in Int
  <2>1. CASE InPool(b.at)
    BY <1>1, <2>1, HeldPool, ClassFacts DEF Fits, Width
  <2>2. CASE ~InPool(b.at)
    BY <1>1, <2>2, Sizes DEF Fits, Width
  <2> QED
    BY <2>1, <2>2
<1>3. Units(b) \subseteq Span(b.at) /\ b.at \in Units(b) /\ b.at + b.units - 1 \in Units(b)
  BY <1>1, <1>2 DEF Units, Span
<1>4. \A x \in Span(b.at) : /\ x \in Cells /\ Home(x) = b.at
                            /\ InPool(x) <=> InPool(b.at)
                            /\ InPool(b.at) => PoolOf(x) = PoolOf(b.at)
  <2>1. CASE InPool(b.at)
    BY <2>1, HeldPool, CutHome
  <2>2. CASE ~InPool(b.at)
    <3>1. b.at \in SysAddresses
      BY <1>1, <2>2 DEF Fits, HeapInv, HeapType
    <3> QED
      BY <2>2, <3>1, SysHome
  <2> QED
    BY <2>1, <2>2
<1> QED
  BY <1>3, <1>4

\* Blocks of callers have no unit in common.
LEMMA Apart ==
  ASSUME HeapInv, NEW b \in live, NEW c \in live, b # c
  PROVE  b.at # c.at /\ Span(b.at) \intersect Span(c.at) = {} /\ Units(b) \intersect Units(c) = {}
<1>1. b.at # c.at
  BY DEF HeapInv, LiveOK
<1> QED
  BY <1>1, LiveHome

LEMMA DisjointHolds ==
  ASSUME HeapInv
  PROVE  Disjoint
<1>1. ASSUME NEW b \in live, InPool(b.at)
      PROVE  PoolOf(b.at) = PoolOf(b.at + b.units - 1) /\ PoolOf(b.at) \in Committed
  BY <1>1, LiveHome, HeldPool
<1> QED
  BY <1>1, Apart DEF Disjoint

-----------------------------------------------------------------------------
(* What a step that works on pool p leaves alone *)

OnlyPool(p) ==
  /\ Committed' = Committed \union {p}
  /\ \A q \in Committed \ {p} : /\ szidx'[q] = szidx[q] /\ count'[q] = count[q]
                                /\ freeblock'[q] = freeblock[q] /\ capacity'[q] = capacity[q]

OnlyMemory(p) == \A x \in Cells : ~(InPool(x) /\ PoolOf(x) = p) => mem'[x] = mem[x]

OnlyLinks(p, c) ==
  \A y \in Nodes \ (UsedPools(c) \union {Header(c), p}) :
    nextpool'[y] = nextpool[y] /\ prevpool'[y] = prevpool[y]

LEMMA BlocksStep ==
  ASSUME HeapInv, NEW p \in Pools, OnlyPool(p), OnlyMemory(p),
         \A q \in Committed \ {p} : HeldIn(q, Held') = HeldIn(q, Held),
         PoolOK(p, szidx'[p], count'[p], freeblock'[p], mem', Held'),
         capacity'[p] = Cap(szidx'[p])
  PROVE  BlocksOK'
<1>1. ASSUME NEW q \in Committed', q # p
      PROVE  /\ PoolOK(q, szidx'[q], count'[q], freeblock'[q], mem', Held')
             /\ capacity'[q] = Cap(szidx'[q])
  <2>1. q \in Committed \ {p} /\ q \in Pools
    BY <1>1, CommittedFacts DEF OnlyPool, HeapInv
  <2>2. PoolOK(q, szidx[q], count[q], freeblock[q], mem, Held) /\ capacity[q] = Cap(szidx[q])
    BY <2>1 DEF HeapInv, BlocksOK
  <2>3. szidx[q] \in Classes
    BY <2>2 DEF PoolOK
  <2>4. \A x \in Cut(q, szidx[q], Cap(szidx[q])) : mem'[x] = mem[x]
    BY <1>1, <2>1, <2>3, CutFacts DEF OnlyMemory
  <2>5. PoolOK(q, szidx[q], count[q], freeblock[q], mem', Held')
    BY <2>1, <2>2, <2>4, PoolFrame
  <2> QED
    BY <2>1, <2>2, <2>5 DEF OnlyPool
<1>2. \A q \in Committed' :
        /\ PoolOK(q, szidx'[q], count'[q], freeblock'[q], mem', Held')
        /\ capacity'[q] = Cap(szidx'[q])
  BY <1>1
<1> QED
  BY <1>2 DEF BlocksOK

\* The pools in the lists, but for p.
LEMMA SetsStep ==
  ASSUME NEW p, OnlyPool(p)
  PROVE  /\ \A d \in Classes : \A q : q # p => (q \in UsedPools(d)' <=> q \in UsedPools(d))
         /\ \A q : q # p => (q \in EmptyPools' <=> q \in EmptyPools)
         /\ \A d \in Classes : p \in UsedPools(d)' <=>
               szidx'[p] = d /\ count'[p] \in 1 .. capacity'[p] - 1
         /\ p \in EmptyPools' <=> count'[p] = 0
BY DEF OnlyPool, UsedPools, EmptyPools

LEMMA ListsApart ==
  ASSUME HeapInv, NEW c \in Classes
  PROVE  /\ UsedPools(c) \subseteq Committed /\ UsedPools(c) \subseteq Pools
         /\ UsedPools(c) \subseteq Nodes
         /\ EmptyPools \subseteq Pools /\ UsedPools(c) \intersect EmptyPools = {}
         /\ \A q \in Pools, d \in Classes : q # Header(d)
         /\ \A d \in Classes : d # c => /\ UsedPools(d) \intersect UsedPools(c) = {}
                                        /\ Header(d) # Header(c)
<1>1. Committed \subseteq Pools
  BY CommittedFacts DEF HeapInv
<1>2. \A q \in Pools : q \in Nodes /\ q >= 1 /\ q \in Nat
  BY PoolFacts
<1>3. \A d \in Classes : Header(d) < 0 /\ Header(d) \in Int /\ d \in Nat
  BY ClassFacts
<1>4. \A d \in Classes : d # c => Header(d) # Header(c)
  BY <1>3 DEF Header
<1>5. \A q \in Pools, d \in Classes : q # Header(d)
  BY <1>2, <1>3
<1>6. UsedPools(c) \intersect EmptyPools = {}
  BY DEF UsedPools, EmptyPools
<1>7. \A d \in Classes : d # c => UsedPools(d) \intersect UsedPools(c) = {}
  BY DEF UsedPools
<1>8. UsedPools(c) \subseteq Committed /\ EmptyPools \subseteq Committed
  BY DEF UsedPools, EmptyPools
<1> QED
  BY <1>1, <1>2, <1>4, <1>5, <1>6, <1>7, <1>8

LEMMA LinksStep ==
  ASSUME HeapInv, NEW p \in Pools, NEW c \in Classes, OnlyPool(p), OnlyLinks(p, c),
         \A d \in Classes \ {c} : p \notin UsedPools(d) /\ szidx'[p] # d,
         ListOK(Header(c), UsedPools(c)', nextpool', prevpool'),
         CachedOK(freepools', EmptyPools', nextpool')
  PROVE  LinksOK'
<1>1. ASSUME NEW d \in Classes, d # c
      PROVE  ListOK(Header(d), UsedPools(d)', nextpool', prevpool')
  <2>1. ListOK(Header(d), UsedPools(d), nextpool, prevpool)
    BY DEF HeapInv, LinksOK
  <2>2. \A q : q \in UsedPools(d)' <=> q \in UsedPools(d)
    BY <1>1, SetsStep
  <2>3. UsedPools(d)' = UsedPools(d)
    BY <2>2
  <2>4. \A y \in UsedPools(d) \union {Header(d)} :
           y \in Nodes /\ y \notin UsedPools(c) \union {Header(c), p}
    BY <1>1, ListsApart, ClassFacts
  <2>5. ListOK(Header(d), UsedPools(d), nextpool', prevpool')
    BY <2>1, <2>4, ListFrame DEF OnlyLinks
  <2> QED
    BY <2>3, <2>5
<1>2. \A d \in Classes : ListOK(Header(d), UsedPools(d)', nextpool', prevpool')
  BY <1>1
<1>3. \A d : Header(d)' = Header(d)
  BY DEF Header
<1> QED
  BY <1>2, <1>3 DEF LinksOK

\* The cached pools stay, when p is not one of them.
LEMMA CachedStays ==
  ASSUME HeapInv, NEW p \in Pools, NEW c \in Classes, OnlyPool(p), OnlyLinks(p, c),
         NEW rest, CachedOK(rest, EmptyPools \ {p}, nextpool)
  PROVE  CachedOK(rest, EmptyPools \ {p}, nextpool')
<1>1. \A y \in EmptyPools \ {p} : y \in Nodes \ (UsedPools(c) \union {Header(c), p})
  BY ListsApart, PoolFacts
<1> QED
  BY <1>1, CachedFrame DEF OnlyLinks

-----------------------------------------------------------------------------
(* pr_malloc *)

\* A block of a pool is given: everybody else's stay where and as they were.
Took(n, bp) ==
  /\ HeapType' /\ BlocksOK' /\ LinksOK'
  /\ bp \in Cells /\ bp \notin Held /\ InPool(bp)
  /\ PoolOf(bp) \in Committed' /\ szidx'[PoolOf(bp)] = ClassOf(n)
  /\ Committed \subseteq Committed'
  /\ \A b \in live : InPool(b.at) => szidx'[PoolOf(b.at)] = szidx[PoolOf(b.at)]
  /\ \A b \in live : \A x \in Units(b) : mem'[x] = mem[x]

LEMMA FrontFacts ==
  ASSUME HeapInv, NEW n, Small(n), ~NoneUsed(n)
  PROVE  /\ ClassOf(n) \in Classes /\ BlockUnits(ClassOf(n)) = n
         /\ FrontPool(n) \in UsedPools(ClassOf(n)) /\ FrontPool(n) \in Committed
         /\ FrontPool(n) \in Pools /\ FrontPool(n) \in Nodes /\ FrontPool(n) \notin EmptyPools
         /\ szidx[FrontPool(n)] = ClassOf(n) /\ count[FrontPool(n)] \in Nat
         /\ count[FrontPool(n)] >= 1 /\ count[FrontPool(n)] < Cap(ClassOf(n))
         /\ capacity[FrontPool(n)] = Cap(ClassOf(n)) /\ Cap(ClassOf(n)) \in Nat
         /\ PoolOK(FrontPool(n), ClassOf(n), count[FrontPool(n)], freeblock[FrontPool(n)], mem, Held)
<1> DEFINE c == ClassOf(n)
           p == FrontPool(n)
<1>1. c \in Classes /\ BlockUnits(c) = n
  BY Sizes DEF Small, ClassOf, Classes, BlockUnits
<1>2. ListOK(Header(c), UsedPools(c), nextpool, prevpool)
  BY <1>1 DEF HeapInv, LinksOK
<1>3. p \in UsedPools(c)
  BY <1>2, ListHead DEF NoneUsed, FrontPool
<1>4. p \in Committed /\ p \in Pools /\ p \in Nodes /\ p \notin EmptyPools
  BY <1>1, <1>3, ListsApart
<1>5. /\ PoolOK(p, szidx[p], count[p], freeblock[p], mem, Held) /\ capacity[p] = Cap(szidx[p])
  BY <1>4 DEF HeapInv, BlocksOK
<1>6. szidx[p] = c /\ count[p] \in 1 .. capacity[p] - 1
  BY <1>3 DEF UsedPools
<1>7. Cap(c) \in Nat
  BY <1>1, CapFacts
<1> QED
  BY <1>1, <1>3, <1>4, <1>5, <1>6, <1>7

\* A pool of the list gives its first block, and keeps or loses its place in the list.
LEMMA UsedStep ==
  ASSUME HeapInv, NEW n, NEW bp, Small(n), Used(n, bp), Held' = Held \union {bp}, HeapType',
         OnlyMemory(FrontPool(n)), OnlyLinks(FrontPool(n), ClassOf(n)),
         PoolOK(FrontPool(n), ClassOf(n), count[FrontPool(n)] + 1, freeblock'[FrontPool(n)],
                mem', Held \union {bp}),
         \A q \in Pools : q # FrontPool(n) => freeblock'[q] = freeblock[q],
         \A b \in live : \A x \in Units(b) : mem'[x] = mem[x],
         ListOK(Header(ClassOf(n)), UsedPools(ClassOf(n))', nextpool', prevpool')
  PROVE  Took(n, bp)
<1> DEFINE c == ClassOf(n)
           p == FrontPool(n)
<1>1. /\ ~NoneUsed(n) /\ bp = freeblock[p] /\ count' = [count EXCEPT ![p] = @ + 1]
      /\ UNCHANGED <<szidx, capacity, freepools, arenacnt, watermark>>
  BY DEF Used
<1>2. /\ c \in Classes /\ p \in UsedPools(c) /\ p \in Committed /\ p \in Pools
      /\ szidx[p] = c /\ count[p] \in Nat /\ count[p] >= 1 /\ count[p] < Cap(c)
      /\ capacity[p] = Cap(c) /\ Cap(c) \in Nat /\ p \notin EmptyPools
      /\ PoolOK(p, c, count[p], freeblock[p], mem, Held)
  BY <1>1, FrontFacts
<1>3. count'[p] = count[p] + 1 /\ \A q \in Pools : q # p => count'[q] = count[q]
  BY <1>1, <1>2 DEF HeapInv, HeapType
<1>4. Committed' = Committed /\ Committed \subseteq Pools
  BY <1>1, CommittedFacts DEF Committed, HeapInv
<1> HIDE DEF p
<1>5. OnlyPool(p)
  BY <1>1, <1>2, <1>3, <1>4 DEF OnlyPool, p
<1>6. bp \in Cells /\ bp \notin Held /\ InPool(bp) /\ PoolOf(bp) = p
  <2>1. bp \in Cut(p, c, Cap(c)) /\ bp \notin Held
    BY <1>1, <1>2, PoolFirst
  <2> QED
    BY <1>2, <2>1, CutFacts
<1>7. \A q \in Committed \ {p} : HeldIn(q, Held') = HeldIn(q, Held)
  BY <1>6 DEF HeldIn
<1>8. BlocksOK'
  <2>1. PoolOK(p, szidx'[p], count'[p], freeblock'[p], mem', Held') /\ capacity'[p] = Cap(szidx'[p])
    BY <1>1, <1>2, <1>3 DEF p
  <2> QED
    BY <1>2, <1>5, <1>7, <2>1, BlocksStep DEF p
<1>9. LinksOK'
  <2>1. \A q : q \in EmptyPools' <=> q \in EmptyPools
    <3>1. count'[p] # 0
      BY <1>2, <1>3
    <3> QED
      BY <1>2, <1>5, <3>1, SetsStep
  <2>2. EmptyPools' = EmptyPools /\ EmptyPools \ {p} = EmptyPools
    BY <1>2, <2>1
  <2>3. CachedOK(freepools, EmptyPools \ {p}, nextpool)
    BY <2>2 DEF HeapInv, LinksOK
  <2>4. CachedOK(freepools, EmptyPools \ {p}, nextpool')
    BY <1>2, <1>5, <2>3, CachedStays DEF p
  <2>5. CachedOK(freepools', EmptyPools', nextpool')
    BY <1>1, <2>2, <2>4
  <2>6. \A d \in Classes \ {c} : p \notin UsedPools(d) /\ szidx'[p] # d
    BY <1>1, <1>2 DEF UsedPools
  <2> QED
    BY <1>2, <1>5, <2>5, <2>6, LinksStep DEF p
<1> QED
  BY <1>1, <1>2, <1>4, <1>6, <1>8, <1>9 DEF Took

LEMMA FromListStep ==
  ASSUME HeapInv, NEW n, NEW bp, Small(n), FromList(n, bp), Held' = Held \union {bp}, sys' = sys
  PROVE  Took(n, bp)
<1> DEFINE c == ClassOf(n)
           p == FrontPool(n)
<1>1. /\ Used(n, bp) /\ mem[bp] # Nil /\ freeblock' = [freeblock EXCEPT ![p] = mem[bp]]
      /\ UNCHANGED <<mem, nextpool, prevpool>> /\ ~NoneUsed(n) /\ bp = freeblock[p]
      /\ count' = [count EXCEPT ![p] = @ + 1]
      /\ UNCHANGED <<szidx, capacity, freepools, arenacnt, watermark>>
  BY DEF FromList, Used
<1>2. /\ c \in Classes /\ p \in UsedPools(c) /\ p \in Pools /\ p \in Committed
      /\ szidx[p] = c /\ count[p] \in Nat /\ count[p] < Cap(c) /\ capacity[p] = Cap(c)
      /\ Cap(c) \in Nat /\ PoolOK(p, c, count[p], freeblock[p], mem, Held)
  BY <1>1, FrontFacts
<1>3. PoolOK(p, c, count[p] + 1, mem[bp], mem, Held \union {bp}) /\ count[p] + 1 < Cap(c)
  BY <1>1, <1>2, PoolTake
<1> HIDE DEF p, c
<1>4. /\ HeapType' /\ freeblock'[p] = mem[bp]
      /\ \A q \in Pools : q # p => freeblock'[q] = freeblock[q] /\ count'[q] = count[q]
      /\ count'[p] = count[p] + 1
  <2>1. p \in Pools /\ count[p] \in Nat /\ HeapType
    BY <1>2 DEF HeapInv
  <2>2. /\ count' = [count EXCEPT ![p] = @ + 1]
        /\ freeblock' = [freeblock EXCEPT ![p] = mem[bp]]
    BY <1>1
  <2>3. /\ freeblock' = [q \in Pools |-> freeblock'[q]] /\ freeblock'[p] = mem[bp]
        /\ \A q \in Pools : q # p => freeblock'[q] = freeblock[q]
    BY <2>1, <2>2 DEF HeapType
  <2>4. /\ count' \in [Pools -> Nat] /\ count'[p] = count[p] + 1
        /\ \A q \in Pools : q # p => count'[q] = count[q]
    BY <2>1, <2>2 DEF HeapType
  <2>5. UNCHANGED <<mem, capacity, szidx, nextpool, prevpool, arenacnt, watermark, sys>>
    BY <1>1
  <2> QED
    BY <2>1, <2>3, <2>4, <2>5 DEF HeapType
<1> USE DEF c
<1>5. Committed' = Committed /\ Committed \subseteq Pools
  BY <1>1, CommittedFacts DEF Committed, HeapInv
<1>6. \A q : q \in UsedPools(c)' <=> q \in UsedPools(c)
  <2>1. p \in UsedPools(c)'
    BY <1>1, <1>2, <1>3, <1>4, <1>5 DEF UsedPools
  <2>2. \A q : q # p => (q \in UsedPools(c)' <=> q \in UsedPools(c))
    BY <1>1, <1>4, <1>5 DEF UsedPools
  <2> QED
    BY <1>2, <2>1, <2>2
<1>7. ListOK(Header(c), UsedPools(c)', nextpool', prevpool')
  <2>1. UsedPools(c)' = UsedPools(c)
    BY <1>6
  <2> QED
    BY <1>1, <1>2, <2>1 DEF HeapInv, LinksOK
<1>8. OnlyMemory(p) /\ OnlyLinks(p, c)
  BY <1>1 DEF OnlyMemory, OnlyLinks
<1>9. PoolOK(p, c, count[p] + 1, freeblock'[p], mem', Held \union {bp})
  BY <1>1, <1>3, <1>4
<1>10. \A b \in live : \A x \in Units(b) : mem'[x] = mem[x]
  BY <1>1
<1> QED
  BY <1>1, <1>4, <1>7, <1>8, <1>9, <1>10, UsedStep DEF p

\* The list's pools of class c stay, when p was and is one of them.
LEMMA UsedStays ==
  ASSUME HeapInv, NEW c \in Classes, NEW p \in UsedPools(c), NEW k,
         UNCHANGED <<szidx, capacity, arenacnt, watermark, nextpool, prevpool>>,
         count' = [count EXCEPT ![p] = k], k \in 1 .. capacity[p] - 1
  PROVE  ListOK(Header(c), UsedPools(c)', nextpool', prevpool')
<1>1. Committed' = Committed /\ Committed \subseteq Pools
  BY CommittedFacts DEF Committed, HeapInv
<1>2. p \in Committed /\ szidx[p] = c /\ p \in Pools
  BY <1>1 DEF UsedPools
<1>3. count'[p] = k /\ \A q \in Pools : q # p => count'[q] = count[q]
  BY <1>2 DEF HeapInv, HeapType
<1>4. p \in UsedPools(c)'
  BY <1>1, <1>2, <1>3 DEF UsedPools
<1>5. \A q : q # p => (q \in UsedPools(c)' <=> q \in UsedPools(c))
  BY <1>1, <1>3 DEF UsedPools
<1>6. \A q : q \in UsedPools(c)' <=> q \in UsedPools(c)
  BY <1>4, <1>5
<1>7. UsedPools(c)' = UsedPools(c)
  BY <1>6
<1> QED
  BY <1>7 DEF HeapInv, LinksOK

LEMMA ExtendStep ==
  ASSUME HeapInv, NEW n, NEW bp, Small(n), Extend(n, bp), Held' = Held \union {bp}, sys' = sys
  PROVE  Took(n, bp)
<1> DEFINE c == ClassOf(n)
           p == FrontPool(n)
           new == Start(p) + (count[p] + 1) * BlockUnits(c)
<1>1. /\ Used(n, bp) /\ mem[bp] = Nil /\ count[p] + 1 < capacity[p]
      /\ freeblock' = [freeblock EXCEPT ![p] = new] /\ mem' = [mem EXCEPT ![new] = Nil]
      /\ UNCHANGED <<nextpool, prevpool>> /\ ~NoneUsed(n) /\ bp = freeblock[p]
      /\ count' = [count EXCEPT ![p] = @ + 1]
      /\ UNCHANGED <<szidx, capacity, freepools, arenacnt, watermark>>
  BY DEF Extend, Used, Room
<1>2. /\ c \in Classes /\ p \in UsedPools(c) /\ p \in Pools /\ p \in Committed
      /\ szidx[p] = c /\ count[p] \in Nat /\ count[p] < Cap(c) /\ capacity[p] = Cap(c)
      /\ Cap(c) \in Nat /\ PoolOK(p, c, count[p], freeblock[p], mem, Held)
  BY <1>1, FrontFacts
<1>3. /\ \A m2 : m2[new] = Nil => PoolOK(p, c, count[p] + 1, new, m2, Held \union {bp})
      /\ new \in Cut(p, c, Cap(c)) /\ new \notin Held
  <2>1. ASSUME NEW m2, m2[new] = Nil
        PROVE  /\ PoolOK(p, c, count[p] + 1, new, m2, Held \union {bp})
               /\ new \in Cut(p, c, Cap(c)) /\ new \notin Held
    <3>1. count[p] # Cap(c) /\ count[p] + 1 < Cap(c) /\ mem[bp] = Nil
      BY <1>1, <1>2
    <3>2. PoolOK(p, c, count[p], bp, mem, Held) /\ p \in Pools
      BY <1>1, <1>2
    <3>3. new = Start(p) + (count[p] + 1) * BlockUnits(c)
      OBVIOUS
    <3> HIDE DEF new, p, c
    <3> QED
      BY <2>1, <3>1, <3>2, <3>3, PoolExtend
  <2>2. [i \in {new} |-> Nil][new] = Nil
    OBVIOUS
  <2> QED
    BY <2>1, <2>2
<1> HIDE DEF p, new
<1>4. /\ InPool(new) /\ PoolOf(new) = p /\ new \in Cells /\ Home(new) = new
  BY <1>2, <1>3, CutHome
<1>5. /\ HeapType' /\ freeblock'[p] = new /\ mem'[new] = Nil
      /\ \A q \in Pools : q # p => freeblock'[q] = freeblock[q]
      /\ \A x \in Cells : x # new => mem'[x] = mem[x]
  <2>1. HeapType
    BY DEF HeapInv
  <2>2. /\ mem' = [a \in Cells |-> mem'[a]] /\ mem'[new] = Nil
        /\ \A x \in Cells : x # new => mem'[x] = mem[x]
    BY <1>1, <1>4, <2>1 DEF HeapType
  <2>3. /\ freeblock' = [q \in Pools |-> freeblock'[q]] /\ freeblock'[p] = new
        /\ \A q \in Pools : q # p => freeblock'[q] = freeblock[q]
    BY <1>1, <1>2, <2>1 DEF HeapType, p
  <2>4. count' \in [Pools -> Nat]
    BY <1>1, <1>2, <2>1 DEF HeapType, p
  <2> QED
    BY <1>1, <2>1, <2>2, <2>3, <2>4 DEF HeapType
<1>6. ListOK(Header(c), UsedPools(c)', nextpool', prevpool')
  <2> DEFINE k == count[p] + 1
  <2>1. count' = [count EXCEPT ![p] = k] /\ k \in 1 .. capacity[p] - 1
    BY <1>1, <1>2 DEF p
  <2> HIDE DEF k
  <2> QED
    BY <1>1, <1>2, <2>1, UsedStays
<1>7. OnlyMemory(p) /\ OnlyLinks(p, c)
  BY <1>1, <1>4, <1>5 DEF OnlyMemory, OnlyLinks
<1>8. PoolOK(p, c, count[p] + 1, freeblock'[p], mem', Held \union {bp})
  BY <1>3, <1>5
<1>9. \A b \in live : \A x \in Units(b) : mem'[x] = mem[x]
  <2> SUFFICES ASSUME NEW b \in live, NEW x \in Units(b) PROVE mem'[x] = mem[x]
    OBVIOUS
  <2>1. x \in Cells /\ Home(x) = b.at /\ b.at \in Held
    BY LiveHome DEF Held
  <2> QED
    BY <1>3, <1>4, <1>5, <2>1
<1> QED
  BY <1>1, <1>5, <1>6, <1>7, <1>8, <1>9, UsedStep DEF p

\* The links without those of p, which its neighbours take over.
Unlinked(p, nx2, pv2) ==
  \A y \in Nodes \ {p} : /\ nx2[y] = IF y = prevpool[p] THEN nextpool[p] ELSE nextpool[y]
                         /\ pv2[y] = IF y = nextpool[p] THEN prevpool[p] ELSE prevpool[y]
OthersKept(p, c, nx2, pv2) ==
  \A y \in Nodes \ (UsedPools(c) \union {Header(c), p}) :
    nx2[y] = nextpool[y] /\ pv2[y] = prevpool[y]

LEMMA UnlinkStep ==
  ASSUME HeapInv, NEW c \in Classes, NEW p \in UsedPools(c), NEW nx2, NEW pv2,
         Unlinked(p, nx2, pv2)
  PROVE  /\ ListOK(Header(c), UsedPools(c) \ {p}, nx2, pv2) /\ OthersKept(p, c, nx2, pv2)
         /\ prevpool[p] \in Nodes /\ nextpool[p] \in Nodes /\ prevpool[p] # p /\ nextpool[p] # p
<1>1. ListOK(Header(c), UsedPools(c), nextpool, prevpool)
  BY DEF HeapInv, LinksOK
<1>2. /\ nextpool[p] \in UsedPools(c) \union {Header(c)} /\ nextpool[p] # p
      /\ prevpool[p] \in UsedPools(c) \union {Header(c)} /\ prevpool[p] # p
  BY <1>1, ListNeighbours
<1>3. UsedPools(c) \subseteq Nodes /\ Header(c) \in Nodes /\ Header(c) \notin UsedPools(c)
  BY <1>1, ListsApart, ClassFacts, ListHead
<1>4. \A y \in (UsedPools(c) \ {p}) \union {Header(c)} :
        /\ nx2[y] = IF y = prevpool[p] THEN nextpool[p] ELSE nextpool[y]
        /\ pv2[y] = IF y = nextpool[p] THEN prevpool[p] ELSE prevpool[y]
  BY <1>3 DEF Unlinked
<1>5. ListOK(Header(c), UsedPools(c) \ {p}, nx2, pv2)
  BY <1>1, <1>4, ListUnlink
<1> QED
  BY <1>2, <1>3, <1>5 DEF Unlinked, OthersKept

LEMMA LastOfPoolStep ==
  ASSUME HeapInv, NEW n, NEW bp, Small(n), LastOfPool(n, bp), Held' = Held \union {bp}, sys' = sys
  PROVE  Took(n, bp)
<1> DEFINE c == ClassOf(n)
           p == FrontPool(n)
<1>1. /\ Used(n, bp) /\ mem[bp] = Nil /\ ~(count[p] + 1 < capacity[p])
      /\ freeblock' = [freeblock EXCEPT ![p] = Nil]
      /\ nextpool' = [nextpool EXCEPT ![prevpool[p]] = nextpool[p]]
      /\ prevpool' = [prevpool EXCEPT ![nextpool[p]] = prevpool[p]]
      /\ UNCHANGED mem /\ ~NoneUsed(n) /\ bp = freeblock[p]
      /\ count' = [count EXCEPT ![p] = @ + 1]
      /\ UNCHANGED <<szidx, capacity, freepools, arenacnt, watermark>>
  BY DEF LastOfPool, Used, Room, Unlink
<1>2. /\ c \in Classes /\ p \in UsedPools(c) /\ p \in Pools /\ p \in Committed
      /\ szidx[p] = c /\ count[p] \in Nat /\ count[p] < Cap(c) /\ capacity[p] = Cap(c)
      /\ Cap(c) \in Nat /\ PoolOK(p, c, count[p], freeblock[p], mem, Held)
  BY <1>1, FrontFacts
<1>3. PoolOK(p, c, count[p] + 1, Nil, mem, Held \union {bp}) /\ count[p] + 1 = Cap(c)
  BY <1>1, <1>2, PoolLast
<1> HIDE DEF p
<1>4. /\ HeapType' /\ freeblock'[p] = Nil /\ count'[p] = count[p] + 1
      /\ \A q \in Pools : q # p => freeblock'[q] = freeblock[q] /\ count'[q] = count[q]
  <2>1. HeapType
    BY DEF HeapInv
  <2>2. nextpool' = [x \in Nodes |-> nextpool'[x]]
    BY <1>1, <2>1 DEF HeapType
  <2>3. prevpool' = [x \in Nodes |-> prevpool'[x]]
    BY <1>1, <2>1 DEF HeapType
  <2>4. /\ freeblock' = [q \in Pools |-> freeblock'[q]] /\ freeblock'[p] = Nil
        /\ \A q \in Pools : q # p => freeblock'[q] = freeblock[q]
    BY <1>1, <1>2, <2>1 DEF HeapType, p
  <2>5. /\ count' \in [Pools -> Nat] /\ count'[p] = count[p] + 1
        /\ \A q \in Pools : q # p => count'[q] = count[q]
    BY <1>1, <1>2, <2>1 DEF HeapType, p
  <2> QED
    BY <1>1, <2>1, <2>2, <2>3, <2>4, <2>5 DEF HeapType
<1>5. Committed' = Committed /\ Committed \subseteq Pools
  BY <1>1, CommittedFacts DEF Committed, HeapInv
<1>6. \A y \in Nodes \ {p} :
        /\ nextpool'[y] = IF y = prevpool[p] THEN nextpool[p] ELSE nextpool[y]
        /\ prevpool'[y] = IF y = nextpool[p] THEN prevpool[p] ELSE prevpool[y]
  <2> TAKE y \in Nodes \ {p}
  <2>1. nextpool = [x \in Nodes |-> nextpool[x]] /\ prevpool = [x \in Nodes |-> prevpool[x]]
    BY DEF HeapInv, HeapType
  <2>2. /\ nextpool' = [nextpool EXCEPT ![prevpool[p]] = nextpool[p]]
        /\ prevpool' = [prevpool EXCEPT ![nextpool[p]] = prevpool[p]]
    BY <1>1 DEF p
  <2>3. nextpool'[y] = IF y = prevpool[p] THEN nextpool[p] ELSE nextpool[y]
    BY <2>1, <2>2
  <2>4. prevpool'[y] = IF y = nextpool[p] THEN prevpool[p] ELSE prevpool[y]
    BY <2>1, <2>2
  <2> QED
    BY <2>3, <2>4
<1>7. ListOK(Header(c), UsedPools(c) \ {p}, nextpool', prevpool') /\ OnlyLinks(p, c)
  <2> HIDE DEF c
  <2>1. c \in Classes /\ p \in UsedPools(c)
    BY <1>2
  <2> DEFINE nx2 == nextpool'
             pv2 == prevpool'
  <2>2. Unlinked(p, nx2, pv2)
    BY <1>6 DEF Unlinked
  <2> HIDE DEF nx2, pv2
  <2>3. ListOK(Header(c), UsedPools(c) \ {p}, nx2, pv2) /\ OthersKept(p, c, nx2, pv2)
    BY <2>1, <2>2, UnlinkStep
  <2> QED
    BY <2>3 DEF OnlyLinks, OthersKept, nx2, pv2
<1>8. ListOK(Header(c), UsedPools(c)', nextpool', prevpool')
  <2>1. p \notin UsedPools(c)'
    BY <1>1, <1>2, <1>3, <1>4 DEF UsedPools
  <2>2. \A q : q # p => (q \in UsedPools(c)' <=> q \in UsedPools(c))
    BY <1>1, <1>4, <1>5 DEF UsedPools
  <2>3. \A q : q \in UsedPools(c)' <=> q \in UsedPools(c) \ {p}
    BY <2>1, <2>2
  <2>4. UsedPools(c)' = UsedPools(c) \ {p}
    BY <2>3
  <2> QED
    BY <1>7, <2>4
<1>9. OnlyMemory(p)
  BY <1>1 DEF OnlyMemory
<1>10. PoolOK(p, c, count[p] + 1, freeblock'[p], mem', Held \union {bp})
  BY <1>1, <1>3, <1>4
<1>11. \A b \in live : \A x \in Units(b) : mem'[x] = mem[x]
  BY <1>1
<1> QED
  BY <1>1, <1>4, <1>7, <1>8, <1>9, <1>10, <1>11, UsedStep DEF p

LEMMA NoneHeld ==
  ASSUME HeapInv, NEW p \in Pools, p \in Committed => count[p] = 0
  PROVE  HeldIn(p, Held) = {}
<1>1. CASE p \in Committed
  <2>1. PoolOK(p, szidx[p], count[p], freeblock[p], mem, Held)
    BY <1>1 DEF HeapInv, BlocksOK
  <2>2. szidx[p] \in Classes /\ count[p] \in Nat /\ Cardinality(HeldIn(p, Held)) = count[p]
    BY <2>1 DEF PoolOK
  <2>3. PICK f, n : Path(f, n, freeblock[p], mem, Nil) /\ FreeList(p, szidx[p], count[p], Held, f, n)
    BY <2>1 DEF PoolOK
  <2>4. n \in Nat
    BY <2>3 DEF Path
  <2>5. IsFiniteSet(HeldIn(p, Held))
    BY <2>2, <2>3, <2>4, PoolShape
  <2> QED
    BY <1>1, <2>2, <2>5, FS_EmptySet
<1>2. CASE p \notin Committed
  <2>1. ASSUME NEW a \in HeldIn(p, Held) PROVE FALSE
    <3>1. PICK b \in live : a = b.at /\ InPool(b.at) /\ PoolOf(b.at) = p
      BY DEF HeldIn, Held
    <3> QED
      BY <1>2, <3>1, HeldPool
  <2> QED
    BY <2>1
<1> QED
  BY <1>1, <1>2

\* What init_pool does to the pool itself, whether its blocks are of the class already
\* or it is cut anew.
LEMMA InitPoolBlocks ==
  ASSUME HeapInv, NEW p \in Pools, NEW c \in Classes, NEW idx, NEW rest, NEW bp,
         InitPool(p, c, idx, rest, bp),
         p \in Committed => count[p] = 0 /\ idx = szidx[p],
         p \notin Committed => idx = Dummy
  PROVE  /\ PoolOK(p, c, 1, freeblock'[p], mem', Held \union {bp})
         /\ szidx'[p] = c /\ capacity'[p] = Cap(c)
         /\ bp \in Cells /\ bp \notin Held /\ InPool(bp) /\ PoolOf(bp) = p
         /\ mem' = [a \in Cells |-> mem'[a]] /\ OnlyMemory(p)
         /\ freeblock' = [q \in Pools |-> freeblock'[q]] /\ szidx' = [q \in Pools |-> szidx'[q]]
         /\ capacity' \in [Pools -> Nat]
         /\ \A q \in Pools : q # p => /\ freeblock'[q] = freeblock[q] /\ szidx'[q] = szidx[q]
                                      /\ capacity'[q] = capacity[q]
<1> DEFINE u == BlockUnits(c)
           new == Start(p) + u
<1>0. HeapType /\ Cap(c) \in Nat /\ Cap(c) >= 2 /\ c # Dummy
  BY CapFacts, ClassFacts DEF HeapInv
<1>1. CASE idx = c
  <2>1. /\ bp = freeblock[p] /\ freeblock' = [freeblock EXCEPT ![p] = mem[bp]]
        /\ UNCHANGED <<mem, szidx, capacity>>
    BY <1>1 DEF InitPool
  <2>2. p \in Committed /\ count[p] = 0 /\ szidx[p] = c
    BY <1>0, <1>1
  <2>3. PoolOK(p, c, 0, bp, mem, Held) /\ capacity[p] = Cap(c)
    BY <2>1, <2>2 DEF HeapInv, BlocksOK
  <2>4. 0 # Cap(c) /\ 0 + 1 = 1
    BY <1>0
  <2>5. bp \in Cut(p, c, Cap(c)) /\ bp \notin Held /\ mem[bp] # Nil
    BY <2>3, <2>4, PoolFirst
  <2>6. PoolOK(p, c, 0 + 1, mem[bp], mem, Held \union {bp})
    BY <2>3, <2>4, <2>5, PoolTake
  <2>7. InPool(bp) /\ PoolOf(bp) = p /\ bp \in Cells
    BY <2>5, CutFacts
  <2>8. /\ freeblock'[p] = mem[bp] /\ freeblock' = [q \in Pools |-> freeblock'[q]]
        /\ \A q \in Pools : q # p => freeblock'[q] = freeblock[q]
    BY <1>0, <2>1 DEF HeapType
  <2>9. PoolOK(p, c, 1, freeblock'[p], mem', Held \union {bp})
    BY <2>1, <2>4, <2>6, <2>8
  <2> QED
    BY <1>0, <2>1, <2>2, <2>3, <2>5, <2>7, <2>8, <2>9 DEF HeapType, OnlyMemory
<1>2. CASE idx # c
  <2>1. /\ bp = Start(p) /\ szidx' = [szidx EXCEPT ![p] = c]
        /\ freeblock' = [freeblock EXCEPT ![p] = bp + u]
        /\ mem' = [a \in Cells |-> IF a = bp + u THEN Nil
                                  ELSE IF PoolOf(a) = p THEN Junk ELSE mem[a]]
        /\ capacity' = [capacity EXCEPT ![p] = PoolUnits \div u]
    BY <1>2 DEF InitPool
  <2> HIDE DEF u
  <2>2. HeldIn(p, Held) = {}
    BY NoneHeld
  <2>3. new = Start(p) + BlockUnits(c)
    BY DEF u
  <2>4. /\ freeblock' = [q \in Pools |-> freeblock'[q]] /\ freeblock'[p] = new
        /\ \A q \in Pools : q # p => freeblock'[q] = freeblock[q]
    BY <1>0, <2>1 DEF HeapType
  <2>5. /\ szidx' = [q \in Pools |-> szidx'[q]] /\ szidx'[p] = c
        /\ \A q \in Pools : q # p => szidx'[q] = szidx[q]
    BY <1>0, <2>1 DEF HeapType
  <2>6. /\ capacity' \in [Pools -> Nat] /\ capacity'[p] = Cap(c)
        /\ \A q \in Pools : q # p => capacity'[q] = capacity[q]
    <3>1. Cap(c) = PoolUnits \div u
      BY DEF Cap, u
    <3> QED
      BY <1>0, <2>1, <3>1 DEF HeapType
  <2>7. /\ new \in Cut(p, c, Cap(c)) /\ bp \in Cut(p, c, Cap(c)) /\ bp \notin Held
        /\ \A m2 : m2[new] = Nil => PoolOK(p, c, 1, new, m2, Held \union {bp})
    <3>1. \A m2 : m2[new] = Nil =>
             /\ PoolOK(p, c, 1, new, m2, Held \union {bp}) /\ Start(p) \in Cut(p, c, Cap(c))
             /\ Start(p) \notin Held /\ new \in Cut(p, c, Cap(c))
      <4> SUFFICES ASSUME NEW m2, m2[new] = Nil
                   PROVE  /\ PoolOK(p, c, 1, new, m2, Held \union {Start(p)})
                          /\ Start(p) \in Cut(p, c, Cap(c))
                          /\ Start(p) \notin Held /\ new \in Cut(p, c, Cap(c))
        BY <2>1
      <4> HIDE DEF new
      <4> QED
        BY <2>2, <2>3, PoolFresh
    <3>2. [i \in {new} |-> Nil][new] = Nil
      OBVIOUS
    <3> QED
      BY <2>1, <3>1, <3>2
  <2>8. /\ InPool(new) /\ PoolOf(new) = p /\ new \in Cells
        /\ InPool(bp) /\ PoolOf(bp) = p /\ bp \in Cells
    BY <2>7, CutFacts
  <2>9. mem' = [a \in Cells |-> mem'[a]] /\ mem'[new] = Nil
    BY <2>1, <2>8
  <2>10. OnlyMemory(p)
    <3> SUFFICES ASSUME NEW x \in Cells, ~(InPool(x) /\ PoolOf(x) = p) PROVE mem'[x] = mem[x]
      BY DEF OnlyMemory
    <3>1. PoolOf(x) = p => InPool(x)
      <4> SUFFICES ASSUME PoolOf(x) = p PROVE x < PoolCells
        BY DEF InPool
      <4>1. /\ PoolUnits \in Nat \ {0} /\ x \in Int /\ p <= ArenaPools * MaxArenas
            /\ p \in Nat /\ ArenaPools * MaxArenas \in Nat
            /\ PoolCells = ArenaPools * MaxArenas * PoolUnits
        BY Sizes, PoolFacts DEF Cells
      <4> DEFINE d == x \div PoolUnits
                 r == x % PoolUnits
                 N == ArenaPools * MaxArenas
      <4>2. d \in Int /\ x = PoolUnits * d + r /\ r \in 0 .. PoolUnits - 1 /\ d + 1 = p
        BY <4>1, DivMod, ModRange DEF PoolOf
      <4>3. N \in Nat /\ p <= N /\ PoolCells = N * PoolUnits
        BY <4>1
      <4> HIDE DEF d, r, N
      <4>4. p * PoolUnits <= N * PoolUnits
        BY <4>1, <4>3, TimesMonotonic
      <4>5. p * PoolUnits = PoolUnits * d + PoolUnits
        BY <4>1, <4>2
      <4>6. PoolUnits * d \in Int /\ N * PoolUnits \in Int
        BY <4>1, <4>2, <4>3
      <4> QED
        BY <4>1, <4>2, <4>3, <4>4, <4>5, <4>6
    <3> QED
      BY <2>1, <2>8, <3>1
  <2>11. PoolOK(p, c, 1, freeblock'[p], mem', Held \union {bp})
    BY <2>4, <2>7, <2>9
  <2> QED
    BY <2>4, <2>5, <2>6, <2>7, <2>8, <2>9, <2>10, <2>11
<1> QED
  BY <1>1, <1>2

LEMMA InitPoolStep ==
  ASSUME HeapInv, NEW p \in Pools, NEW n, Small(n), NEW idx, NEW rest, NEW bp,
         InitPool(p, ClassOf(n), idx, rest, bp), Held' = Held \union {bp}, sys' = sys,
         p \in Committed => count[p] = 0 /\ idx = szidx[p],
         p \notin Committed => idx = Dummy,
         Committed' = Committed \union {p}, NoneUsed(n),
         arenacnt' \in 0 .. MaxArenas, watermark' \in 1 .. ArenaPools,
         arenacnt' = 0 => watermark' = ArenaPools,
         CachedOK(rest, EmptyPools \ {p}, nextpool)
  PROVE  Took(n, bp)
<1> DEFINE c == ClassOf(n)
           h == Header(c)
<1>1. /\ nextpool' = [nextpool EXCEPT ![p] = h, ![h] = p]
      /\ prevpool' = [prevpool EXCEPT ![p] = h, ![h] = p]
      /\ count' = [count EXCEPT ![p] = 1] /\ freepools' = rest
  BY DEF InitPool
<1>2. c \in Classes
  BY Sizes DEF Small, ClassOf, Classes
<1>3. HeapType /\ Cap(c) \in Nat /\ Cap(c) >= 2 /\ h \in Nodes /\ p \in Nodes /\ p # h
      /\ p # Nil
  BY <1>2, CapFacts, ClassFacts, ListsApart, PoolFacts DEF HeapInv
<1>4. UsedPools(c) = {}
  <2>1. ListOK(h, UsedPools(c), nextpool, prevpool)
    BY <1>2 DEF HeapInv, LinksOK
  <2> QED
    BY <2>1, ListHead DEF NoneUsed, FrontPool
<1>5. /\ PoolOK(p, c, 1, freeblock'[p], mem', Held \union {bp})
      /\ szidx'[p] = c /\ capacity'[p] = Cap(c)
      /\ bp \in Cells /\ bp \notin Held /\ InPool(bp) /\ PoolOf(bp) = p
      /\ mem' = [a \in Cells |-> mem'[a]] /\ OnlyMemory(p)
      /\ freeblock' = [q \in Pools |-> freeblock'[q]] /\ szidx' = [q \in Pools |-> szidx'[q]]
      /\ capacity' \in [Pools -> Nat]
      /\ \A q \in Pools : q # p => /\ freeblock'[q] = freeblock[q] /\ szidx'[q] = szidx[q]
                                   /\ capacity'[q] = capacity[q]
  BY <1>2, InitPoolBlocks
<1> HIDE DEF h
<1>6. /\ count' \in [Pools -> Nat] /\ count'[p] = 1
      /\ \A q \in Pools : q # p => count'[q] = count[q]
  BY <1>1, <1>3 DEF HeapType
<1>7. /\ nextpool' = [x \in Nodes |-> nextpool'[x]] /\ nextpool'[p] = h /\ nextpool'[h] = p
      /\ \A y \in Nodes : y # p /\ y # h => nextpool'[y] = nextpool[y]
  BY <1>1, <1>3 DEF HeapType
<1>8. /\ prevpool' = [x \in Nodes |-> prevpool'[x]] /\ prevpool'[p] = h /\ prevpool'[h] = p
      /\ \A y \in Nodes : y # p /\ y # h => prevpool'[y] = prevpool[y]
  BY <1>1, <1>3 DEF HeapType
<1>9. HeapType'
  BY <1>3, <1>5, <1>6, <1>7, <1>8 DEF HeapType
<1>10. Committed \subseteq Pools
  BY <1>3, CommittedFacts
<1>11. OnlyPool(p)
  BY <1>5, <1>6, <1>10 DEF OnlyPool
<1>12. OnlyLinks(p, c)
  BY <1>7, <1>8 DEF OnlyLinks, h
<1>13. \A q \in Committed \ {p} : HeldIn(q, Held') = HeldIn(q, Held)
  BY <1>5 DEF HeldIn
<1>14. BlocksOK'
  <2>1. PoolOK(p, szidx'[p], count'[p], freeblock'[p], mem', Held')
    BY <1>5, <1>6
  <2> QED
    BY <1>5, <1>11, <1>13, <2>1, BlocksStep
<1>15. LinksOK'
  <2>1. \A q : q \in UsedPools(c)' <=> q = p
    <3>1. p \in UsedPools(c)'
      BY <1>2, <1>3, <1>5, <1>6, <1>11, SetsStep
    <3> QED
      BY <1>2, <1>4, <1>11, <3>1, SetsStep
  <2>2. UsedPools(c)' = {p}
    BY <2>1
  <2>3. ListOK(h, {p}, nextpool', prevpool')
    BY <1>3, <1>7, <1>8, ListOne
  <2>4. \A q : q \in EmptyPools' <=> q \in EmptyPools \ {p}
    BY <1>6, <1>11, SetsStep
  <2>5. EmptyPools' = EmptyPools \ {p}
    BY <2>4
  <2>6. CachedOK(freepools', EmptyPools', nextpool')
    BY <1>1, <1>2, <1>11, <1>12, <2>5, CachedStays
  <2>7. \A d \in Classes \ {c} : p \notin UsedPools(d) /\ szidx'[p] # d
    BY <1>5 DEF UsedPools
  <2> QED
    BY <1>2, <1>11, <1>12, <2>2, <2>3, <2>6, <2>7, LinksStep DEF h
<1>16. HeldIn(p, Held) = {}
  BY NoneHeld
<1>17. ASSUME NEW b \in live
       PROVE  ~(InPool(b.at) /\ PoolOf(b.at) = p)
  BY <1>16 DEF HeldIn, Held
<1>18. \A b \in live : InPool(b.at) => szidx'[PoolOf(b.at)] = szidx[PoolOf(b.at)]
  BY <1>5, <1>17, HeldPool
<1>19. \A b \in live : \A x \in Units(b) : mem'[x] = mem[x]
  <2> SUFFICES ASSUME NEW b \in live, NEW x \in Units(b) PROVE mem'[x] = mem[x]
    OBVIOUS
  <2>1. x \in Cells /\ (InPool(x) <=> InPool(b.at)) /\ (InPool(b.at) => PoolOf(x) = PoolOf(b.at))
    BY LiveHome
  <2> QED
    BY <1>5, <1>17, <2>1 DEF OnlyMemory
<1> QED
  BY <1>5, <1>9, <1>14, <1>15, <1>18, <1>19 DEF Took

LEMMA FromCachedStep ==
  ASSUME HeapInv, NEW n, NEW bp, Small(n), FromCached(n, bp), Held' = Held \union {bp}, sys' = sys
  PROVE  Took(n, bp)
<1> DEFINE p == freepools
<1>1. /\ NoneUsed(n) /\ p # Nil /\ UNCHANGED <<arenacnt, watermark>>
      /\ InitPool(p, ClassOf(n), szidx[p], nextpool[p], bp)
  BY DEF FromCached
<1>2. CachedOK(p, EmptyPools, nextpool)
  BY DEF HeapInv, LinksOK
<1>3. p \in EmptyPools /\ CachedOK(nextpool[p], EmptyPools \ {p}, nextpool)
  BY <1>1, <1>2, CachedPop
<1>4. p \in Committed /\ p \in Pools /\ count[p] = 0 /\ HeapType
  BY <1>3, CommittedFacts DEF EmptyPools, HeapInv
<1> HIDE DEF p
<1>5. Committed' = Committed \union {p}
  BY <1>1, <1>4 DEF Committed
<1>6. /\ arenacnt' \in 0 .. MaxArenas /\ watermark' \in 1 .. ArenaPools
      /\ arenacnt' = 0 => watermark' = ArenaPools
  BY <1>1, <1>4 DEF HeapType
<1> QED
  BY <1>1, <1>3, <1>4, <1>5, <1>6, InitPoolStep

LEMMA FromArenaStep ==
  ASSUME HeapInv, NEW n, NEW bp, Small(n), FromArena(n, bp), Held' = Held \union {bp}, sys' = sys
  PROVE  Took(n, bp)
<1> DEFINE T == (arenacnt - 1) * ArenaPools + watermark
           p == (arenacnt' - 1) * ArenaPools + watermark'
<1>1. /\ NoneUsed(n) /\ freepools = Nil
      /\ \/ watermark < ArenaPools /\ watermark' = watermark + 1 /\ arenacnt' = arenacnt
         \/ /\ watermark = ArenaPools /\ arenacnt < MaxArenas
            /\ watermark' = 1 /\ arenacnt' = arenacnt + 1
      /\ InitPool(p, ClassOf(n), Dummy, Nil, bp)
  BY DEF FromArena
<1>2. HeapType
  BY DEF HeapInv
<1>3. /\ arenacnt \in 0 .. MaxArenas /\ watermark \in 1 .. ArenaPools
      /\ arenacnt = 0 => watermark = ArenaPools
      /\ ArenaPools \in Nat \ {0} /\ MaxArenas \in Nat
  BY <1>2, Sizes DEF HeapType
<1>4. T \in Nat /\ Committed = 1 .. T
  BY <1>2, CommittedFacts DEF Committed
<1>5. /\ arenacnt' \in 1 .. MaxArenas /\ watermark' \in 1 .. ArenaPools /\ p = T + 1
  <2>1. CASE watermark < ArenaPools /\ watermark' = watermark + 1 /\ arenacnt' = arenacnt
    <3>1. p = (arenacnt - 1) * ArenaPools + (watermark + 1)
      BY <2>1
    <3>2. (arenacnt - 1) * ArenaPools \in Int
      BY <1>3
    <3>3. p = T + 1
      BY <1>3, <3>1, <3>2
    <3> QED
      BY <1>3, <2>1, <3>3
  <2>2. CASE watermark = ArenaPools /\ arenacnt < MaxArenas /\ watermark' = 1 /\ arenacnt' = arenacnt + 1
    <3>1. p = ((arenacnt + 1) - 1) * ArenaPools + 1
      BY <2>2
    <3>2. ((arenacnt + 1) - 1) * ArenaPools = (arenacnt - 1) * ArenaPools + ArenaPools
      BY <1>3
    <3>3. (arenacnt - 1) * ArenaPools \in Int
      BY <1>3
    <3>4. p = T + 1
      BY <1>3, <2>2, <3>1, <3>2, <3>3
    <3> QED
      BY <1>3, <2>2, <3>4
  <2> QED
    BY <1>1, <2>1, <2>2
<1>6. p \in Pools
  <2> DEFINE a == arenacnt'
             w == watermark'
  <2>0. p = (a - 1) * ArenaPools + w /\ a \in 1 .. MaxArenas /\ w \in 1 .. ArenaPools
    BY <1>5
  <2> HIDE DEF a, w, p
  <2>1. a * ArenaPools <= MaxArenas * ArenaPools
    BY <1>3, <2>0, TimesMonotonic
  <2>2. p = a * ArenaPools - ArenaPools + w /\ a * ArenaPools \in Int
    BY <1>3, <2>0
  <2>3. MaxArenas * ArenaPools = ArenaPools * MaxArenas /\ ArenaPools * MaxArenas \in Int
    BY <1>3
  <2>4. p \in Int /\ p <= ArenaPools * MaxArenas
    BY <1>3, <2>0, <2>1, <2>2, <2>3
  <2>5. p >= 1
    BY <1>4, <1>5
  <2> QED
    BY <2>3, <2>4, <2>5 DEF Pools
<1>7. Committed' = Committed \union {p} /\ p \notin Committed
  <2>1. Committed' = 1 .. p
    BY DEF Committed
  <2> HIDE DEF p, T
  <2>2. \A x : x \in 1 .. p <=> x \in 1 .. T \/ x = p
    BY <1>4, <1>5
  <2> QED
    BY <1>4, <1>5, <2>1, <2>2
<1>8. CachedOK(Nil, EmptyPools \ {p}, nextpool)
  <2>1. CachedOK(freepools, EmptyPools, nextpool)
    BY DEF HeapInv, LinksOK
  <2>2. EmptyPools = {}
    BY <1>1, <2>1, CachedPop
  <2>3. EmptyPools \ {p} = EmptyPools
    BY <2>2
  <2> QED
    BY <1>1, <2>1, <2>3
<1>9. arenacnt' \in 0 .. MaxArenas /\ (arenacnt' = 0 => watermark' = ArenaPools)
  BY <1>3, <1>5
<1> HIDE DEF p, T
<1> QED
  BY <1>1, <1>5, <1>6, <1>7, <1>8, <1>9, InitPoolStep

\* What pr_malloc gives nobody had, and everybody else's blocks stay.
Gave(n, bp) ==
  /\ HeapType' /\ BlocksOK' /\ LinksOK'
  /\ bp \in Cells /\ bp \notin Held
  /\ \A t, k : Fits(Block(t, bp, n, k))'
  /\ \A b \in live : Fits(b)'
  /\ \A b \in live : \A x \in Units(b) : mem'[x] = mem[x]

LEMMA SmallStep ==
  ASSUME HeapInv, NEW n \in 1 .. MaxUnits, NEW bp, Small(n), SmallBlock(n, bp),
         Held' = Held \union {bp}, sys' = sys
  PROVE  Gave(n, bp)
<1>1. Took(n, bp)
  <2>1. CASE FromList(n, bp)
    BY <2>1, FromListStep
  <2>2. CASE Extend(n, bp)
    BY <2>2, ExtendStep
  <2>3. CASE LastOfPool(n, bp)
    BY <2>3, LastOfPoolStep
  <2>4. CASE FromCached(n, bp)
    BY <2>4, FromCachedStep
  <2>5. CASE FromArena(n, bp)
    BY <2>5, FromArenaStep
  <2> QED
    BY <2>1, <2>2, <2>3, <2>4, <2>5 DEF SmallBlock
<1>2. BlockUnits(ClassOf(n)) = n
  BY DEF BlockUnits, ClassOf
<1>3. ASSUME NEW t, NEW k PROVE Fits(Block(t, bp, n, k))'
  <2>1. Block(t, bp, n, k).at = bp /\ Block(t, bp, n, k).units = n
    BY DEF Block
  <2>2. IF InPool(bp)
        THEN PoolOf(bp) \in Committed' /\ n <= BlockUnits(szidx'[PoolOf(bp)])
        ELSE bp \in sys' /\ n <= MaxUnits
    BY <1>1, <1>2 DEF Took
  <2>3. Block(t, bp, n, k)' = Block(t, bp, n, k)
    BY DEF Block
  <2> QED
    BY <2>1, <2>2, <2>3 DEF Fits
<1>4. ASSUME NEW b \in live PROVE Fits(b)'
  <2>1. Fits(b)
    BY DEF HeapInv, LiveOK
  <2> QED
    BY <1>1, <2>1 DEF Fits, Took
<1> QED
  BY <1>1, <1>3, <1>4 DEF Took, Gave

LEMMA RedirectStep ==
  ASSUME HeapInv, NEW n \in 1 .. MaxUnits, NEW bp, Redirect(n, bp), Held' = Held \union {bp}
  PROVE  Gave(n, bp)
<1>1. bp \in SysAddresses \ sys /\ sys' = sys \union {bp} /\ UNCHANGED <<mem, pools>>
  BY DEF Redirect
<1>2. /\ UNCHANGED <<count, freeblock, nextpool, prevpool, szidx, capacity>>
      /\ UNCHANGED <<freepools, arenacnt, watermark>>
  BY <1>1 DEF pools, headers
<1>3. ~InPool(bp) /\ bp \in Cells
  BY <1>1, SysHome
<1>4. Committed' = Committed /\ Committed \subseteq Pools
  BY <1>2, CommittedFacts DEF Committed, HeapInv
<1>5. HeapType'
  BY <1>1, <1>2 DEF HeapInv, HeapType
<1>6. \A q : HeldIn(q, Held') = HeldIn(q, Held)
  BY <1>3 DEF HeldIn
<1>7. BlocksOK'
  <2>1. \A q \in Committed : PoolOK(q, szidx[q], count[q], freeblock[q], mem, Held')
    BY <1>4, <1>6, PoolFrame DEF HeapInv, BlocksOK
  <2> QED
    BY <1>1, <1>2, <1>4, <2>1 DEF HeapInv, BlocksOK
<1>8. LinksOK'
  <2>1. EmptyPools' = EmptyPools /\ \A c : UsedPools(c)' = UsedPools(c)
    BY <1>2, <1>4 DEF EmptyPools, UsedPools
  <2>2. \A c : Header(c)' = Header(c)
    BY DEF Header
  <2> QED
    BY <1>2, <2>1, <2>2 DEF HeapInv, LinksOK
<1>9. bp \notin Held
  <2>1. ASSUME NEW b \in live, b.at = bp PROVE FALSE
    BY <1>1, <1>3, <2>1 DEF HeapInv, LiveOK, Fits
  <2> QED
    BY <2>1 DEF Held
<1>10. ASSUME NEW t, NEW k PROVE Fits(Block(t, bp, n, k))'
  <2>1. Block(t, bp, n, k).at = bp /\ Block(t, bp, n, k).units = n
    BY DEF Block
  <2> QED
    BY <1>1, <1>3, <2>1 DEF Fits
<1>11. ASSUME NEW b \in live PROVE Fits(b)'
  <2>1. Fits(b)
    BY DEF HeapInv, LiveOK
  <2> QED
    BY <1>1, <1>2, <1>4, <2>1 DEF Fits
<1>12. \A b \in live : \A x \in Units(b) : mem'[x] = mem[x]
  BY <1>1
<1> QED
  BY <1>3, <1>5, <1>7, <1>8, <1>9, <1>10, <1>11, <1>12 DEF Gave

LEMMA MallocStep ==
  ASSUME HeapInv, DataIntact, NEW t \in Callers, NEW n \in 1 .. MaxUnits, NEW bp, Malloc(n, bp),
         live' = live \union {Block(t, bp, n, 0)}
  PROVE  HeapInv' /\ DataIntact' /\ Block(t, bp, n, 0) \notin live /\ bp \notin Held
<1> DEFINE new == Block(t, bp, n, 0)
<1>1. new.at = bp /\ new.units = n /\ new.kept = 0 /\ new.owner = t
  BY DEF Block
<1>2. Held' = Held \union {bp}
  BY <1>1 DEF Held
<1>3. Gave(n, bp)
  BY <1>2, SmallStep, RedirectStep DEF Malloc
<1>4. HeapType' /\ BlocksOK' /\ LinksOK' /\ bp \notin Held /\ bp \in Cells
  BY <1>3 DEF Gave
<1>5. LiveOK'
  <2>1. new \in Blocks
    BY <1>4, Sizes DEF Block, Blocks
  <2>2. live' \subseteq Blocks /\ IsFiniteSet(live')
    BY <2>1, FS_AddElement DEF HeapInv, LiveOK
  <2>3. ASSUME NEW b \in live' PROVE b.kept <= b.units /\ Fits(b)'
    <3>1. CASE b \in live
      BY <1>3, <3>1 DEF HeapInv, LiveOK, Gave
    <3>2. CASE b = new
      BY <1>1, <1>3, <3>2 DEF Gave
    <3> QED
      BY <3>1, <3>2
  <2>4. \A b, c \in live' : b.at = c.at => b = c
    BY <1>1, <1>4 DEF HeapInv, LiveOK, Held
  <2> QED
    BY <2>2, <2>3, <2>4 DEF LiveOK, Blocks
<1>6. DataIntact'
  <2> SUFFICES ASSUME NEW b \in live', NEW i \in 0 .. b.kept - 1 PROVE mem'[b.at + i] = b.owner
    BY DEF DataIntact
  <2>1. b \in live
    BY <1>1
  <2>2. mem[b.at + i] = b.owner
    BY <2>1 DEF DataIntact
  <2>3. b.at + i \in Units(b)
    BY <2>1 DEF Units, HeapInv, LiveOK, Blocks, Cells
  <2> QED
    BY <1>3, <2>1, <2>2, <2>3 DEF Gave
<1> QED
  BY <1>1, <1>4, <1>5, <1>6 DEF HeapInv, Held

-----------------------------------------------------------------------------
(* pr_free *)

\* Block b is free again: everybody else's stay where and as they were.
Gone(b) ==
  /\ HeapType' /\ BlocksOK' /\ LinksOK'
  /\ \A c \in live \ {b} : Fits(c)' /\ \A x \in Units(c) : mem'[x] = mem[x]

LEMMA PoolFull ==
  ASSUME NEW p \in Pools, NEW c, NEW k, NEW first, NEW m, NEW H, PoolOK(p, c, k, first, m, H)
  PROVE  first = Nil <=> k = Cap(c)
<1>1. c \in Classes /\ k \in Nat
  BY DEF PoolOK
<1>2. PICK f, n : Path(f, n, first, m, Nil) /\ FreeList(p, c, k, H, f, n)
  BY DEF PoolOK
<1>3. n \in Nat /\ k + n \in 2 .. Cap(c) /\ Cap(c) \in Nat /\ (n = 0 => k = Cap(c))
      /\ first = (IF n = 0 THEN Nil ELSE f[1])
  BY <1>1, <1>2, CapFacts DEF Path, FreeList
<1>4. n # 0 => first # Nil
  BY <1>2, <1>3, PathPop
<1> QED
  BY <1>1, <1>3, <1>4

LEMMA PushFacts ==
  ASSUME HeapInv, NEW b \in live, InPool(b.at), PushBlock(b.at)
  PROVE  LET p == PoolOf(b.at) IN
         /\ mem' = [x \in Cells |-> mem'[x]] /\ OnlyMemory(p)
         /\ freeblock' = [q \in Pools |-> freeblock'[q]] /\ freeblock'[p] = b.at
         /\ \A q \in Pools : q # p => freeblock'[q] = freeblock[q]
         /\ \A c \in live \ {b} : \A x \in Units(c) : mem'[x] = mem[x]
         /\ PoolOK(p, szidx[p], count[p] - 1, freeblock'[p], mem', Held \ {b.at})
         /\ count[p] \in Nat /\ count[p] > 0 /\ count[p] <= Cap(szidx[p])
<1> DEFINE a == b.at
           p == PoolOf(a)
<1>1. /\ p \in Committed /\ p \in Pools /\ szidx[p] \in Classes /\ a \in HeldIn(p, Held)
      /\ a \in Cut(p, szidx[p], Cap(szidx[p]))
  BY HeldPool
<1>2. HeapType /\ PoolOK(p, szidx[p], count[p], freeblock[p], mem, Held)
  BY <1>1 DEF HeapInv, BlocksOK
<1>3. /\ mem' = [Forget(a, BlockUnits(szidx[p])) EXCEPT ![a] = freeblock[p]]
      /\ freeblock' = [freeblock EXCEPT ![p] = a]
  BY DEF PushBlock
<1>4. Span(a) = a .. a + BlockUnits(szidx[p]) - 1
  BY DEF Span, Width
<1>5. /\ a \in Cells /\ a \in Span(a)
      /\ \A x \in Span(a) : x \in Cells /\ InPool(x) /\ PoolOf(x) = p /\ Home(x) = a
  BY <1>1, CutHome
<1> HIDE DEF a, p
<1>6. /\ mem' = [x \in Cells |-> mem'[x]] /\ mem'[a] = freeblock[p]
      /\ \A x \in Cells : x \notin Span(a) => mem'[x] = mem[x]
  BY <1>3, <1>4, <1>5 DEF Forget
<1>7. /\ freeblock' = [q \in Pools |-> freeblock'[q]] /\ freeblock'[p] = a
      /\ \A q \in Pools : q # p => freeblock'[q] = freeblock[q]
  BY <1>1, <1>2, <1>3 DEF HeapType
<1>8. OnlyMemory(p)
  BY <1>5, <1>6 DEF OnlyMemory
<1>9. \A x \in Cut(p, szidx[p], Cap(szidx[p])) : x \notin Held => mem'[x] = mem[x]
  <2> SUFFICES ASSUME NEW x \in Cut(p, szidx[p], Cap(szidx[p])), x \notin Held
               PROVE  mem'[x] = mem[x]
    OBVIOUS
  <2>1. x \in Cells /\ x \in Span(x) /\ Home(x) = x
    BY <1>1, CutHome
  <2>2. x # a
    BY <1>1 DEF HeldIn
  <2> QED
    BY <1>5, <1>6, <2>1, <2>2
<1>10. /\ PoolOK(p, szidx[p], count[p] - 1, a, mem', Held \ {a})
       /\ count[p] \in Nat /\ count[p] > 0 /\ count[p] <= Cap(szidx[p])
  <2>1. mem'[a] = freeblock[p]
    BY <1>6
  <2>2. p \in Pools /\ a \in HeldIn(p, Held)
    BY <1>1
  <2>3. PoolOK(p, szidx[p], count[p], freeblock[p], mem, Held)
    BY <1>2
  <2> QED
    BY <1>9, <2>1, <2>2, <2>3, PoolRelease
<1>11. \A c \in live \ {b} : \A x \in Units(c) : mem'[x] = mem[x]
  <2> SUFFICES ASSUME NEW c \in live, c # b, NEW x \in Units(c) PROVE mem'[x] = mem[x]
    OBVIOUS
  <2>1. x \in Cells /\ x \in Span(c.at) /\ x \notin Span(a)
    BY LiveHome, Apart DEF a
  <2> QED
    BY <1>6, <2>1
<1> QED
  BY <1>6, <1>7, <1>8, <1>10, <1>11 DEF a, p

\* A block of a pool is freed, and the pool's place in the lists is right.
LEMMA ReleaseStep ==
  ASSUME HeapInv, NEW b \in live, InPool(b.at), PushBlock(b.at), Held' = Held \ {b.at},
         count' = [count EXCEPT ![PoolOf(b.at)] = @ - 1],
         UNCHANGED <<szidx, capacity, arenacnt, watermark, sys>>,
         nextpool' = [x \in Nodes |-> nextpool'[x]], prevpool' = [x \in Nodes |-> prevpool'[x]],
         OnlyLinks(PoolOf(b.at), szidx[PoolOf(b.at)]),
         ListOK(Header(szidx[PoolOf(b.at)]), UsedPools(szidx[PoolOf(b.at)])', nextpool', prevpool'),
         CachedOK(freepools', EmptyPools', nextpool')
  PROVE  Gone(b)
<1> DEFINE a == b.at
           p == PoolOf(a)
<1>1. p \in Committed /\ p \in Pools /\ szidx[p] \in Classes
  BY HeldPool
<1>2. /\ mem' = [x \in Cells |-> mem'[x]] /\ OnlyMemory(p)
      /\ freeblock' = [q \in Pools |-> freeblock'[q]]
      /\ \A q \in Pools : q # p => freeblock'[q] = freeblock[q]
      /\ \A c \in live \ {b} : \A x \in Units(c) : mem'[x] = mem[x]
      /\ PoolOK(p, szidx[p], count[p] - 1, freeblock'[p], mem', Held \ {b.at})
      /\ count[p] \in Nat /\ count[p] > 0
  BY PushFacts
<1>3. HeapType /\ capacity[p] = Cap(szidx[p])
  BY <1>1 DEF HeapInv, BlocksOK
<1>4. Committed' = Committed /\ Committed \subseteq Pools
  BY <1>3, CommittedFacts DEF Committed
<1> HIDE DEF p
<1>5. /\ count' \in [Pools -> Nat] /\ count'[p] = count[p] - 1
      /\ \A q \in Pools : q # p => count'[q] = count[q]
  BY <1>1, <1>2, <1>3 DEF HeapType, p
<1>6. HeapType'
  BY <1>2, <1>3, <1>5 DEF HeapType
<1>7. OnlyPool(p)
  BY <1>1, <1>2, <1>4, <1>5 DEF OnlyPool
<1>8. \A q \in Committed \ {p} : HeldIn(q, Held') = HeldIn(q, Held)
  BY DEF HeldIn, p
<1>9. BlocksOK'
  <2>1. PoolOK(p, szidx'[p], count'[p], freeblock'[p], mem', Held') /\ capacity'[p] = Cap(szidx'[p])
    BY <1>2, <1>3, <1>5
  <2> QED
    BY <1>1, <1>2, <1>7, <1>8, <2>1, BlocksStep
<1>10. LinksOK'
  <2>1. \A d \in Classes \ {szidx[p]} : p \notin UsedPools(d) /\ szidx'[p] # d
    BY DEF UsedPools
  <2> QED
    BY <1>1, <1>7, <2>1, LinksStep DEF p
<1>11. ASSUME NEW c \in live \ {b} PROVE Fits(c)'
  <2>1. Fits(c)
    BY DEF HeapInv, LiveOK
  <2> QED
    BY <1>4, <2>1 DEF Fits
<1> QED
  BY <1>2, <1>6, <1>9, <1>10, <1>11 DEF Gone

LEMMA FreeToFullStep ==
  ASSUME HeapInv, NEW b \in live, InPool(b.at), FreeToFull(b.at), Held' = Held \ {b.at},
         UNCHANGED <<szidx, capacity, arenacnt, watermark, sys>>
  PROVE  Gone(b)
<1> DEFINE a == b.at
           p == PoolOf(a)
           c == szidx[p]
           h == Header(c)
           next == nextpool[h]
<1>1. /\ freeblock[p] = Nil /\ PushBlock(a) /\ count' = [count EXCEPT ![p] = @ - 1]
      /\ nextpool' = [nextpool EXCEPT ![p] = next, ![prevpool[next]] = p]
      /\ prevpool' = [prevpool EXCEPT ![p] = prevpool[next], ![next] = p]
      /\ UNCHANGED freepools
  BY DEF FreeToFull
<1>2. p \in Committed /\ p \in Pools /\ c \in Classes
  BY HeldPool
<1>3. HeapType /\ PoolOK(p, c, count[p], freeblock[p], mem, Held) /\ capacity[p] = Cap(c)
  BY <1>2 DEF HeapInv, BlocksOK
<1>4. count[p] = Cap(c) /\ Cap(c) \in Nat /\ Cap(c) >= 2
  BY <1>1, <1>2, <1>3, PoolFull, CapFacts
<1>5. p \notin UsedPools(c) /\ p \notin EmptyPools
  BY <1>3, <1>4 DEF UsedPools, EmptyPools
<1>6. ListOK(h, UsedPools(c), nextpool, prevpool)
  BY <1>2 DEF HeapInv, LinksOK
<1>7. prevpool[next] = h /\ next \in UsedPools(c) \union {h} /\ h \notin UsedPools(c)
  BY <1>6, ListHead
<1>8. /\ h \in Nodes /\ p \in Nodes /\ p # h /\ UsedPools(c) \subseteq Nodes
  BY <1>2, ListsApart, ClassFacts, PoolFacts
<1> HIDE DEF p, h, next
<1>9. next # p /\ next \in Nodes
  BY <1>5, <1>7, <1>8
<1>10. /\ nextpool' = [x \in Nodes |-> nextpool'[x]] /\ nextpool'[p] = next /\ nextpool'[h] = p
       /\ \A y \in Nodes : y # p /\ y # h => nextpool'[y] = nextpool[y]
  BY <1>1, <1>3, <1>7, <1>8 DEF HeapType
<1>11. /\ prevpool' = [x \in Nodes |-> prevpool'[x]] /\ prevpool'[p] = h /\ prevpool'[next] = p
       /\ \A y \in Nodes : y # p /\ y # next => prevpool'[y] = prevpool[y]
  BY <1>1, <1>3, <1>7, <1>8, <1>9 DEF HeapType
<1>12. OnlyLinks(p, c)
  BY <1>7, <1>10, <1>11 DEF OnlyLinks, h
<1>13. ListOK(h, UsedPools(c) \union {p}, nextpool', prevpool')
  <2>1. nextpool'[p] = nextpool[h]
    BY <1>10 DEF next
  <2>2. \A y \in UsedPools(c) : /\ nextpool'[y] = nextpool[y]
                               /\ prevpool'[y] = IF y = nextpool[h] THEN p ELSE prevpool[y]
    BY <1>5, <1>7, <1>8, <1>10, <1>11 DEF next
  <2>3. prevpool'[h] = IF nextpool[h] = h THEN p ELSE prevpool[h]
    BY <1>8, <1>11 DEF next
  <2>4. BackPushed(h, UsedPools(c), nextpool, prevpool, prevpool', p)
    BY <1>11, <2>2, <2>3 DEF BackPushed
  <2> QED
    BY <1>5, <1>6, <1>8, <1>10, <2>1, <2>2, <2>4, ListPush
<1>14. Committed' = Committed /\ Committed \subseteq Pools
  BY <1>3, CommittedFacts DEF Committed
<1>15. count'[p] = Cap(c) - 1 /\ \A q \in Pools : q # p => count'[q] = count[q]
  BY <1>1, <1>2, <1>3, <1>4 DEF HeapType, p
<1>16. ListOK(h, UsedPools(c)', nextpool', prevpool')
  <2>1. p \in UsedPools(c)'
    BY <1>2, <1>3, <1>4, <1>14, <1>15 DEF UsedPools
  <2>2. \A q : q # p => (q \in UsedPools(c)' <=> q \in UsedPools(c))
    BY <1>14, <1>15 DEF UsedPools
  <2>3. \A q : q \in UsedPools(c)' <=> q \in UsedPools(c) \union {p}
    BY <2>1, <2>2
  <2>4. UsedPools(c)' = UsedPools(c) \union {p}
    BY <2>3
  <2> QED
    BY <1>13, <2>4
<1>17. CachedOK(freepools', EmptyPools', nextpool')
  <2>1. p \notin EmptyPools'
    BY <1>4, <1>15 DEF EmptyPools
  <2>2. \A q : q # p => (q \in EmptyPools' <=> q \in EmptyPools)
    BY <1>14, <1>15 DEF EmptyPools
  <2>3. \A q : q \in EmptyPools' <=> q \in EmptyPools
    BY <1>5, <2>1, <2>2
  <2>4. EmptyPools' = EmptyPools
    BY <2>3
  <2>5. \A y \in EmptyPools : nextpool'[y] = nextpool[y]
    <3>1. \A y \in EmptyPools : y \in Nodes /\ y # h /\ y # p
      BY <1>2, <1>5, ListsApart, PoolFacts DEF h
    <3> QED
      BY <1>10, <3>1
  <2>6. CachedOK(freepools, EmptyPools, nextpool)
    BY DEF HeapInv, LinksOK
  <2>7. CachedOK(freepools, EmptyPools, nextpool')
    BY <2>5, <2>6, CachedFrame
  <2> QED
    BY <1>1, <2>4, <2>7
<1> QED
  BY <1>1, <1>10, <1>11, <1>12, <1>16, <1>17, ReleaseStep DEF p, h

LEMMA FreeToUsedStep ==
  ASSUME HeapInv, NEW b \in live, InPool(b.at), FreeToUsed(b.at), Held' = Held \ {b.at},
         UNCHANGED <<szidx, capacity, arenacnt, watermark, sys>>
  PROVE  Gone(b)
<1> DEFINE a == b.at
           p == PoolOf(a)
           c == szidx[p]
           h == Header(c)
<1>1. /\ freeblock[p] # Nil /\ PushBlock(a) /\ count' = [count EXCEPT ![p] = @ - 1]
      /\ \/ count[p] > 1 /\ UNCHANGED <<nextpool, prevpool, freepools>>
         \/ /\ count[p] = 1
            /\ nextpool' = [nextpool EXCEPT ![prevpool[p]] = nextpool[p], ![p] = freepools]
            /\ prevpool' = [prevpool EXCEPT ![nextpool[p]] = prevpool[p]]
            /\ freepools' = p
  BY DEF FreeToUsed
<1>2. p \in Committed /\ p \in Pools /\ c \in Classes
  BY HeldPool
<1>3. HeapType /\ PoolOK(p, c, count[p], freeblock[p], mem, Held) /\ capacity[p] = Cap(c)
  BY <1>2 DEF HeapInv, BlocksOK
<1>4. /\ count[p] # Cap(c) /\ Cap(c) \in Nat /\ count[p] \in Nat
      /\ count[p] > 0 /\ count[p] <= Cap(c)
  <2>1. count[p] \in Nat /\ count[p] > 0 /\ count[p] <= Cap(c)
    BY <1>1, PushFacts
  <2>2. count[p] # Cap(c)
    <3> HIDE DEF p, c
    <3> QED
      BY <1>1, <1>2, <1>3, PoolFull
  <2>3. Cap(c) \in Nat
    BY <1>2, CapFacts
  <2> QED
    BY <2>1, <2>2, <2>3
<1>5. p \in UsedPools(c) /\ p \notin EmptyPools
  BY <1>2, <1>3, <1>4 DEF UsedPools, EmptyPools
<1>6. ListOK(h, UsedPools(c), nextpool, prevpool) /\ CachedOK(freepools, EmptyPools, nextpool)
  BY <1>2 DEF HeapInv, LinksOK
<1> HIDE DEF p, h
<1>7. Committed' = Committed /\ Committed \subseteq Pools
  BY <1>3, CommittedFacts DEF Committed
<1>8. count'[p] = count[p] - 1 /\ \A q \in Pools : q # p => count'[q] = count[q]
  BY <1>1, <1>2, <1>3, <1>4 DEF HeapType, p
<1>9. CASE count[p] > 1
  <2>1. UNCHANGED <<nextpool, prevpool, freepools>>
    BY <1>1, <1>9
  <2>2. ListOK(h, UsedPools(c)', nextpool', prevpool')
    <3> DEFINE k == count[p] - 1
    <3>1. count' = [count EXCEPT ![p] = k] /\ k \in 1 .. capacity[p] - 1
      BY <1>1, <1>3, <1>4, <1>9 DEF p
    <3> HIDE DEF k
    <3> QED
      BY <1>2, <1>5, <2>1, <3>1, UsedStays DEF h
  <2>3. CachedOK(freepools', EmptyPools', nextpool')
    <3>1. p \notin EmptyPools'
      BY <1>4, <1>8, <1>9 DEF EmptyPools
    <3>2. \A q : q # p => (q \in EmptyPools' <=> q \in EmptyPools)
      BY <1>7, <1>8 DEF EmptyPools
    <3>3. \A q : q \in EmptyPools' <=> q \in EmptyPools
      BY <1>5, <3>1, <3>2
    <3>4. EmptyPools' = EmptyPools
      BY <3>3
    <3> QED
      BY <1>6, <2>1, <3>4
  <2>4. /\ nextpool' = [x \in Nodes |-> nextpool'[x]] /\ prevpool' = [x \in Nodes |-> prevpool'[x]]
        /\ OnlyLinks(p, c)
    BY <1>3, <2>1 DEF HeapType, OnlyLinks
  <2> QED
    BY <1>1, <2>2, <2>3, <2>4, ReleaseStep DEF p, h
<1>10. CASE count[p] = 1
  <2>1. /\ nextpool' = [nextpool EXCEPT ![prevpool[p]] = nextpool[p], ![p] = freepools]
        /\ prevpool' = [prevpool EXCEPT ![nextpool[p]] = prevpool[p]]
        /\ freepools' = p
    BY <1>1, <1>10
  <2>2. p \in Nodes /\ p # Nil
    BY <1>2, PoolFacts
  <2>3. /\ nextpool' = [x \in Nodes |-> nextpool'[x]] /\ nextpool'[p] = freepools
        /\ \A y \in Nodes \ {p} : nextpool'[y] = IF y = prevpool[p] THEN nextpool[p] ELSE nextpool[y]
    BY <1>3, <2>1, <2>2 DEF HeapType
  <2>4. /\ prevpool' = [x \in Nodes |-> prevpool'[x]]
        /\ \A y \in Nodes \ {p} : prevpool'[y] = IF y = nextpool[p] THEN prevpool[p] ELSE prevpool[y]
    BY <1>3, <2>1, <2>2 DEF HeapType
  <2>5. ListOK(h, UsedPools(c) \ {p}, nextpool', prevpool') /\ OnlyLinks(p, c)
    <3>1. \A y \in Nodes \ {p} :
             /\ nextpool'[y] = IF y = prevpool[p] THEN nextpool[p] ELSE nextpool[y]
             /\ prevpool'[y] = IF y = nextpool[p] THEN prevpool[p] ELSE prevpool[y]
      BY <2>3, <2>4
    <3>2. /\ nextpool[p] \in UsedPools(c) \union {h} /\ prevpool[p] \in UsedPools(c) \union {h}
          /\ UsedPools(c) \union {h} \subseteq Nodes /\ h \notin UsedPools(c)
      BY <1>2, <1>5, <1>6, ListNeighbours, ListsApart, ListHead, ClassFacts DEF h
    <3>3. \A y \in (UsedPools(c) \ {p}) \union {h} :
             /\ nextpool'[y] = IF y = prevpool[p] THEN nextpool[p] ELSE nextpool[y]
             /\ prevpool'[y] = IF y = nextpool[p] THEN prevpool[p] ELSE prevpool[y]
      BY <1>5, <3>1, <3>2
    <3>4. ListOK(h, UsedPools(c) \ {p}, nextpool', prevpool')
      BY <1>5, <1>6, <3>3, ListUnlink
    <3>5. OnlyLinks(p, c)
      BY <3>1, <3>2 DEF OnlyLinks, h
    <3> QED
      BY <3>4, <3>5
  <2>6. ListOK(h, UsedPools(c)', nextpool', prevpool')
    <3>1. p \notin UsedPools(c)'
      BY <1>8, <1>10 DEF UsedPools
    <3>2. \A q : q # p => (q \in UsedPools(c)' <=> q \in UsedPools(c))
      BY <1>7, <1>8 DEF UsedPools
    <3>3. \A q : q \in UsedPools(c)' <=> q \in UsedPools(c) \ {p}
      BY <3>1, <3>2
    <3>4. UsedPools(c)' = UsedPools(c) \ {p}
      BY <3>3
    <3> QED
      BY <2>5, <3>4
  <2>7. CachedOK(freepools', EmptyPools', nextpool')
    <3>1. p \in EmptyPools'
      BY <1>2, <1>7, <1>8, <1>10 DEF EmptyPools
    <3>2. \A q : q # p => (q \in EmptyPools' <=> q \in EmptyPools)
      BY <1>7, <1>8 DEF EmptyPools
    <3>3. \A q : q \in EmptyPools' <=> q \in EmptyPools \union {p}
      BY <3>1, <3>2
    <3>4. EmptyPools' = EmptyPools \union {p}
      BY <3>3
    <3>5. \A y \in EmptyPools : nextpool'[y] = nextpool[y]
      <4>1. \A y \in EmptyPools : y \in Nodes \ (UsedPools(c) \union {Header(c), p})
        BY <1>2, <1>5, ListsApart, PoolFacts
      <4> QED
        BY <2>5, <4>1 DEF OnlyLinks
    <3>6. CachedOK(p, EmptyPools \union {p}, nextpool')
      BY <1>5, <1>6, <2>2, <2>3, <3>5, CachedPush
    <3> QED
      BY <2>1, <3>4, <3>6
  <2> QED
    BY <1>1, <2>3, <2>4, <2>5, <2>6, <2>7, ReleaseStep DEF p, h
<1> QED
  BY <1>1, <1>9, <1>10

LEMMA FreeToSystemStep ==
  ASSUME HeapInv, NEW b \in live, ~InPool(b.at), sys' = sys \ {b.at},
         mem' = Forget(b.at, MaxUnits), UNCHANGED pools, Held' = Held \ {b.at}
  PROVE  Gone(b)
<1> DEFINE a == b.at
<1>1. HeapType /\ Fits(b)
  BY DEF HeapInv, LiveOK
<1>2. a \in SysAddresses
  BY <1>1 DEF Fits, HeapType
<1>3. Span(a) = a .. a + MaxUnits - 1 /\ \A x \in Span(a) : x \in Cells /\ ~InPool(x)
  BY <1>2, SysHome
<1>4. /\ mem' = [x \in Cells |-> mem'[x]]
      /\ \A x \in Cells : x \notin Span(a) => mem'[x] = mem[x]
  BY <1>3 DEF Forget
<1>5. /\ UNCHANGED <<count, freeblock, nextpool, prevpool, szidx, capacity>>
      /\ UNCHANGED <<freepools, arenacnt, watermark>>
  BY DEF pools, headers
<1>6. Committed' = Committed /\ Committed \subseteq Pools
  BY <1>1, <1>5, CommittedFacts DEF Committed
<1>7. HeapType'
  BY <1>1, <1>4, <1>5 DEF HeapType
<1>8. BlocksOK'
  <2>1. ASSUME NEW q \in Committed
        PROVE  PoolOK(q, szidx[q], count[q], freeblock[q], mem', Held') /\ capacity[q] = Cap(szidx[q])
    <3>1. PoolOK(q, szidx[q], count[q], freeblock[q], mem, Held) /\ capacity[q] = Cap(szidx[q])
      BY DEF HeapInv, BlocksOK
    <3>2. q \in Pools /\ szidx[q] \in Classes
      BY <1>6, <3>1 DEF PoolOK
    <3>3. \A x \in Cut(q, szidx[q], Cap(szidx[q])) : mem'[x] = mem[x]
      BY <1>3, <1>4, <3>2, CutFacts
    <3>4. HeldIn(q, Held') = HeldIn(q, Held)
      BY DEF HeldIn
    <3>5. PoolOK(q, szidx[q], count[q], freeblock[q], mem', Held')
      BY <3>1, <3>2, <3>3, <3>4, PoolFrame
    <3> QED
      BY <3>1, <3>5
  <2> QED
    BY <1>5, <1>6, <2>1 DEF BlocksOK
<1>9. LinksOK'
  <2>1. EmptyPools' = EmptyPools /\ \A c : UsedPools(c)' = UsedPools(c)
    BY <1>5, <1>6 DEF EmptyPools, UsedPools
  <2>2. \A c : Header(c)' = Header(c)
    BY DEF Header
  <2> QED
    BY <1>5, <2>1, <2>2 DEF HeapInv, LinksOK
<1>10. ASSUME NEW c \in live \ {b}
       PROVE  Fits(c)' /\ \A x \in Units(c) : mem'[x] = mem[x]
  <2>1. Fits(c) /\ c.at # a
    BY Apart DEF HeapInv, LiveOK
  <2>2. Fits(c)'
    BY <1>5, <1>6, <2>1 DEF Fits
  <2>3. \A x \in Units(c) : x \in Cells /\ x \notin Span(a)
    BY LiveHome, Apart
  <2> QED
    BY <1>4, <2>2, <2>3
<1> QED
  BY <1>7, <1>8, <1>9, <1>10 DEF Gone

LEMMA FreeStep ==
  ASSUME HeapInv, DataIntact, NEW b \in live, FreeBlock(b.at), live' = live \ {b}
  PROVE  HeapInv' /\ DataIntact'
<1>1. Held' = Held \ {b.at}
  <2>1. \A c \in live : c.at = b.at => c = b
    BY DEF HeapInv, LiveOK
  <2> QED
    BY <2>1 DEF Held
<1>2. Gone(b)
  BY <1>1, FreeToFullStep, FreeToUsedStep, FreeToSystemStep DEF FreeBlock
<1>3. LiveOK'
  <2>1. live' \subseteq Blocks /\ IsFiniteSet(live')
    BY FS_RemoveElement DEF HeapInv, LiveOK
  <2>2. \A c \in live' : c.kept <= c.units /\ Fits(c)'
    BY <1>2 DEF Gone, HeapInv, LiveOK
  <2>3. \A c, d \in live' : c.at = d.at => c = d
    BY DEF HeapInv, LiveOK
  <2> QED
    BY <2>1, <2>2, <2>3 DEF LiveOK, Blocks
<1>4. DataIntact'
  <2> SUFFICES ASSUME NEW c \in live', NEW i \in 0 .. c.kept - 1 PROVE mem'[c.at + i] = c.owner
    BY DEF DataIntact
  <2>1. c \in live \ {b}
    OBVIOUS
  <2>2. mem[c.at + i] = c.owner
    BY <2>1 DEF DataIntact
  <2>3. c.at + i \in Units(c)
    BY <2>1 DEF Units, HeapInv, LiveOK, Blocks, Cells
  <2> QED
    BY <1>2, <2>1, <2>2, <2>3 DEF Gone
<1> QED
  BY <1>2, <1>3, <1>4 DEF Gone, HeapInv

-----------------------------------------------------------------------------
(* What callers and pr_realloc do with a block *)

\* Block b is written, or gets other units or other data: it stays where it is.
LEMMA ReplaceStep ==
  ASSUME HeapInv, DataIntact, NEW b \in live, NEW new \in Blocks,
         live' = (live \ {b}) \union {new}, UNCHANGED <<pools, sys>>,
         mem' = [x \in Cells |-> mem'[x]], \A x \in Cells : x \notin Units(b) => mem'[x] = mem[x],
         new.at = b.at, new.kept <= new.units, Fits(new),
         \A i \in 0 .. new.kept - 1 : mem'[new.at + i] = new.owner
  PROVE  HeapInv' /\ DataIntact'
<1>1. /\ UNCHANGED <<count, freeblock, nextpool, prevpool, szidx, capacity>>
      /\ UNCHANGED <<freepools, arenacnt, watermark, sys>>
  BY DEF pools, headers
<1>2. HeapType /\ Committed' = Committed /\ Committed \subseteq Pools
  BY <1>1, CommittedFacts DEF Committed, HeapInv
<1>3. HeapType'
  BY <1>1, <1>2 DEF HeapType
<1>4. Held' = Held
  <2>1. \A a : a \in Held' <=> a \in Held
    BY DEF Held
  <2> QED
    BY <2>1
<1>5. BlocksOK'
  <2>1. ASSUME NEW q \in Committed
        PROVE  PoolOK(q, szidx[q], count[q], freeblock[q], mem', Held') /\ capacity[q] = Cap(szidx[q])
    <3>1. PoolOK(q, szidx[q], count[q], freeblock[q], mem, Held) /\ capacity[q] = Cap(szidx[q])
      BY DEF HeapInv, BlocksOK
    <3>2. q \in Pools /\ szidx[q] \in Classes
      BY <1>2, <3>1 DEF PoolOK
    <3>3. ASSUME NEW x \in Cut(q, szidx[q], Cap(szidx[q])), x \notin Held
          PROVE  mem'[x] = mem[x]
      <4>1. x \in Cells /\ x \in Span(x) /\ Home(x) = x
        BY <3>2, CutHome
      <4>2. \A y \in Units(b) : Home(y) = b.at
        BY LiveHome
      <4> QED
        BY <3>3, <4>1, <4>2 DEF Held
    <3>4. PoolOK(q, szidx[q], count[q], freeblock[q], mem', Held')
      BY <1>4, <3>1, <3>2, <3>3, PoolFrame
    <3> QED
      BY <3>1, <3>4
  <2> QED
    BY <1>1, <1>2, <2>1 DEF BlocksOK
<1>6. LinksOK'
  <2>1. EmptyPools' = EmptyPools /\ \A c : UsedPools(c)' = UsedPools(c)
    BY <1>1, <1>2 DEF EmptyPools, UsedPools
  <2>2. \A c : Header(c)' = Header(c)
    BY DEF Header
  <2> QED
    BY <1>1, <2>1, <2>2 DEF HeapInv, LinksOK
<1>7. ASSUME NEW c \in live, c # b
      PROVE  c.at # b.at /\ Fits(c) /\ c.kept <= c.units /\ \A x \in Units(c) : mem'[x] = mem[x]
  <2>1. \A x \in Units(c) : x \in Cells /\ x \notin Units(b)
    BY <1>7, LiveHome, Apart
  <2> QED
    BY <1>7, <2>1, Apart DEF HeapInv, LiveOK
<1>8. LiveOK'
  <2>1. live' \subseteq Blocks /\ IsFiniteSet(live')
    BY FS_AddElement, FS_RemoveElement DEF HeapInv, LiveOK
  <2>2. \A c \in live' : c.kept <= c.units /\ Fits(c)
    BY <1>7
  <2>3. \A c \in live' : Fits(c)'
    BY <1>1, <1>2, <2>2 DEF Fits
  <2>4. \A c, d \in live' : c.at = d.at => c = d
    BY <1>7 DEF HeapInv, LiveOK
  <2> QED
    BY <2>1, <2>2, <2>3, <2>4 DEF LiveOK, Blocks
<1>9. DataIntact'
  <2> SUFFICES ASSUME NEW c \in live', NEW i \in 0 .. c.kept - 1 PROVE mem'[c.at + i] = c.owner
    BY DEF DataIntact
  <2>1. CASE c \in live /\ c # b
    <3>1. mem[c.at + i] = c.owner
      BY <2>1 DEF DataIntact
    <3>2. c.at + i \in Units(c)
      BY <2>1 DEF Units, HeapInv, LiveOK, Blocks, Cells
    <3> QED
      BY <1>7, <2>1, <3>1, <3>2
  <2>2. CASE c = new
    BY <2>2
  <2> QED
    BY <2>1, <2>2
<1> QED
  BY <1>3, <1>5, <1>6, <1>8, <1>9 DEF HeapInv

\* A caller works on its own blocks: the pr_realloc of another is not disturbed.
LEMMA ReallocStep ==
  ASSUME ReallocOK, NEW t \in Callers, \A b \in live : b.owner # t => b \in live',
         realloc' = [s \in Callers |-> realloc'[s]],
         \A s \in Callers \ {t} : realloc'[s] = realloc[s], ReallocOf(t)'
  PROVE  ReallocOK'
<1>1. ASSUME NEW s \in Callers, s # t PROVE ReallocOf(s)'
  <2>1. ReallocOf(s) /\ realloc'[s] = realloc[s]
    BY <1>1 DEF ReallocOK
  <2> QED
    BY <1>1, <2>1 DEF ReallocOf, Idle
<1> QED
  BY <1>1 DEF ReallocOK

LEMMA InitHolds == Init => AllocInv
<1> SUFFICES ASSUME Init PROVE AllocInv
  OBVIOUS
<1>1. /\ mem = [a \in Cells |-> Junk]
      /\ count = [p \in Pools |-> 0] /\ capacity = [p \in Pools |-> 0]
      /\ freeblock = [p \in Pools |-> Nil] /\ szidx = [p \in Pools |-> Dummy]
      /\ nextpool = [x \in Nodes |-> IF x < 0 THEN x ELSE Nil] /\ prevpool = nextpool
      /\ freepools = Nil /\ arenacnt = 0 /\ watermark = ArenaPools
      /\ sys = {} /\ live = {} /\ realloc = [t \in Callers |-> Idle]
  BY DEF Init
<1>2. HeapType
  <2>1. arenacnt \in 0 .. MaxArenas /\ watermark \in 1 .. ArenaPools
    BY <1>1, Sizes
  <2>2. nextpool = [x \in Nodes |-> nextpool[x]]
    BY <1>1
  <2> QED
    BY <1>1, <2>1, <2>2 DEF HeapType
<1>3. Committed = {}
  <2>1. (0 - 1) * ArenaPools + ArenaPools = 0
    BY Sizes
  <2> QED
    BY <1>1, <2>1 DEF Committed
<1>4. BlocksOK
  BY <1>3 DEF BlocksOK
<1>5. LinksOK
  <2> DEFINE f == [i \in 1 .. 0 |-> i]
  <2>1. On(f, 0) = {} /\ \A e, nx : Path(f, 0, e, nx, e)
    BY DEF On, Path
  <2> HIDE DEF f
  <2>2. EmptyPools = {} /\ \A c : UsedPools(c) = {}
    BY <1>3 DEF EmptyPools, UsedPools
  <2>3. ASSUME NEW c \in Classes PROVE ListOK(Header(c), {}, nextpool, prevpool)
    <3>1. nextpool[Header(c)] = Header(c) /\ prevpool[Header(c)] = Header(c)
      BY <1>1, ClassFacts
    <3>2. ListOf(Header(c), {}, nextpool, prevpool, f, 0)
      BY <2>1, <3>1 DEF ListOf
    <3> QED
      BY <3>2 DEF ListOK
  <2>4. CachedOK(freepools, {}, nextpool)
    BY <1>1, <2>1 DEF CachedOK
  <2> QED
    BY <2>2, <2>3, <2>4 DEF LinksOK
<1>6. LiveOK
  BY <1>1, FS_EmptySet DEF LiveOK
<1>7. DataIntact /\ ReallocOK
  BY <1>1 DEF DataIntact, ReallocOK, ReallocOf
<1> QED
  BY <1>2, <1>4, <1>5, <1>6, <1>7 DEF AllocInv, HeapInv

LEMMA CallStep ==
  ASSUME AllocInv, NEW t \in Callers, NEW n \in 1 .. MaxUnits, Call(t, n)
  PROVE  AllocInv'
<1>1. PICK bp \in Cells : Malloc(n, bp) /\ live' = live \union {Block(t, bp, n, 0)}
  BY DEF Call
<1>2. HeapInv' /\ DataIntact'
  BY <1>1, MallocStep DEF AllocInv
<1>3. ReallocOK'
  <2>1. UNCHANGED realloc
    BY DEF Call
  <2> QED
    BY <1>1, <2>1 DEF AllocInv, ReallocOK, ReallocOf, Idle
<1> QED
  BY <1>2, <1>3 DEF AllocInv

LEMMA WriteStep ==
  ASSUME AllocInv, NEW t \in Callers, NEW b \in live, Write(t, b)
  PROVE  AllocInv'
<1> DEFINE new == [b EXCEPT !.kept = b.units]
<1>1. /\ realloc[t] = Idle /\ b.owner = t /\ mem' = Fill(b.at, b.units, t)
      /\ live' = (live \ {b}) \union {new} /\ UNCHANGED <<pools, sys, realloc>>
  BY DEF Write
<1>2. HeapInv /\ b \in Blocks /\ Fits(b)
  BY DEF AllocInv, HeapInv, LiveOK
<1>3. /\ new \in Blocks /\ new.at = b.at /\ new.units = b.units /\ new.kept = b.units
      /\ new.owner = t /\ b.units \in Nat /\ b.at \in Nat
  BY <1>1, <1>2 DEF Blocks, Cells
<1> HIDE DEF new
<1>4. new.kept <= new.units /\ Fits(new)
  BY <1>2, <1>3 DEF Fits
<1>5. mem' = [x \in Cells |-> mem'[x]] /\ \A x \in Cells : x \notin Units(b) => mem'[x] = mem[x]
  BY <1>1 DEF Fill, Units
<1>6. \A i \in 0 .. new.kept - 1 : mem'[new.at + i] = new.owner
  <2> SUFFICES ASSUME NEW i \in 0 .. b.units - 1 PROVE mem'[b.at + i] = t
    BY <1>3
  <2>1. b.at + i \in b.at .. b.at + b.units - 1
    BY <1>3
  <2>2. b.at + i \in Units(b)
    BY <2>1 DEF Units
  <2>3. b.at + i \in Cells
    BY <1>2, <2>2, LiveHome
  <2> QED
    BY <1>1, <2>1, <2>3 DEF Fill
<1>7. HeapInv' /\ DataIntact'
  BY <1>1, <1>3, <1>4, <1>5, <1>6, ReplaceStep DEF AllocInv
<1>8. ReallocOK'
  <2>1. /\ \A c \in live : c.owner # t => c \in live'
        /\ realloc' = [s \in Callers |-> realloc'[s]] /\ realloc'[t] = Idle
        /\ \A s \in Callers \ {t} : realloc'[s] = realloc[s]
    BY <1>1 DEF AllocInv, ReallocOK
  <2>2. ReallocOf(t)'
    BY <2>1 DEF ReallocOf, Idle
  <2> QED
    BY <2>1, <2>2, ReallocStep DEF AllocInv
<1> QED
  BY <1>7, <1>8 DEF AllocInv

LEMMA FreeCallStep ==
  ASSUME AllocInv, NEW t \in Callers, NEW b \in live, Free(t, b)
  PROVE  AllocInv'
<1>1. /\ realloc[t] = Idle /\ b.owner = t /\ FreeBlock(b.at) /\ live' = live \ {b}
      /\ UNCHANGED realloc
  BY DEF Free, Ready
<1>2. HeapInv' /\ DataIntact'
  BY <1>1, FreeStep DEF AllocInv
<1>3. /\ \A c \in live : c.owner # t => c \in live'
      /\ realloc' = [s \in Callers |-> realloc'[s]] /\ realloc'[t] = Idle
      /\ \A s \in Callers \ {t} : realloc'[s] = realloc[s]
  BY <1>1 DEF AllocInv, ReallocOK
<1>4. ReallocOf(t)'
  BY <1>3 DEF ReallocOf, Idle
<1>5. ReallocOK'
  BY <1>3, <1>4, ReallocStep DEF AllocInv
<1> QED
  BY <1>2, <1>5 DEF AllocInv

LEMMA ReallocSameStep ==
  ASSUME AllocInv, NEW t \in Callers, NEW b \in live, NEW n \in 1 .. MaxUnits, ReallocSame(t, b, n)
  PROVE  AllocInv'
<1> DEFINE k == IF b.kept < n THEN b.kept ELSE n
           new == Block(t, b.at, n, k)
<1>1. /\ realloc[t] = Idle /\ b.owner = t
      /\ \/ InPool(b.at) /\ n <= BlockUnits(szidx[PoolOf(b.at)])
         \/ ~InPool(b.at) /\ ~Small(n)
      /\ live' = (live \ {b}) \union {new} /\ UNCHANGED <<mem, pools, sys, realloc>>
  BY DEF ReallocSame, Ready
<1>2. HeapInv /\ b \in Blocks /\ Fits(b)
  BY DEF AllocInv, HeapInv, LiveOK
<1>3. k \in 0 .. MaxUnits /\ k <= n /\ k <= b.kept
  BY <1>2, Sizes DEF Blocks
<1> HIDE DEF k
<1>4. new \in Blocks /\ new.at = b.at /\ new.units = n /\ new.kept = k /\ new.owner = t
  BY <1>2, <1>3 DEF Blocks, Block
<1> HIDE DEF new
<1>5. new.kept <= new.units /\ Fits(new)
  BY <1>1, <1>2, <1>3, <1>4 DEF Fits
<1>6. \A i \in 0 .. new.kept - 1 : mem'[new.at + i] = new.owner
  <2> SUFFICES ASSUME NEW i \in 0 .. k - 1 PROVE mem[b.at + i] = t
    BY <1>1, <1>4
  <2>1. i \in 0 .. b.kept - 1
    BY <1>2, <1>3 DEF Blocks
  <2> QED
    BY <1>1, <2>1 DEF AllocInv, DataIntact
<1>7. mem' = [x \in Cells |-> mem'[x]] /\ \A x \in Cells : x \notin Units(b) => mem'[x] = mem[x]
  BY <1>1, <1>2 DEF HeapInv, HeapType
<1>8. HeapInv' /\ DataIntact'
  BY <1>1, <1>4, <1>5, <1>6, <1>7, ReplaceStep DEF AllocInv
<1>9. ReallocOK'
  <2>1. /\ \A c \in live : c.owner # t => c \in live'
        /\ realloc' = [s \in Callers |-> realloc'[s]] /\ realloc'[t] = Idle
        /\ \A s \in Callers \ {t} : realloc'[s] = realloc[s]
    BY <1>1 DEF AllocInv, ReallocOK
  <2>2. ReallocOf(t)'
    BY <2>1 DEF ReallocOf, Idle
  <2> QED
    BY <2>1, <2>2, ReallocStep DEF AllocInv
<1> QED
  BY <1>8, <1>9 DEF AllocInv

LEMMA ReallocMoveStep ==
  ASSUME AllocInv, NEW t \in Callers, NEW b \in live, NEW n \in 1 .. MaxUnits, ReallocMove(t, b, n)
  PROVE  AllocInv'
<1> DEFINE size == IF InPool(b.at) THEN BlockUnits(szidx[PoolOf(b.at)]) ELSE n
           r == [step |-> "malloc", old |-> b, units |-> n, size |-> size]
<1>1. /\ b.owner = t
      /\ \/ InPool(b.at) /\ n > BlockUnits(szidx[PoolOf(b.at)])
         \/ ~InPool(b.at) /\ Small(n)
      /\ realloc' = [realloc EXCEPT ![t] = r] /\ UNCHANGED <<mem, pools, sys, live>>
  BY DEF ReallocMove
<1>2. size \in 1 .. n
  <2>1. CASE InPool(b.at)
    <3>1. szidx[PoolOf(b.at)] \in Classes
      BY <2>1, HeldPool DEF AllocInv
    <3> QED
      BY <1>1, <2>1, <3>1, ClassFacts
  <2>2. CASE ~InPool(b.at)
    BY <2>2
  <2> QED
    BY <2>1, <2>2
<1> HIDE DEF size
<1>3. HeapInv' /\ DataIntact'
  <2>1. HeapInv /\ DataIntact
    BY DEF AllocInv
  <2>2. UNCHANGED <<mem, count, freeblock, nextpool, prevpool, szidx, capacity, freepools,
                    arenacnt, watermark, sys, live>>
    BY <1>1 DEF pools, headers
  <2>3. Committed' = Committed /\ Held' = Held
    BY <2>2 DEF Committed, Held
  <2>4. HeapType'
    BY <2>1, <2>2 DEF HeapInv, HeapType
  <2>5. BlocksOK'
    BY <2>1, <2>2, <2>3 DEF HeapInv, BlocksOK
  <2>6. LinksOK'
    <3>1. EmptyPools' = EmptyPools /\ \A c : UsedPools(c)' = UsedPools(c)
      BY <2>2, <2>3 DEF EmptyPools, UsedPools
    <3>2. \A c : Header(c)' = Header(c)
      BY DEF Header
    <3> QED
      BY <2>1, <2>2, <3>1, <3>2 DEF HeapInv, LinksOK
  <2>7. LiveOK' /\ DataIntact'
    BY <2>1, <2>2, <2>3 DEF HeapInv, LiveOK, Fits, DataIntact
  <2> QED
    BY <2>4, <2>5, <2>6, <2>7 DEF HeapInv
<1>4. ReallocOK'
  <2>1. /\ \A c \in live : c.owner # t => c \in live'
        /\ realloc' = [s \in Callers |-> realloc'[s]] /\ realloc'[t] = r
        /\ \A s \in Callers \ {t} : realloc'[s] = realloc[s]
    BY <1>1 DEF AllocInv, ReallocOK
  <2>2. ReallocOf(t)'
    BY <1>1, <1>2, <2>1 DEF ReallocOf
  <2> QED
    BY <2>1, <2>2, ReallocStep DEF AllocInv
<1> QED
  BY <1>3, <1>4 DEF AllocInv

LEMMA ReallocMallocStep ==
  ASSUME AllocInv, NEW t \in Callers, ReallocMalloc(t)
  PROVE  AllocInv'
<1> DEFINE r == realloc[t]
<1>1. PICK bp \in Cells :
         /\ r.step = "malloc" /\ Malloc(r.units, bp)
         /\ live' = live \union {Block(t, bp, r.units, 0)}
         /\ realloc' = [realloc EXCEPT ![t] =
              [step |-> "copy", old |-> r.old, new |-> Block(t, bp, r.units, 0), size |-> r.size]]
  BY DEF ReallocMalloc
<1>2. ReallocOf(t) /\ realloc = [s \in Callers |-> realloc[s]]
  BY DEF AllocInv, ReallocOK
<1>3. /\ r.old \in live /\ r.old.owner = t /\ r.units \in 1 .. MaxUnits /\ r.size \in 1 .. r.units
  BY <1>1, <1>2 DEF ReallocOf, Idle
<1>4. HeapInv' /\ DataIntact' /\ Block(t, bp, r.units, 0) \notin live
  <2> HIDE DEF r
  <2> QED
    BY <1>1, <1>3, MallocStep DEF AllocInv
<1> DEFINE new == Block(t, bp, r.units, 0)
           next == [step |-> "copy", old |-> r.old, new |-> new, size |-> r.size]
<1>5. /\ realloc' = [s \in Callers |-> realloc'[s]] /\ realloc'[t] = next
      /\ \A s \in Callers \ {t} : realloc'[s] = realloc[s]
  BY <1>1, <1>2
<1>6. new.owner = t /\ new.units = r.units
  BY DEF Block
<1>7. /\ next.step = "copy" /\ next.old = r.old /\ next.new = new /\ next.size = r.size
  OBVIOUS
<1>8. r.old # new /\ {r.old, new} \subseteq live'
  BY <1>1, <1>3, <1>4
<1> HIDE DEF new, next, r
<1>9. ReallocOf(t)'
  BY <1>3, <1>5, <1>6, <1>7, <1>8 DEF ReallocOf
<1>10. \A c \in live : c.owner # t => c \in live'
  BY <1>1
<1>11. ReallocOK'
  BY <1>5, <1>9, <1>10, ReallocStep DEF AllocInv
<1> QED
  BY <1>4, <1>11 DEF AllocInv

LEMMA ReallocCopyStep ==
  ASSUME AllocInv, NEW t \in Callers, ReallocCopy(t)
  PROVE  AllocInv'
<1> DEFINE r == realloc[t]
           k == IF r.old.kept < r.size THEN r.old.kept ELSE r.size
           new == [r.new EXCEPT !.kept = k]
           next == [step |-> "free", old |-> r.old]
<1>1. /\ r.step = "copy"
      /\ mem' = [c \in Cells |-> IF c \in r.new.at .. r.new.at + r.size - 1
                                 THEN mem[r.old.at + (c - r.new.at)] ELSE mem[c]]
      /\ live' = (live \ {r.new}) \union {new}
      /\ realloc' = [realloc EXCEPT ![t] = next]
      /\ UNCHANGED <<pools, sys>>
  BY DEF ReallocCopy
<1>2. ReallocOf(t) /\ realloc = [s \in Callers |-> realloc[s]] /\ HeapInv
  BY DEF AllocInv, ReallocOK
<1>3. /\ r.old \in live /\ r.new \in live /\ r.old # r.new
      /\ r.old.owner = t /\ r.new.owner = t /\ r.size \in 1 .. r.new.units
  BY <1>1, <1>2 DEF ReallocOf, Idle
<1>4. /\ r.old \in Blocks /\ r.new \in Blocks /\ Fits(r.new)
      /\ \A c \in live : c.at = r.new.at => c = r.new
  BY <1>2, <1>3 DEF HeapInv, LiveOK
<1>5. k \in 0 .. MaxUnits /\ k <= r.size /\ k <= r.old.kept
  <2>1. r.old.kept \in 0 .. MaxUnits /\ r.size \in Nat
    BY <1>3, <1>4 DEF Blocks
  <2> HIDE DEF r
  <2> QED
    BY <2>1, Sizes
<1>6. /\ realloc' = [s \in Callers |-> realloc'[s]] /\ realloc'[t] = next
      /\ \A s \in Callers \ {t} : realloc'[s] = realloc[s]
  BY <1>1, <1>2
<1>7. next.step = "free" /\ next.old = r.old
  OBVIOUS
<1> HIDE DEF k, next
<1>8. /\ new \in Blocks /\ new.at = r.new.at /\ new.units = r.new.units /\ new.kept = k
      /\ new.owner = t
  BY <1>3, <1>4, <1>5 DEF Blocks
<1> HIDE DEF new, r
<1>9. new.kept <= new.units /\ Fits(new)
  BY <1>3, <1>4, <1>5, <1>8 DEF Fits, Blocks
<1>10. mem' = [x \in Cells |-> mem'[x]] /\ \A x \in Cells : x \notin Units(r.new) => mem'[x] = mem[x]
  <2>1. r.new.at .. r.new.at + r.size - 1 \subseteq Units(r.new)
    BY <1>3, <1>4 DEF Units, Blocks, Cells
  <2> QED
    BY <1>1, <2>1
<1>11. \A i \in 0 .. new.kept - 1 : mem'[new.at + i] = new.owner
  <2> SUFFICES ASSUME NEW i \in 0 .. k - 1 PROVE mem'[r.new.at + i] = t
    BY <1>8
  <2>1. r.new.at \in Int /\ r.size \in Int /\ r.new.units \in Int /\ r.size <= r.new.units
    BY <1>3, <1>4 DEF Blocks, Cells
  <2> DEFINE x == r.new.at + i
  <2>2. /\ x \in r.new.at .. r.new.at + r.size - 1 /\ x - r.new.at = i
        /\ x \in r.new.at .. r.new.at + r.new.units - 1
    BY <1>5, <2>1
  <2> HIDE DEF x
  <2>3. x \in Cells
    BY <1>2, <1>3, <2>2, LiveHome DEF Units
  <2>4. mem'[x] = mem[r.old.at + i]
    BY <1>1, <2>2, <2>3
  <2>5. i \in 0 .. r.old.kept - 1
    BY <1>4, <1>5 DEF Blocks
  <2>6. mem[r.old.at + i] = t
    BY <1>3, <2>5 DEF AllocInv, DataIntact
  <2> QED
    BY <2>4, <2>6 DEF x
<1>12. HeapInv' /\ DataIntact'
  BY <1>1, <1>2, <1>3, <1>8, <1>9, <1>10, <1>11, ReplaceStep DEF AllocInv
<1>13. r.old \in live' /\ \A c \in live : c.owner # t => c \in live'
  BY <1>1, <1>3
<1>14. ReallocOf(t)'
  BY <1>3, <1>6, <1>7, <1>13 DEF ReallocOf
<1>15. ReallocOK'
  BY <1>6, <1>13, <1>14, ReallocStep DEF AllocInv
<1> QED
  BY <1>12, <1>15 DEF AllocInv

LEMMA ReallocFreeStep ==
  ASSUME AllocInv, NEW t \in Callers, ReallocFree(t)
  PROVE  AllocInv'
<1> DEFINE r == realloc[t]
<1>1. /\ r.step = "free" /\ FreeBlock(r.old.at) /\ live' = live \ {r.old}
      /\ realloc' = [realloc EXCEPT ![t] = Idle]
  BY DEF ReallocFree
<1>2. ReallocOf(t) /\ realloc = [s \in Callers |-> realloc[s]] /\ HeapInv /\ DataIntact
  BY DEF AllocInv, ReallocOK
<1>3. r.old \in live /\ r.old.owner = t
  BY <1>1, <1>2 DEF ReallocOf, Idle
<1>4. HeapInv' /\ DataIntact'
  BY <1>1, <1>2, <1>3, FreeStep
<1>5. /\ realloc' = [s \in Callers |-> realloc'[s]] /\ realloc'[t] = Idle
      /\ \A s \in Callers \ {t} : realloc'[s] = realloc[s]
  BY <1>1, <1>2
<1>6. ReallocOf(t)'
  BY <1>5 DEF ReallocOf, Idle
<1>7. \A c \in live : c.owner # t => c \in live'
  BY <1>1, <1>3
<1>8. ReallocOK'
  BY <1>5, <1>6, <1>7, ReallocStep DEF AllocInv
<1> QED
  BY <1>4, <1>8 DEF AllocInv

LEMMA StutterStep ==
  ASSUME AllocInv, UNCHANGED vars
  PROVE  AllocInv'
<1>1. UNCHANGED <<mem, count, freeblock, nextpool, prevpool, szidx, capacity, freepools,
                  arenacnt, watermark, sys, live, realloc>>
  BY DEF vars, pools, headers
<1>2. HeapInv /\ DataIntact /\ ReallocOK
  BY DEF AllocInv
<1>3. Committed' = Committed /\ Held' = Held
  BY <1>1 DEF Committed, Held
<1>4. HeapType'
  BY <1>1, <1>2 DEF HeapInv, HeapType
<1>5. BlocksOK'
  BY <1>1, <1>2, <1>3 DEF HeapInv, BlocksOK
<1>6. LinksOK'
  <2>1. EmptyPools' = EmptyPools /\ \A c : UsedPools(c)' = UsedPools(c)
    BY <1>1, <1>3 DEF EmptyPools, UsedPools
  <2>2. \A c : Header(c)' = Header(c)
    BY DEF Header
  <2> QED
    BY <1>1, <1>2, <2>1, <2>2 DEF HeapInv, LinksOK
<1>7. LiveOK' /\ DataIntact'
  BY <1>1, <1>2, <1>3 DEF HeapInv, LiveOK, Fits, DataIntact
<1>8. ReallocOK'
  BY <1>1, <1>2 DEF ReallocOK, ReallocOf
<1> QED
  BY <1>4, <1>5, <1>6, <1>7, <1>8 DEF AllocInv, HeapInv

\* The heap is sound in every reachable state: each pool's blocks are held or in its
\* list, each pool is in the list that pr_malloc and pr_free look for it in, the blocks
\* callers hold fit and keep their data, and pr_realloc copies no more than fits.
THEOREM HeapSound == Spec => []AllocInv
<1>1. Init => AllocInv
  BY InitHolds
<1>2. AllocInv /\ [Next]_vars => AllocInv'
  <2> SUFFICES ASSUME AllocInv, [Next]_vars PROVE AllocInv'
    OBVIOUS
  <2>1. ASSUME NEW t \in Callers, NEW n \in 1 .. MaxUnits, Call(t, n) PROVE AllocInv'
    BY <2>1, CallStep
  <2>2. ASSUME NEW t \in Callers, NEW b \in live, Write(t, b) PROVE AllocInv'
    BY <2>2, WriteStep
  <2>3. ASSUME NEW t \in Callers, NEW b \in live, Free(t, b) PROVE AllocInv'
    BY <2>3, FreeCallStep
  <2>4. ASSUME NEW t \in Callers, NEW b \in live, NEW n \in 1 .. MaxUnits, ReallocSame(t, b, n)
        PROVE  AllocInv'
    BY <2>4, ReallocSameStep
  <2>5. ASSUME NEW t \in Callers, NEW b \in live, NEW n \in 1 .. MaxUnits, ReallocMove(t, b, n)
        PROVE  AllocInv'
    BY <2>5, ReallocMoveStep
  <2>6. ASSUME NEW t \in Callers, ReallocMalloc(t) PROVE AllocInv'
    BY <2>6, ReallocMallocStep
  <2>7. ASSUME NEW t \in Callers, ReallocCopy(t) PROVE AllocInv'
    BY <2>7, ReallocCopyStep
  <2>8. ASSUME NEW t \in Callers, ReallocFree(t) PROVE AllocInv'
    BY <2>8, ReallocFreeStep
  <2>9. CASE UNCHANGED vars
    BY <2>9, StutterStep
  <2> QED
    BY <2>1, <2>2, <2>3, <2>4, <2>5, <2>6, <2>7, <2>8, <2>9 DEF Next
<1> QED
  BY <1>1, <1>2, PTL DEF Spec

\* No two blocks that callers hold overlap, and each lies within one pool.
THEOREM BlocksDisjoint == Spec => []Disjoint
<1>1. AllocInv => Disjoint
  BY DisjointHolds DEF AllocInv
<1> QED
  BY <1>1, HeapSound, PTL

\* What a caller wrote into a block stays there until it frees it, and pr_realloc
\* takes it along.
THEOREM DataKept == Spec => []DataIntact
<1>1. AllocInv => DataIntact
  BY DEF AllocInv
<1> QED
  BY <1>1, HeapSound, PTL

-----------------------------------------------------------------------------
(* FreeChain and PoolChain compute the paths *)

Prefix(f, n, i) == [j \in 1 .. (IF i < n THEN i ELSE n) |-> f[j]]

LEMMA PrefixFacts ==
  ASSUME NEW n \in Nat, NEW f, NEW i \in Nat
  PROVE  /\ Prefix(f, n, i) \in Seq(On(f, n))
         /\ Len(Prefix(f, n, i)) = IF i < n THEN i ELSE n
         /\ Prefix(f, n, i) = <<>> <=> i = 0 \/ n = 0
         /\ \A j \in 1 .. (IF i < n THEN i ELSE n) : Prefix(f, n, i)[j] = f[j]
<1> DEFINE m == IF i < n THEN i ELSE n
           s == Prefix(f, n, i)
<1>1. m \in Nat /\ m <= n /\ (m = 0 <=> i = 0 \/ n = 0)
  OBVIOUS
<1>2. s = [j \in 1 .. m |-> f[j]]
  BY DEF Prefix
<1> HIDE DEF m, s
<1>3. \A j \in 1 .. m : f[j] \in On(f, n)
  BY <1>1 DEF On
<1>4. s \in [1 .. m -> On(f, n)]
  BY <1>2, <1>3
<1>5. s \in Seq(On(f, n)) /\ DOMAIN s = 1 .. m
  BY <1>1, <1>4, SeqDef
<1>6. Len(s) = m
  BY <1>1, <1>5, LenProperties
<1>7. s = <<>> <=> m = 0
  BY <1>1, <1>5, <1>6, EmptySeq
<1> QED
  BY <1>1, <1>2, <1>5, <1>6, <1>7 DEF m, s

\* A path and its next node: what a walk along the links has seen after i steps.
LEMMA PrefixNext ==
  ASSUME NEW f, NEW n, NEW x, NEW nx, NEW e, Path(f, n, x, nx, e), NEW i \in Nat \ {0}
  PROVE  LET s == Prefix(f, n, i - 1)
             y == IF s = <<>> THEN x ELSE nx[Last(s)] IN
         /\ i > n => y = e /\ Prefix(f, n, i) = s
         /\ i <= n => y = f[i] /\ y # e /\ y \in On(f, n) /\ Prefix(f, n, i) = Append(s, y)
<1> DEFINE s == Prefix(f, n, i - 1)
           y == IF s = <<>> THEN x ELSE nx[Last(s)]
<1>1. /\ n \in Nat /\ x = (IF n = 0 THEN e ELSE f[1])
      /\ \A j \in 1 .. n : f[j] # e /\ nx[f[j]] = IF j = n THEN e ELSE f[j + 1]
  BY DEF Path
<1>2. i - 1 \in Nat
  OBVIOUS
<1>3. /\ s \in Seq(On(f, n)) /\ Len(s) = (IF i - 1 < n THEN i - 1 ELSE n)
      /\ s = <<>> <=> i - 1 = 0 \/ n = 0
      /\ \A j \in 1 .. (IF i - 1 < n THEN i - 1 ELSE n) : s[j] = f[j]
  BY <1>1, <1>2, PrefixFacts
<1>4. CASE i > n
  <2>1. Prefix(f, n, i) = s
    BY <1>1, <1>4 DEF Prefix
  <2>2. y = e
    <3>1. CASE n = 0
      BY <1>1, <1>3, <3>1
    <3>2. CASE n # 0
      <4>1. Len(s) = n /\ n \in 1 .. n /\ s[n] = f[n] /\ s # <<>>
        BY <1>1, <1>3, <1>4, <3>2
      <4> QED
        BY <1>1, <4>1 DEF Last
    <3> QED
      BY <3>1, <3>2
  <2> QED
    BY <1>1, <1>4, <2>1, <2>2
<1>5. ASSUME i <= n
      PROVE  y = f[i] /\ y # e /\ y \in On(f, n) /\ Prefix(f, n, i) = Append(s, y)
  <2>1. i \in 1 .. n /\ Len(s) = i - 1 /\ n # 0 /\ f[i] \in On(f, n) /\ f[i] # e
    BY <1>1, <1>3, <1>5 DEF On
  <2>2. y = f[i]
    <3>1. CASE i = 1
      BY <1>1, <1>3, <2>1, <3>1
    <3>2. CASE i # 1
      <4>1. s # <<>> /\ i - 1 \in 1 .. n /\ s[i - 1] = f[i - 1] /\ i - 1 # n
        BY <1>1, <1>3, <2>1, <3>2
      <4>2. nx[f[i - 1]] = f[(i - 1) + 1] /\ (i - 1) + 1 = i
        BY <1>1, <4>1
      <4> QED
        BY <2>1, <4>1, <4>2 DEF Last
    <3> QED
      BY <3>1, <3>2
  <2>3. Prefix(f, n, i) = Append(s, f[i])
    <3> DEFINE t == Prefix(f, n, i)
               u == Append(s, f[i])
    <3>1. /\ t \in Seq(On(f, n)) /\ Len(t) = i /\ \A j \in 1 .. i : t[j] = f[j]
      BY <1>1, <2>1, PrefixFacts
    <3>2. /\ u \in Seq(On(f, n)) /\ Len(u) = i
          /\ \A j \in 1 .. i : u[j] = IF j = i THEN f[i] ELSE s[j]
      <4> HIDE DEF s
      <4> QED
        BY <1>3, <2>1, AppendProperties
    <3>3. \A j \in 1 .. i : j # i => s[j] = f[j]
      BY <1>1, <1>3, <2>1
    <3>4. \A j \in 1 .. Len(t) : t[j] = u[j]
      BY <3>1, <3>2, <3>3
    <3> HIDE DEF t, u
    <3>5. t = u
      BY <3>1, <3>2, <3>4, SeqEqual
    <3> QED
      BY <3>5 DEF t, u
  <2> HIDE DEF y, s
  <2> QED
    BY <2>1, <2>2, <2>3
<1> QED
  BY <1>1, <1>4, <1>5

LEMMA PrefixAll ==
  ASSUME NEW f, NEW n, NEW x, NEW nx, NEW e, Path(f, n, x, nx, e), NEW N \in Nat, n <= N
  PROVE  /\ Prefix(f, n, N) = f /\ f \in Seq(On(f, n)) /\ Len(f) = n /\ DOMAIN f = 1 .. n
         /\ f = <<>> <=> n = 0
         /\ ToSet(f) = On(f, n) /\ Prefix(f, n, 0) = <<>>
<1>1. n \in Nat /\ f = [j \in 1 .. n |-> f[j]]
  BY DEF Path
<1>2. (IF N < n THEN N ELSE n) = n
  BY <1>1
<1>3. Prefix(f, n, N) = [j \in 1 .. n |-> f[j]]
  BY <1>2 DEF Prefix
<1>4. Prefix(f, n, N) = f
  BY <1>1, <1>3
<1>5. Prefix(f, n, N) \in Seq(On(f, n)) /\ Len(Prefix(f, n, N)) = n
      /\ (Prefix(f, n, N) = <<>> <=> N = 0 \/ n = 0) /\ Prefix(f, n, 0) = <<>>
  BY <1>1, <1>2, PrefixFacts
<1>6. DOMAIN f = 1 .. n
  BY <1>1
<1>7. ToSet(f) = On(f, n)
  BY <1>6 DEF ToSet, On
<1> QED
  BY <1>1, <1>4, <1>5, <1>6, <1>7

\* A walk along free blocks: chain[i] is what has been seen after i steps.
FreeWalk(p, g) ==
  g = [i \in 0 .. PoolUnits + 1 |->
        IF i = 0 THEN <<>>
        ELSE LET s == g[i - 1]
                 y == IF s = <<>> THEN freeblock[p] ELSE mem[Last(s)]
             IN IF y = Nil THEN s ELSE Append(s, y)]

LEMMA FreeChainIs ==
  ASSUME NEW p, NEW f, NEW n, Path(f, n, freeblock[p], mem, Nil), n <= PoolUnits
  PROVE  FreeChain(p) = f
<1> DEFINE N == PoolUnits + 1
           next(s) == IF s = <<>> THEN freeblock[p] ELSE mem[Last(s)]
           chain[i \in 0 .. PoolUnits + 1] ==
             IF i = 0 THEN <<>>
             ELSE LET s == chain[i - 1] IN IF next(s) = Nil THEN s ELSE Append(s, next(s))
           h == [i \in 0 .. N |-> Prefix(f, n, i)]
<1>1. n \in Nat /\ N \in Nat /\ n <= N
  BY Sizes DEF Path
<1>2. \A i \in 1 .. N :
         LET s == Prefix(f, n, i - 1) IN
         Prefix(f, n, i) = IF next(s) = Nil THEN s ELSE Append(s, next(s))
  <2> SUFFICES ASSUME NEW i \in 1 .. N
               PROVE  LET s == Prefix(f, n, i - 1) IN
                      Prefix(f, n, i) = IF next(s) = Nil THEN s ELSE Append(s, next(s))
    OBVIOUS
  <2>1. i \in Nat \ {0}
    OBVIOUS
  <2> QED
    BY <1>1, <2>1, PrefixNext
<1>3. Prefix(f, n, 0) = <<>> /\ Prefix(f, n, N) = f
  BY <1>1, PrefixAll
<1>4. FreeWalk(p, h)
  <2>1. ASSUME NEW i \in 0 .. N
        PROVE  h[i] = IF i = 0 THEN <<>>
                      ELSE LET s == h[i - 1] IN IF next(s) = Nil THEN s ELSE Append(s, next(s))
    <3>1. CASE i = 0
      BY <1>3, <3>1
    <3>2. CASE i # 0
      <4>1. i \in 1 .. N /\ i - 1 \in 0 .. N
        BY <1>1, <3>2
      <4>2. h[i] = Prefix(f, n, i) /\ h[i - 1] = Prefix(f, n, i - 1)
        BY <4>1
      <4> QED
        BY <1>2, <3>2, <4>1, <4>2
    <3> QED
      BY <3>1, <3>2
  <2>2. h = [i \in 0 .. N |-> h[i]]
    OBVIOUS
  <2> HIDE DEF h
  <2>3. h = [i \in 0 .. N |-> IF i = 0 THEN <<>>
               ELSE LET s == h[i - 1] IN IF next(s) = Nil THEN s ELSE Append(s, next(s))]
    BY <2>1, <2>2
  <2> QED
    BY <2>3 DEF FreeWalk
<1>5. FreeWalk(p, chain)
  BY <1>4 DEF FreeWalk
<1>6. FreeChain(p) = chain[N]
  BY DEF FreeChain
<1> HIDE DEF chain
<1>7. /\ chain[0] = <<>>
      /\ \A i \in 1 .. N : LET s == chain[i - 1] IN
            chain[i] = IF next(s) = Nil THEN s ELSE Append(s, next(s))
  <2> DEFINE w == [i \in 0 .. N |-> IF i = 0 THEN <<>>
                    ELSE LET s == chain[i - 1] IN IF next(s) = Nil THEN s ELSE Append(s, next(s))]
  <2>1. w[0] = <<>> /\ \A i \in 1 .. N : LET s == chain[i - 1] IN
            w[i] = IF next(s) = Nil THEN s ELSE Append(s, next(s))
    BY <1>1
  <2>2. chain = w
    BY <1>5 DEF FreeWalk
  <2> HIDE DEF w
  <2> QED
    BY <2>1, <2>2
<1> HIDE DEF next
<1>8. chain[N] = Prefix(f, n, N)
  <2> DEFINE S == {i \in Nat : chain[i] = Prefix(f, n, i)}
  <2>1. 0 \in S
    BY <1>3, <1>7
  <2>2. ASSUME NEW i \in 0 .. N - 1, i \in S PROVE i + 1 \in S
    <3>1. i + 1 \in 1 .. N /\ (i + 1) - 1 = i /\ i + 1 \in Nat
      BY <1>1
    <3> QED
      BY <1>2, <1>7, <2>2, <3>1
  <2> HIDE DEF S
  <2>3. N \in S
    BY <1>1, <2>1, <2>2, UpTo
  <2> QED
    BY <2>3 DEF S
<1> QED
  BY <1>3, <1>6, <1>8

PoolWalk(x, g) ==
  g = [i \in 0 .. Cardinality(Pools) + 1 |->
        IF i = 0 THEN <<>>
        ELSE LET s == g[i - 1]
                 y == IF s = <<>> THEN x ELSE nextpool[Last(s)]
             IN IF y \in Pools THEN Append(s, y) ELSE s]

LEMMA PathLength ==
  ASSUME NEW f, NEW n, NEW x, NEW nx, NEW e, Path(f, n, x, nx, e), On(f, n) \subseteq Pools
  PROVE  n <= Cardinality(Pools) /\ Cardinality(Pools) \in Nat
<1>1. n \in Nat /\ f = [i \in 1 .. n |-> f[i]] /\ \A i, j \in 1 .. n : f[i] = f[j] => i = j
  BY DEF Path
<1>2. \A i \in 1 .. n : f[i] \in Pools
  BY DEF On
<1>3. f \in [1 .. n -> Pools]
  BY <1>1, <1>2
<1>4. f \in Injection(1 .. n, Pools)
  BY <1>1, <1>3 DEF Injection, IsInjective
<1>5. Cardinality(1 .. n) <= Cardinality(Pools)
  BY <1>4, PoolFacts, FS_Injection
<1>6. Cardinality(1 .. n) = n
  <2>1. n \in Nat
    BY <1>1
  <2> QED
    BY <2>1, FS_Interval
<1> QED
  BY <1>5, <1>6, PoolFacts, FS_CardinalityType

LEMMA PoolChainIs ==
  ASSUME NEW x, NEW f, NEW n, NEW e, Path(f, n, x, nextpool, e), e \notin Pools,
         On(f, n) \subseteq Pools
  PROVE  PoolChain(x) = f
<1> DEFINE N == Cardinality(Pools) + 1
           next(s) == IF s = <<>> THEN x ELSE nextpool[Last(s)]
           chain[i \in 0 .. Cardinality(Pools) + 1] ==
             IF i = 0 THEN <<>>
             ELSE LET s == chain[i - 1] IN IF next(s) \in Pools THEN Append(s, next(s)) ELSE s
           h == [i \in 0 .. N |-> Prefix(f, n, i)]
<1>1. n \in Nat /\ N \in Nat /\ n <= N
  <2>1. n \in Nat
    BY DEF Path
  <2>2. n <= Cardinality(Pools) /\ Cardinality(Pools) \in Nat
    BY PathLength
  <2> QED
    BY <2>1, <2>2
<1>2. \A i \in 1 .. N :
         LET s == Prefix(f, n, i - 1) IN
         Prefix(f, n, i) = IF next(s) \in Pools THEN Append(s, next(s)) ELSE s
  <2> SUFFICES ASSUME NEW i \in 1 .. N
               PROVE  LET s == Prefix(f, n, i - 1) IN
                      Prefix(f, n, i) = IF next(s) \in Pools THEN Append(s, next(s)) ELSE s
    OBVIOUS
  <2>1. i \in Nat \ {0}
    OBVIOUS
  <2> QED
    BY <1>1, <2>1, PrefixNext
<1>3. Prefix(f, n, 0) = <<>> /\ Prefix(f, n, N) = f
  BY <1>1, PrefixAll
<1>4. PoolWalk(x, h)
  <2>1. ASSUME NEW i \in 0 .. N
        PROVE  h[i] = IF i = 0 THEN <<>>
                      ELSE LET s == h[i - 1] IN IF next(s) \in Pools THEN Append(s, next(s)) ELSE s
    <3>1. CASE i = 0
      BY <1>3, <3>1
    <3>2. CASE i # 0
      <4>1. i \in 1 .. N /\ i - 1 \in 0 .. N
        BY <1>1, <3>2
      <4>2. h[i] = Prefix(f, n, i) /\ h[i - 1] = Prefix(f, n, i - 1)
        BY <4>1
      <4> QED
        BY <1>2, <3>2, <4>1, <4>2
    <3> QED
      BY <3>1, <3>2
  <2>2. h = [i \in 0 .. N |-> h[i]]
    OBVIOUS
  <2> HIDE DEF h
  <2>3. h = [i \in 0 .. N |-> IF i = 0 THEN <<>>
               ELSE LET s == h[i - 1] IN IF next(s) \in Pools THEN Append(s, next(s)) ELSE s]
    BY <2>1, <2>2
  <2> QED
    BY <2>3 DEF PoolWalk
<1>5. PoolWalk(x, chain)
  BY <1>4 DEF PoolWalk
<1>6. PoolChain(x) = chain[N]
  BY DEF PoolChain
<1> HIDE DEF chain
<1>7. /\ chain[0] = <<>>
      /\ \A i \in 1 .. N : LET s == chain[i - 1] IN
            chain[i] = IF next(s) \in Pools THEN Append(s, next(s)) ELSE s
  <2> DEFINE w == [i \in 0 .. N |-> IF i = 0 THEN <<>>
                ELSE LET s == chain[i - 1] IN IF next(s) \in Pools THEN Append(s, next(s)) ELSE s]
  <2>1. w[0] = <<>> /\ \A i \in 1 .. N : LET s == chain[i - 1] IN
            w[i] = IF next(s) \in Pools THEN Append(s, next(s)) ELSE s
    BY <1>1
  <2>2. chain = w
    BY <1>5 DEF PoolWalk
  <2> HIDE DEF w
  <2> QED
    BY <2>1, <2>2
<1> HIDE DEF next
<1>8. chain[N] = Prefix(f, n, N)
  <2> DEFINE S == {i \in Nat : chain[i] = Prefix(f, n, i)}
  <2>1. 0 \in S
    BY <1>3, <1>7
  <2>2. ASSUME NEW i \in 0 .. N - 1, i \in S PROVE i + 1 \in S
    <3>1. i + 1 \in 1 .. N /\ (i + 1) - 1 = i /\ i + 1 \in Nat
      BY <1>1
    <3> QED
      BY <1>2, <1>7, <2>2, <3>1
  <2> HIDE DEF S
  <2>3. N \in S
    BY <1>1, <2>1, <2>2, UpTo
  <2> QED
    BY <2>3 DEF S
<1> QED
  BY <1>3, <1>6, <1>8

\* Every block that a pool was cut into is held or once in the pool's free list, count
\* is the number of those held, and the list is empty only in a full pool.
THEOREM BlocksCounted == Spec => []BlocksAccounted
<1>1. ASSUME HeapInv, NEW p \in Committed
      PROVE  LET held == {b.at : b \in {b \in live : InPool(b.at) /\ PoolOf(b.at) = p}}
                 chain == FreeChain(p)
                 cut == count[p] + Len(chain) IN
             /\ Cardinality(held) = count[p]
             /\ held \union ToSet(chain) = {Start(p) + i * BlockUnits(szidx[p]) : i \in 0 .. cut - 1}
             /\ cut <= capacity[p]
             /\ chain = <<>> <=> count[p] = capacity[p]
  <2> DEFINE held == {b.at : b \in {b \in live : InPool(b.at) /\ PoolOf(b.at) = p}}
             c == szidx[p]
             k == count[p]
  <2>1. p \in Pools /\ PoolOK(p, c, k, freeblock[p], mem, Held) /\ capacity[p] = Cap(c)
    BY <1>1, CommittedFacts DEF HeapInv, BlocksOK
  <2>2. held = HeldIn(p, Held)
    BY DEF HeldIn, Held
  <2>3. PICK f, n : Path(f, n, freeblock[p], mem, Nil) /\ FreeList(p, c, k, Held, f, n)
    BY <2>1 DEF PoolOK
  <2>4. /\ c \in Classes /\ k \in Nat /\ Cardinality(held) = k
    BY <2>1, <2>2 DEF PoolOK
  <2>5. /\ n \in Nat /\ k + n <= Cap(c) /\ (n = 0 => k = Cap(c))
        /\ held \union On(f, n) = Cut(p, c, k + n) /\ Cap(c) \in Nat
    <3> HIDE DEF held, c, k
    <3>1. n \in Nat /\ k \in Nat /\ Cap(c) \in Nat
      BY <2>3, <2>4, CapFacts DEF Path
    <3>2. /\ k + n \in 2 .. Cap(c) /\ (n = 0 => k = Cap(c))
          /\ held \union On(f, n) = Cut(p, c, k + n)
      BY <2>2, <2>3 DEF FreeList
    <3> QED
      BY <3>1, <3>2
  <2>6. Cap(c) <= PoolUnits
    <3> DEFINE u == BlockUnits(c)
               q == PoolUnits \div u
               r == PoolUnits % u
    <3>1. u \in Nat \ {0} /\ PoolUnits \in Int
      BY <2>4, ClassFacts, Sizes
    <3>2. q \in Int /\ PoolUnits = u * q + r /\ r \in 0 .. u - 1
      BY <3>1, DivMod, ModRange
    <3>3. Cap(c) = q
      BY DEF Cap
    <3> HIDE DEF q, r, u
    <3>4. q * 1 <= q * u
      BY <2>5, <3>1, <3>3
    <3> QED
      BY <2>5, <3>1, <3>2, <3>3, <3>4
  <2>7. n <= PoolUnits /\ PoolUnits \in Nat
    BY <2>4, <2>5, <2>6, Sizes
  <2>8. FreeChain(p) = f
    BY <2>3, <2>7, FreeChainIs
  <2>9. Len(f) = n /\ (f = <<>> <=> n = 0) /\ ToSet(f) = On(f, n)
    BY <2>3, <2>7, PrefixAll
  <2>10. f = <<>> <=> k = capacity[p]
    BY <2>1, <2>4, <2>5, <2>9
  <2> HIDE DEF held, c, k
  <2>11. held \union ToSet(f) = {Start(p) + i * BlockUnits(c) : i \in 0 .. (k + Len(f)) - 1}
    BY <2>5, <2>9 DEF Cut
  <2>12. k + Len(f) <= capacity[p]
    BY <2>1, <2>5, <2>9
  <2> QED
    BY <2>4, <2>8, <2>10, <2>11, <2>12 DEF held, c, k
<1>2. AllocInv => BlocksAccounted
  BY <1>1 DEF AllocInv, BlocksAccounted
<1> QED
  BY <1>2, HeapSound, PTL

\* A pool is in the list of its class when it has both held and free blocks, with the
\* cached pools when it is empty, and in no list when it is full; every link back is
\* the reverse of a link forward, those from and to the list's header too.
THEOREM PoolsLinkedRight == Spec => []PoolsLinked
<1>1. ASSUME HeapInv, NEW c \in Classes
      PROVE  LET list == PoolChain(nextpool[Header(c)]) IN
             /\ IsInjective(list)
             /\ ToSet(list) = {p \in Committed : szidx[p] = c /\ count[p] \in 1 .. capacity[p] - 1}
             /\ \A i \in DOMAIN list : prevpool[list[i]] = IF i = 1 THEN Header(c) ELSE list[i - 1]
             /\ prevpool[Header(c)] = IF list = <<>> THEN Header(c) ELSE Last(list)
  <2> DEFINE h == Header(c)
  <2>1. ListOK(h, UsedPools(c), nextpool, prevpool)
    BY <1>1 DEF HeapInv, LinksOK
  <2>2. UsedPools(c) \subseteq Pools /\ h \notin Pools
    BY <1>1, ListsApart
  <2>3. PICK f, n : ListOf(h, UsedPools(c), nextpool, prevpool, f, n)
    BY <2>1 DEF ListOK
  <2>4. /\ Path(f, n, nextpool[h], nextpool, h) /\ On(f, n) = UsedPools(c)
        /\ \A i \in 1 .. n : prevpool[f[i]] = IF i = 1 THEN h ELSE f[i - 1]
        /\ prevpool[h] = IF n = 0 THEN h ELSE f[n]
    BY <2>3 DEF ListOf
  <2>5. PoolChain(nextpool[h]) = f
    BY <2>2, <2>4, PoolChainIs
  <2>6. n \in Nat /\ \A i, j \in 1 .. n : f[i] = f[j] => i = j
    BY <2>4 DEF Path
  <2>7. n <= n /\ DOMAIN f = 1 .. n /\ (f = <<>> <=> n = 0) /\ ToSet(f) = On(f, n)
    BY <2>4, <2>6, PrefixAll
  <2>8. IsInjective(f)
    BY <2>6, <2>7 DEF IsInjective
  <2>9. Last(f) = f[n]
    BY <2>4 DEF Path, Last
  <2> QED
    BY <2>4, <2>5, <2>7, <2>8, <2>9 DEF UsedPools
<1>2. ASSUME HeapInv
      PROVE  LET cached == PoolChain(freepools) IN
             /\ IsInjective(cached) /\ ToSet(cached) = {p \in Committed : count[p] = 0}
  <2>1. PICK f, n : Path(f, n, freepools, nextpool, Nil) /\ On(f, n) = EmptyPools
    BY <1>2 DEF HeapInv, LinksOK, CachedOK
  <2>2. EmptyPools \subseteq Pools /\ Nil \notin Pools
    BY <1>2, CommittedFacts, PoolFacts DEF HeapInv, EmptyPools
  <2>3. PoolChain(freepools) = f
    BY <2>1, <2>2, PoolChainIs
  <2>4. n \in Nat /\ \A i, j \in 1 .. n : f[i] = f[j] => i = j
    BY <2>1 DEF Path
  <2>5. n <= n /\ DOMAIN f = 1 .. n /\ ToSet(f) = On(f, n)
    BY <2>1, <2>4, PrefixAll
  <2>6. IsInjective(f)
    BY <2>4, <2>5 DEF IsInjective
  <2> QED
    BY <2>1, <2>3, <2>5, <2>6 DEF EmptyPools
<1>3. AllocInv => PoolsLinked
  BY <1>1, <1>2 DEF AllocInv, PoolsLinked
<1> QED
  BY <1>3, HeapSound, PTL
=============================================================================
