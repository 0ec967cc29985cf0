----------------------------- MODULE NatLemmas -----------------------------
(***************************************************************************)
(* What the proofs about tables and lists need of numbers: first and last  *)
(* elements, induction, remainders, and functions defined by iteration.    *)
(* Induction is over a set of numbers, the least one outside of it being   *)
(* impossible.                                                             *)
(***************************************************************************)
EXTENDS Integers, FiniteSets, FiniteSetsExt, WellFoundedInduction, TLAPS

\* A set of natural numbers that is not empty has a first one.
LEMMA FirstIndex ==
  ASSUME NEW S \in SUBSET Nat, S # {}
  PROVE  \E i \in S : \A j \in S : i <= j
<1>1. PICK i \in S : \A j \in S : ~ (<<j, i>> \in OpToRel(<, Nat))
  BY NatLessThanWellFounded, WFMin
<1>2. \A j \in S : ~ (j < i)
  BY <1>1 DEF OpToRel
<1> QED
  BY <1>2

LEMMA MinFacts ==
  ASSUME NEW S \in SUBSET Nat, S # {}
  PROVE  Min(S) \in S /\ \A j \in S : Min(S) <= j
BY FirstIndex DEF Min

LEMMA MaxFacts ==
  ASSUME NEW n \in Nat, NEW S \in SUBSET (0 .. n), S # {}
  PROVE  Max(S) \in S /\ \A j \in S : j <= Max(S)
<1> DEFINE T == {i \in 0 .. n : n - i \in S}
<1>1. PICK j \in S : TRUE
  OBVIOUS
<1>2. n - j \in 0 .. n /\ n - (n - j) = j
  BY <1>1
<1>3. T \in SUBSET Nat /\ n - j \in T
  BY <1>1, <1>2
<1>4. PICK i \in T : \A l \in T : i <= l
  BY <1>3, FirstIndex
<1>5. \A m \in S : m <= n - i
  <2> SUFFICES ASSUME NEW m \in S PROVE m <= n - i
    OBVIOUS
  <2>1. m \in 0 .. n /\ n - m \in 0 .. n /\ n - (n - m) = m
    OBVIOUS
  <2>2. n - m \in T
    BY <2>1
  <2>3. i <= n - m
    BY <1>4, <2>2
  <2> QED
    BY <1>4, <2>1, <2>3
<1>6. n - i \in S
  BY <1>4
<1> QED
  BY <1>5, <1>6 DEF Max

\* Induction up to N.
LEMMA UpTo ==
  ASSUME NEW N \in Nat, NEW S, 0 \in S, \A i \in 0 .. N - 1 : i \in S => i + 1 \in S
  PROVE  0 .. N \subseteq S
<1> SUFFICES ASSUME (0 .. N) \ S # {} PROVE FALSE
  OBVIOUS
<1>0. (0 .. N) \ S \in SUBSET Nat
  OBVIOUS
<1>1. PICK i \in (0 .. N) \ S : \A j \in (0 .. N) \ S : i <= j
  BY <1>0, FirstIndex
<1>2. i # 0 /\ i - 1 \in 0 .. N - 1
  BY <1>1
<1>3. i - 1 \in S
  BY <1>1, <1>2
<1> QED
  BY <1>1, <1>2, <1>3

-----------------------------------------------------------------------------
(* Remainders *)

LEMMA ModRange ==
  ASSUME NEW n \in Nat \ {0}, NEW a \in Int
  PROVE  a % n \in 0 .. n - 1
OBVIOUS

LEMMA DivMod ==
  ASSUME NEW n \in Nat \ {0}, NEW a \in Int
  PROVE  a \div n \in Int /\ a = n * (a \div n) + (a % n)
OBVIOUS

\* A product below n in size is zero.
LEMMA SmallMultiple ==
  ASSUME NEW n \in Nat \ {0}, NEW q \in Int, -n < n * q, n * q < n
  PROVE  q = 0
<1>1. CASE q >= 1
  <2>1. n * q >= n
    BY <1>1
  <2> QED
    BY <2>1
<1>2. CASE q <= -1
  <2>1. n * q <= -n
    BY <1>2
  <2> QED
    BY <2>1
<1> QED
  BY <1>1, <1>2

LEMMA ModUnique ==
  ASSUME NEW n \in Nat \ {0}, NEW k \in Int, NEW d \in 0 .. n - 1, NEW e \in 0 .. n - 1,
         (k + d) % n = (k + e) % n
  PROVE  d = e
<1> DEFINE p == (k + d) \div n
           q == (k + e) \div n
<1>1. /\ p \in Int /\ k + d = n * p + ((k + d) % n)
      /\ q \in Int /\ k + e = n * q + ((k + e) % n)
  BY DivMod
<1> DEFINE r == (k + d) % n
<1>2. r \in Int /\ k + d = n * p + r /\ k + e = n * q + r
  BY <1>1, ModRange
<1> HIDE DEF p, q, r
<1>3. d - e = n * p - n * q
  BY <1>1, <1>2
<1>5. n * p - n * q = n * (p - q)
  BY <1>1
<1>4. p - q = 0
  BY <1>1, <1>3, <1>5, SmallMultiple
<1> QED
  BY <1>1, <1>2, <1>4

LEMMA ModOf ==
  ASSUME NEW n \in Nat \ {0}, NEW q \in Int, NEW i \in 0 .. n - 1
  PROVE  (n * q + i) % n = i
<1> DEFINE p == (n * q + i) \div n
           r == (n * q + i) % n
<1>1. p \in Int /\ r \in 0 .. n - 1 /\ n * q + i = n * p + r /\ r \in Int
  BY DivMod, ModRange
<1> HIDE DEF p, r
<1>2. n * (q - p) = n * q - n * p /\ n * q \in Int /\ n * p \in Int
  BY <1>1
<1>3. n * (q - p) = r - i
  BY <1>1, <1>2
<1>4. q - p = 0
  BY <1>1, <1>3, SmallMultiple
<1>5. r = i
  BY <1>1, <1>3, <1>4
<1> QED
  BY <1>5 DEF r

LEMMA DivOf ==
  ASSUME NEW n \in Nat \ {0}, NEW q \in Int, NEW i \in 0 .. n - 1
  PROVE  (n * q + i) \div n = q
<1> DEFINE p == (n * q + i) \div n
           r == (n * q + i) % n
<1>1. p \in Int /\ r \in 0 .. n - 1 /\ n * q + i = n * p + r /\ r \in Int
  BY DivMod, ModRange
<1> HIDE DEF p, r
<1>2. n * (q - p) = n * q - n * p /\ n * q \in Int /\ n * p \in Int
  BY <1>1
<1>3. n * (q - p) = r - i
  BY <1>1, <1>2
<1>4. q - p = 0
  BY <1>1, <1>3, SmallMultiple
<1>5. p = q
  BY <1>1, <1>4
<1> QED
  BY <1>5 DEF p

LEMMA TimesMonotonic ==
  ASSUME NEW a \in Int, NEW b \in Int, NEW n \in Nat, a <= b
  PROVE  a * n <= b * n /\ a * n \in Int /\ b * n \in Int
<1>1. (b - a) * n \in Nat
  OBVIOUS
<1>2. (b - a) * n = b * n - a * n
  OBVIOUS
<1> QED
  BY <1>1, <1>2

\* The slot behind i, in a ring of n.
LEMMA Behind ==
  ASSUME NEW n \in Nat \ {0}, NEW i \in 0 .. n - 1
  PROVE  (i + 1) % n = IF i = n - 1 THEN 0 ELSE i + 1
<1>1. CASE i = n - 1
  <2>1. (n * 1 + 0) % n = 0
    BY ModOf
  <2>2. i + 1 = n * 1 + 0
    BY <1>1
  <2> QED
    BY <1>1, <2>1, <2>2
<1>2. CASE i # n - 1
  <2> DEFINE j == i + 1
  <2>1. j \in 0 .. n - 1 /\ j = n * 0 + j
    BY <1>2
  <2> HIDE DEF j
  <2>2. (n * 0 + j) % n = j
    BY <2>1, ModOf
  <2>3. j % n = j
    BY <2>1, <2>2
  <2> QED
    BY <1>2, <2>3 DEF j
<1> QED
  BY <1>1, <1>2

\* The probe that starts at k meets every slot.
LEMMA ModOnto ==
  ASSUME NEW n \in Nat \ {0}, NEW k \in Int, NEW i \in 0 .. n - 1
  PROVE  \E d \in 0 .. n - 1 : (k + d) % n = i
<1> DEFINE d == (i - k) % n
           q == (i - k) \div n
           e == -q
<1>1. d \in 0 .. n - 1 /\ q \in Int /\ i - k = n * q + d
  BY DivMod, ModRange
<1> HIDE DEF d, q
<1>2. e \in Int /\ n * e = -(n * q) /\ n * q \in Int
  BY <1>1
<1> HIDE DEF e
<1>3. k + d = n * e + i
  BY <1>1, <1>2
<1>4. (k + d) % n = i
  BY <1>2, <1>3, ModOf
<1> QED
  BY <1>1, <1>4

-----------------------------------------------------------------------------
(* Iteration *)

\* The function that starts at s0 and takes step G[i] to its value at i.
LEMMA Iteration ==
  ASSUME NEW S, NEW s0 \in S, NEW N \in Nat, NEW G \in [1 .. N -> [S -> S]]
  PROVE  \E f \in [0 .. N -> S] : f[0] = s0 /\ \A i \in 1 .. N : f[i] = G[i][f[i - 1]]
<1> DEFINE Upto(n, f) == f[0] = s0 /\ \A i \in 1 .. n : f[i] = G[i][f[i - 1]]
           P == {n \in 0 .. N : \E f \in [0 .. n -> S] : Upto(n, f)}
<1>1. 0 \in P
  <2> DEFINE g == [i \in 0 .. 0 |-> s0]
  <2>1. g \in [0 .. 0 -> S] /\ Upto(0, g) /\ 0 \in 0 .. N
    OBVIOUS
  <2> HIDE DEF g
  <2> QED
    BY <2>1
<1>2. ASSUME NEW n \in 0 .. N - 1, n \in P
      PROVE  n + 1 \in P
  <2>1. PICK f \in [0 .. n -> S] : Upto(n, f)
    BY <1>2
  <2> DEFINE g == [i \in 0 .. n + 1 |-> IF i = n + 1 THEN G[n + 1][f[n]] ELSE f[i]]
  <2>2. n + 1 \in 1 .. N /\ n \in 0 .. n /\ f[n] \in S
    OBVIOUS
  <2>3. G[n + 1][f[n]] \in S
    BY <2>2
  <2>4. g \in [0 .. n + 1 -> S]
    BY <2>3
  <2>5. g[0] = s0
    BY <2>1
  <2>6. ASSUME NEW i \in 1 .. n + 1
        PROVE  g[i] = G[i][g[i - 1]]
    <3>1. CASE i = n + 1
      <4>1. i - 1 = n /\ g[n] = f[n]
        BY <3>1
      <4> QED
        BY <3>1, <4>1
    <3>2. CASE i # n + 1
      <4>1. i \in 1 .. n /\ g[i] = f[i] /\ g[i - 1] = f[i - 1]
        BY <3>2
      <4> QED
        BY <2>1, <4>1
    <3> QED
      BY <3>1, <3>2
  <2> HIDE DEF g
  <2>7. Upto(n + 1, g) /\ n + 1 \in 0 .. N
    BY <2>5, <2>6
  <2> QED
    BY <2>4, <2>7
<1>3. 0 .. N \subseteq P
  BY <1>1, <1>2, UpTo
<1>4. N \in P
  BY <1>3
<1> QED
  BY <1>4
=============================================================================
