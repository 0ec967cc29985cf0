-------------------------- MODULE AttrTableProofs --------------------------
(***************************************************************************)
(* For tables of any size and any keys: the table of an object is a map.   *)
(*                                                                         *)
(* The invariant behind it: every live entry is where the probe for its    *)
(* key stops.  Deleted entries, the reuse of the last one that a probe     *)
(* passed and the move to a new table all keep it.                         *)
(***************************************************************************)
EXTENDS AttrTable, NatLemmas, FiniteSetTheorems

Entry == [key : Keys \union {0, Deleted}, value : Values \union {NoValue}]
Tables(n) == [0 .. n - 1 -> Entry]

\* The probe for k stops at distance d.
Probe(s, k, d) ==
  LET n == Asize(s) IN
  /\ d \in 0 .. n - 1
  /\ s[(k + d) % n].key \in {k, 0}
  /\ \A e \in 0 .. d - 1 : s[(k + e) % n].key \notin {k, 0}

\* Entry i is found by the probe for its key.
Reached(s, i) == \E d : Probe(s, s[i].key, d) /\ (s[i].key + d) % Asize(s) = i

Entries(s) == {s[i] : i \in Live(s)}
LiveKeys(s) == {s[i].key : i \in Live(s)}

Sound(s) ==
  /\ \E n \in Nat \ {0} : s \in Tables(n)
  /\ \A i \in Live(s) : Reached(s, i) /\ s[i].value \in Values

\* The table of an object, or none.
Typed(has, s) == has \in BOOLEAN /\ IF has THEN Sound(s) ELSE s = <<>>

TypeInv == Typed(has_attrs, slots) /\ looping \in BOOLEAN /\ cursor \in Keys \union {0}

CountInv == alen = Cardinality(LiveKeys(slots))

\* A scan has returned the attributes in front of the slot it is at.  Behind the
\* last slot it starts again, and has then returned them all.
ScanInv ==
  cursor # 0 =>
    \E i \in Live(slots) :
      /\ has_attrs /\ slots[i].key = cursor
      /\ \/ seen = {slots[j].key : j \in {j \in Live(slots) : j < i}}
         \/ seen = LiveKeys(slots)

TableInv == TypeInv /\ CountInv /\ ScanInv

-----------------------------------------------------------------------------
(* Where a probe stops *)

LEMMA KeyNumbers == \A k \in Keys : k \in Nat /\ k > 0
BY TableAssumption

LEMMA KeysFacts ==
  /\ Keys \subseteq Nat \ {0} /\ IsFiniteSet(Keys)
  /\ NoValue \notin Values
  /\ AInit \in Nat \ {0} /\ Padding \in Nat /\ Padding > 100
BY TableAssumption

LEMMA Size ==
  ASSUME NEW n \in Nat \ {0}, NEW s \in Tables(n)
  PROVE  Asize(s) = n /\ DOMAIN s = 0 .. n - 1 /\ n \in Nat /\ n > 0
<1>1. DOMAIN s = 0 .. n - 1 /\ n \in Nat /\ n > 0
  BY DEF Tables
<1>2. Cardinality(0 .. n - 1) = n
  BY <1>1, FS_Interval
<1> QED
  BY <1>1, <1>2 DEF Asize

LEMMA LiveFacts ==
  ASSUME NEW n \in Nat \ {0}, NEW s \in Tables(n)
  PROVE  /\ Live(s) = {i \in 0 .. n - 1 : s[i].key \in Keys}
         /\ LiveKeys(s) \subseteq Keys
         /\ \A i \in 0 .. n - 1 : s[i] \in Entry /\ s[i].key \in Keys \union {0, Deleted}
<1>1. \A i \in 0 .. n - 1 : s[i] \in Entry
  BY DEF Tables
<1>2. \A i \in 0 .. n - 1 : s[i].key \in Keys \union {0, Deleted}
  BY <1>1 DEF Entry
<1>3. \A i \in 0 .. n - 1 : s[i].key > 0 <=> s[i].key \in Keys
  <2> SUFFICES ASSUME NEW i \in 0 .. n - 1 PROVE s[i].key > 0 <=> s[i].key \in Keys
    OBVIOUS
  <2>1. CASE s[i].key \in Keys
    BY <2>1, KeyNumbers
  <2>2. CASE s[i].key \in {0, Deleted}
    BY <2>2, KeysFacts DEF Deleted
  <2> QED
    BY <1>2, <2>1, <2>2
<1> QED
  BY <1>1, <1>2, <1>3, Size DEF Live, LiveKeys

LEMMA ProbeStops ==
  ASSUME NEW n \in Nat \ {0}, NEW s \in Tables(n), NEW k \in Keys, NEW d, Probe(s, k, d)
  PROVE  Ends(s, k) /\ Min(Stops(s, k)) = d /\ StopAt(s, k) = (k + d) % n
<1>1. Asize(s) = n /\ n \in Nat
  BY Size
<1>2. d \in Stops(s, k) /\ Stops(s, k) \in SUBSET Nat
  BY <1>1 DEF Stops, Probe
<1>3. Min(Stops(s, k)) \in Stops(s, k) /\ Min(Stops(s, k)) <= d
  BY <1>2, MinFacts
<1>4. \A e \in Stops(s, k) : ~ (e < d)
  BY <1>1, <1>2 DEF Stops, Probe
<1>5. Min(Stops(s, k)) = d
  BY <1>2, <1>3, <1>4
<1> QED
  BY <1>1, <1>2, <1>5 DEF Ends, StopAt

LEMMA StopsProbe ==
  ASSUME NEW n \in Nat \ {0}, NEW s \in Tables(n), NEW k \in Keys, Ends(s, k)
  PROVE  Probe(s, k, Min(Stops(s, k)))
<1> DEFINE d == Min(Stops(s, k))
<1>1. Asize(s) = n /\ n \in Nat
  BY Size
<1>2. Stops(s, k) \in SUBSET Nat /\ Stops(s, k) # {}
  BY <1>1 DEF Stops, Ends
<1>3. d \in Stops(s, k) /\ \A e \in Stops(s, k) : d <= e
  BY <1>2, MinFacts
<1> HIDE DEF d
<1>4. d \in 0 .. n - 1 /\ s[(k + d) % n].key \in {k, 0}
  BY <1>1, <1>3 DEF Stops
<1>5. \A e \in 0 .. d - 1 : e \in 0 .. n - 1 /\ e \notin Stops(s, k)
  BY <1>1, <1>3, <1>4
<1>6. \A e \in 0 .. d - 1 : s[(k + e) % n].key \notin {k, 0}
  BY <1>1, <1>5 DEF Stops
<1> QED
  BY <1>1, <1>4, <1>6 DEF Probe, d

\* The slots of a probe are the slots of the table, each once.
LEMMA ProbeSlots ==
  ASSUME NEW n \in Nat \ {0}, NEW k \in Keys
  PROVE  /\ \A d \in 0 .. n - 1 : (k + d) % n \in 0 .. n - 1
         /\ \A d, e \in 0 .. n - 1 : (k + d) % n = (k + e) % n => d = e
         /\ \A i \in 0 .. n - 1 : \E d \in 0 .. n - 1 : (k + d) % n = i
<1>1. k \in Int /\ n \in Nat \ {0}
  BY KeysFacts
<1>2. \A d \in 0 .. n - 1 : k + d \in Int
  BY <1>1
<1> QED
  BY <1>1, <1>2, ModRange, ModUnique, ModOnto

\* With a slot that was never used, every probe stops.
LEMMA EmptyStops ==
  ASSUME NEW n \in Nat \ {0}, NEW s \in Tables(n), NEW k \in Keys,
         NEW i \in 0 .. n - 1, s[i].key = 0
  PROVE  Ends(s, k)
<1>1. \A j \in 0 .. n - 1 : \E d \in 0 .. n - 1 : (k + d) % n = j
  BY ProbeSlots
<1>2. PICK d \in 0 .. n - 1 : (k + d) % n = i
  BY <1>1
<1> QED
  BY <1>2, Size DEF Ends, Stops

-----------------------------------------------------------------------------
(* What a sound table holds *)

Without(s, k) == {x \in Entries(s) : x.key # k}
AttrsOf(has, s) ==
  [k \in Keys |-> IF has /\ Has(s, k) THEN s[StopAt(s, k)].value ELSE NoValue]

LEMMA LiveFound ==
  ASSUME NEW n \in Nat \ {0}, NEW s \in Tables(n), Sound(s), NEW i \in Live(s)
  PROVE  /\ s[i].key \in Keys /\ i \in 0 .. n - 1
         /\ Ends(s, s[i].key) /\ StopAt(s, s[i].key) = i
         /\ Has(s, s[i].key)
<1>1. s[i].key \in Keys /\ i \in 0 .. n - 1
  BY LiveFacts
<1>2. PICK d : Probe(s, s[i].key, d) /\ (s[i].key + d) % Asize(s) = i
  BY DEF Sound, Reached
<1>3. Ends(s, s[i].key) /\ StopAt(s, s[i].key) = i
  BY <1>1, <1>2, ProbeStops, Size
<1>4. Has(s, s[i].key)
  BY <1>3 DEF Has, Ends, StopAt
<1> QED
  BY <1>1, <1>3, <1>4

\* No key is in the table twice.
LEMMA KeyOnce ==
  ASSUME NEW n \in Nat \ {0}, NEW s \in Tables(n), Sound(s),
         NEW i \in Live(s), NEW j \in Live(s), s[i].key = s[j].key
  PROVE  i = j
BY LiveFound

LEMMA HasFacts ==
  ASSUME NEW n \in Nat \ {0}, NEW s \in Tables(n), NEW k \in Keys, Has(s, k)
  PROVE  Ends(s, k) /\ StopAt(s, k) \in Live(s) /\ s[StopAt(s, k)].key = k
<1>1. Ends(s, k) /\ s[StopAt(s, k)].key = k
  BY DEF Has, Ends, StopAt
<1>2. Min(Stops(s, k)) \in 0 .. n - 1
  BY <1>1, StopsProbe, Size DEF Probe
<1>3. StopAt(s, k) \in 0 .. n - 1
  BY <1>2, ProbeSlots, Size DEF StopAt
<1> QED
  BY <1>1, <1>3, LiveFacts

LEMMA HasIsLive ==
  ASSUME NEW n \in Nat \ {0}, NEW s \in Tables(n), Sound(s), NEW k \in Keys
  PROVE  Has(s, k) <=> k \in LiveKeys(s)
BY LiveFound, HasFacts DEF LiveKeys

LEMMA EntryFacts ==
  ASSUME NEW has, NEW s, Typed(has, s), NEW x \in Entries(s)
  PROVE  x.key \in Keys /\ x.value \in Values /\ AttrsOf(has, s)[x.key] = x.value
<1>1. PICK i \in Live(s) : x = s[i]
  BY DEF Entries
<1>2. has /\ Sound(s)
  BY <1>1 DEF Typed, Live
<1>3. PICK n \in Nat \ {0} : s \in Tables(n)
  BY <1>2 DEF Sound
<1>4. x.value \in Values
  BY <1>1, <1>2 DEF Sound
<1> QED
  BY <1>1, <1>2, <1>3, <1>4, LiveFound DEF AttrsOf

LEMMA NoEntry ==
  ASSUME NEW has, NEW s, Typed(has, s), NEW k \in Keys, \A x \in Entries(s) : x.key # k
  PROVE  AttrsOf(has, s)[k] = NoValue
<1>1. ASSUME has, Has(s, k)
      PROVE  FALSE
  <2>1. PICK n \in Nat \ {0} : s \in Tables(n)
    BY <1>1 DEF Typed, Sound
  <2> QED
    BY <1>1, <2>1, HasFacts DEF Entries
<1> QED
  BY <1>1 DEF AttrsOf

\* Two tables with the same entries for k have the same value for it.
LEMMA SameAttr ==
  ASSUME NEW has, NEW s, Typed(has, s), NEW had, NEW t, Typed(had, t), NEW k \in Keys,
         \A x : x.key = k => (x \in Entries(s) <=> x \in Entries(t))
  PROVE  AttrsOf(has, s)[k] = AttrsOf(had, t)[k]
<1>1. CASE \E x \in Entries(s) : x.key = k
  <2>1. PICK x \in Entries(s) : x.key = k
    BY <1>1
  <2>2. x \in Entries(t)
    BY <2>1
  <2> QED
    BY <2>1, <2>2, EntryFacts
<1>2. CASE ~ \E x \in Entries(s) : x.key = k
  <2>1. ~ \E x \in Entries(t) : x.key = k
    BY <1>2
  <2> QED
    BY <1>2, <2>1, NoEntry
<1> QED
  BY <1>1, <1>2

\* What a table's entries say of the map that it stands for, and of its length.
LEMMA EntriesSame ==
  ASSUME NEW has, NEW s, Typed(has, s), NEW had, NEW t, Typed(had, t),
         Entries(t) = Entries(s)
  PROVE  AttrsOf(had, t) = AttrsOf(has, s) /\ LiveKeys(t) = LiveKeys(s)
<1>1. \A k \in Keys : AttrsOf(has, s)[k] = AttrsOf(had, t)[k]
  BY SameAttr
<1>2. LiveKeys(t) = LiveKeys(s)
  <2>1. \A k : k \in LiveKeys(t) <=> \E x \in Entries(t) : x.key = k
    BY DEF LiveKeys, Entries
  <2>2. \A k : k \in LiveKeys(s) <=> \E x \in Entries(s) : x.key = k
    BY DEF LiveKeys, Entries
  <2> QED
    BY <2>1, <2>2
<1> QED
  BY <1>1, <1>2 DEF AttrsOf

LEMMA EntriesPut ==
  ASSUME NEW has, NEW s, Typed(has, s), NEW had, NEW t, Typed(had, t),
         NEW k \in Keys, NEW v \in Values,
         Entries(t) = Without(s, k) \union {[key |-> k, value |-> v]}
  PROVE  /\ AttrsOf(had, t) = [AttrsOf(has, s) EXCEPT ![k] = v]
         /\ LiveKeys(t) = LiveKeys(s) \union {k}
<1>1. \A l \in Keys \ {k} : AttrsOf(has, s)[l] = AttrsOf(had, t)[l]
  <2> TAKE l \in Keys \ {k}
  <2>1. \A x : x.key = l => (x \in Entries(s) <=> x \in Entries(t))
    BY DEF Without
  <2> QED
    BY <2>1, SameAttr
<1>2. AttrsOf(had, t)[k] = v
  <2> DEFINE x == [key |-> k, value |-> v]
  <2>1. x \in Entries(t) /\ x.key = k /\ x.value = v
    OBVIOUS
  <2> HIDE DEF x
  <2> QED
    BY <2>1, EntryFacts
<1>3. LiveKeys(t) = LiveKeys(s) \union {k}
  <2>1. \A l : l \in LiveKeys(t) <=> \E x \in Entries(t) : x.key = l
    BY DEF LiveKeys, Entries
  <2>2. \A l : l \in LiveKeys(s) <=> \E x \in Entries(s) : x.key = l
    BY DEF LiveKeys, Entries
  <2>3. \A l : (\E x \in Entries(t) : x.key = l) <=> l = k \/ \E x \in Entries(s) : x.key = l
    <3> DEFINE y == [key |-> k, value |-> v]
    <3>1. y \in Entries(t) /\ y.key = k
      OBVIOUS
    <3>2. \A x : x \in Entries(t) <=> x = y \/ (x \in Entries(s) /\ x.key # k)
      BY DEF Without
    <3> HIDE DEF y
    <3> QED
      BY <3>1, <3>2
  <2> QED
    BY <2>1, <2>2, <2>3
<1> QED
  BY <1>1, <1>2, <1>3 DEF AttrsOf

LEMMA EntriesDrop ==
  ASSUME NEW has, NEW s, Typed(has, s), NEW had, NEW t, Typed(had, t),
         NEW k \in Keys, Entries(t) = Without(s, k)
  PROVE  /\ AttrsOf(had, t) = [AttrsOf(has, s) EXCEPT ![k] = NoValue]
         /\ LiveKeys(t) = LiveKeys(s) \ {k}
<1>1. \A l \in Keys \ {k} : AttrsOf(has, s)[l] = AttrsOf(had, t)[l]
  <2> TAKE l \in Keys \ {k}
  <2>1. \A x : x.key = l => (x \in Entries(s) <=> x \in Entries(t))
    BY DEF Without
  <2> QED
    BY <2>1, SameAttr
<1>2. AttrsOf(had, t)[k] = NoValue
  <2>1. \A x \in Entries(t) : x.key # k
    BY DEF Without
  <2> QED
    BY <2>1, NoEntry
<1>3. LiveKeys(t) = LiveKeys(s) \ {k}
  <2>1. \A l : l \in LiveKeys(t) <=> \E x \in Entries(t) : x.key = l
    BY DEF LiveKeys, Entries
  <2>2. \A l : l \in LiveKeys(s) <=> \E x \in Entries(s) : x.key = l
    BY DEF LiveKeys, Entries
  <2> QED
    BY <2>1, <2>2 DEF Without
<1> QED
  BY <1>1, <1>2, <1>3 DEF AttrsOf

-----------------------------------------------------------------------------
(* A table with one slot changed *)

Changed(s, t, i, x) == t = [s EXCEPT ![i] = x]

\* A probe stops where it did when no slot in front of it became a stop.
LEMMA ProbeCarries ==
  ASSUME NEW n \in Nat \ {0}, NEW s \in Tables(n), NEW t \in Tables(n),
         NEW k \in Keys, NEW d, Probe(s, k, d), t[(k + d) % n].key = k,
         \A j \in 0 .. n - 1 : s[j].key \notin {k, 0} => t[j].key \notin {k, 0}
  PROVE  Probe(t, k, d)
<1>1. Asize(s) = n /\ Asize(t) = n /\ n \in Nat
  BY Size
<1>2. d \in 0 .. n - 1
  BY <1>1 DEF Probe
<1>3. \A e \in 0 .. d - 1 : e \in 0 .. n - 1
  BY <1>1, <1>2
<1>4. \A e \in 0 .. d - 1 : t[(k + e) % n].key \notin {k, 0}
  BY <1>1, <1>3, ProbeSlots DEF Probe
<1> QED
  BY <1>1, <1>2, <1>4 DEF Probe

\* The place of a new entry: where its probe stops or a deleted entry before.
LEMMA Store ==
  ASSUME NEW n \in Nat \ {0}, NEW s \in Tables(n), Sound(s),
         NEW k \in Keys, NEW v \in Values, Ends(s, k), k \notin LiveKeys(s),
         NEW d \in 0 .. Min(Stops(s, k)), s[(k + d) % n].key \notin Keys,
         NEW t, Changed(s, t, (k + d) % n, [key |-> k, value |-> v])
  PROVE  /\ t \in Tables(n) /\ Sound(t)
         /\ Entries(t) = Entries(s) \union {[key |-> k, value |-> v]}
<1> DEFINE x == [key |-> k, value |-> v]
           p == (k + d) % n
           m == Min(Stops(s, k))
<1>1. Probe(s, k, m) /\ Asize(s) = n /\ n \in Nat /\ m \in 0 .. n - 1
  BY StopsProbe, Size DEF Probe
<1>2. d \in 0 .. n - 1 /\ p \in 0 .. n - 1
  BY <1>1, ProbeSlots
<1>3. x \in Entry /\ x.key = k /\ x.value = v
  BY DEF Entry
<1>4. t \in Tables(n)
  BY <1>3 DEF Tables, Changed
<1>5. t[p] = x /\ \A i \in 0 .. n - 1 : i # p => t[i] = s[i]
  BY <1>2 DEF Tables, Changed
<1>6. Live(t) = Live(s) \union {p} /\ p \notin Live(s)
  <2>1. /\ Live(s) = {i \in 0 .. n - 1 : s[i].key \in Keys}
        /\ Live(t) = {i \in 0 .. n - 1 : t[i].key \in Keys}
    BY <1>4, LiveFacts
  <2> HIDE DEF x, p
  <2>2. t[p].key \in Keys /\ ~ (s[p].key \in Keys)
    BY <1>3, <1>5 DEF p
  <2>3. \A i \in 0 .. n - 1 : i # p => (t[i].key \in Keys <=> s[i].key \in Keys)
    BY <1>5
  <2> QED
    BY <1>2, <2>1, <2>2, <2>3
<1>7. \A i \in Live(s) : s[i].key # k /\ i \in 0 .. n - 1 /\ i # p /\ t[i] = s[i]
  BY <1>5, <1>6, LiveFacts DEF LiveKeys
<1> HIDE DEF x, p, m
<1>8. Reached(t, p)
  <2>1. \A e \in 0 .. d - 1 : e \in 0 .. n - 1 /\ e # d /\ e \in 0 .. m - 1
    BY <1>1, <1>2 DEF m
  <2>2. \A e \in 0 .. d - 1 : (k + e) % n \in 0 .. n - 1 /\ (k + e) % n # p
    BY <1>2, <2>1, ProbeSlots DEF p
  <2>3. \A e \in 0 .. d - 1 : t[(k + e) % n].key \notin {k, 0}
    BY <1>1, <1>5, <2>1, <2>2 DEF Probe
  <2>4. Probe(t, k, d)
    BY <1>2, <1>3, <1>4, <1>5, <2>3, Size DEF Probe, p
  <2> QED
    BY <1>3, <1>4, <1>5, <2>4, Size DEF Reached, p
<1>9. ASSUME NEW i \in Live(s)
      PROVE  Reached(t, i)
  <2> DEFINE l == s[i].key
  <2>1. l \in Keys /\ l # k /\ t[i].key = l
    BY <1>7, LiveFacts
  <2>2. PICK e : Probe(s, l, e) /\ (l + e) % n = i
    BY <1>1 DEF Sound, Reached
  <2>3. \A j \in 0 .. n - 1 : s[j].key \notin {l, 0} => t[j].key \notin {l, 0}
    BY <1>3, <1>5, <2>1, KeyNumbers
  <2> HIDE DEF l
  <2>5. t[(l + e) % n].key = l
    BY <2>1, <2>2
  <2>4. Probe(t, l, e)
    BY <1>4, <2>1, <2>2, <2>3, <2>5, ProbeCarries
  <2> QED
    BY <1>4, <2>1, <2>2, <2>4, Size DEF Reached, l
<1>10. Sound(t)
  BY <1>3, <1>4, <1>5, <1>6, <1>7, <1>8, <1>9 DEF Sound
<1>11. Entries(t) = Entries(s) \union {x}
  <2>1. \A y : y \in Entries(t) <=> \E i \in Live(t) : y = t[i]
    BY DEF Entries
  <2>2. \A y : y \in Entries(s) <=> \E i \in Live(s) : y = s[i]
    BY DEF Entries
  <2>3. \A y : y \in Entries(t) <=> y \in Entries(s) \/ y = x
    <3>1. ASSUME NEW y \in Entries(t) PROVE y \in Entries(s) \/ y = x
      BY <1>5, <1>6, <1>7, <2>1, <2>2
    <3>2. Entries(s) \subseteq Entries(t)
      BY <1>6, <1>7, <2>1, <2>2
    <3>3. x \in Entries(t)
      BY <1>5, <1>6, <2>1
    <3> QED
      BY <3>1, <3>2, <3>3
  <2> QED
    BY <2>3
<1> QED
  BY <1>4, <1>10, <1>11 DEF x

\* The entry of a key gets a new value, or is marked as deleted.
LEMMA Replace ==
  ASSUME NEW n \in Nat \ {0}, NEW s \in Tables(n), Sound(s), NEW p \in Live(s),
         NEW x \in Entry, x.key \in {s[p].key, Deleted}, x.key > 0 => x.value \in Values,
         NEW t, Changed(s, t, p, x)
  PROVE  /\ t \in Tables(n) /\ Sound(t)
         /\ Entries(t) = Without(s, s[p].key) \union (IF x.key > 0 THEN {x} ELSE {})
<1> DEFINE k == s[p].key
<1>1. Asize(s) = n /\ n \in Nat /\ p \in 0 .. n - 1 /\ k \in Keys /\ k \in Nat /\ k > 0
  BY Size, LiveFacts, KeyNumbers
<1>2. t \in Tables(n)
  BY DEF Tables, Changed
<1>3. t[p] = x /\ \A i \in 0 .. n - 1 : i # p => t[i] = s[i]
  BY <1>1 DEF Tables, Changed
<1>4. (x.key = k /\ x.key > 0 /\ x.value \in Values) \/ (x.key = Deleted /\ ~ (x.key > 0))
  BY <1>1 DEF Deleted
<1> HIDE DEF k
<1>5. \A i : i # p => (i \in Live(t) <=> i \in Live(s))
  <2>1. /\ Live(s) = {i \in 0 .. n - 1 : s[i].key \in Keys}
        /\ Live(t) = {i \in 0 .. n - 1 : t[i].key \in Keys}
    BY <1>2, LiveFacts
  <2> QED
    BY <1>3, <2>1
<1>6. p \in Live(t) <=> x.key > 0
  BY <1>1, <1>2, <1>3, Size DEF Live
<1>7. ASSUME NEW i \in Live(t)
      PROVE  Reached(t, i) /\ t[i].value \in Values
  <2> DEFINE l == s[i].key
  <2>0. i \in Live(s)
    BY <1>5
  <2>1. l \in Keys /\ i \in 0 .. n - 1
    BY <2>0, LiveFacts
  <2>2. t[i].key = l /\ t[i].value \in Values
    <3>1. CASE i = p
      BY <1>3, <1>4, <1>6, <3>1 DEF k
    <3>2. CASE i # p
      BY <1>3, <2>0, <2>1, <3>2 DEF Sound
    <3> QED
      BY <3>1, <3>2
  <2>3. PICK e : Probe(s, l, e) /\ (l + e) % n = i
    BY <1>1, <2>0 DEF Sound, Reached
  <2>4. s[p].key = k
    BY DEF k
  <2>5. \A j \in 0 .. n - 1 : s[j].key \notin {l, 0} => t[j].key \notin {l, 0}
    <3>1. \A j \in 0 .. n - 1 : j # p => t[j].key = s[j].key
      BY <1>3
    <3>2. l > 0
      BY <2>1, KeyNumbers
    <3>3. s[p].key \notin {l, 0} => t[p].key \notin {l, 0}
      BY <1>1, <1>3, <1>4, <2>1, <2>4, <3>2, KeyNumbers DEF Deleted
    <3> QED
      BY <3>1, <3>3
  <2> HIDE DEF l
  <2>6. t[(l + e) % n].key = l
    BY <2>2, <2>3
  <2>7. Probe(t, l, e)
    BY <1>2, <2>1, <2>3, <2>5, <2>6, ProbeCarries
  <2> QED
    BY <1>2, <2>1, <2>2, <2>3, <2>7, Size DEF Reached
<1>8. Sound(t)
  BY <1>2, <1>7 DEF Sound
<1>9. \A y : y \in Entries(t) <=> y \in Without(s, k) \/ (x.key > 0 /\ y = x)
  <2>1. \A y : y \in Entries(t) <=> \E i \in Live(t) : y = t[i]
    BY DEF Entries
  <2>2. \A y : y \in Without(s, k) <=> \E i \in Live(s) : y = s[i] /\ s[i].key # k
    BY DEF Entries, Without
  <2>3. \A i \in Live(s) : i \in 0 .. n - 1 /\ (i # p => s[i].key # k)
    BY KeyOnce, LiveFacts DEF k
  <2>4. ASSUME NEW y \in Entries(t) PROVE y \in Without(s, k) \/ (x.key > 0 /\ y = x)
    <3>1. PICK i \in Live(t) : y = t[i]
      BY <2>1
    <3>2. CASE i = p
      BY <1>3, <1>6, <3>1, <3>2
    <3>3. CASE i # p
      BY <1>3, <1>5, <2>2, <2>3, <3>1, <3>3
    <3> QED
      BY <3>2, <3>3
  <2>5. ASSUME NEW y \in Without(s, k) PROVE y \in Entries(t)
    <3>1. PICK i \in Live(s) : y = s[i] /\ s[i].key # k
      BY <2>2
    <3>2. i # p
      BY <3>1 DEF k
    <3> QED
      BY <1>3, <1>5, <2>1, <2>3, <3>1, <3>2
  <2>6. x.key > 0 => x \in Entries(t)
    BY <1>3, <1>6, <2>1
  <2> QED
    BY <2>4, <2>5, <2>6
<1> QED
  BY <1>2, <1>8, <1>9 DEF k

LEMMA NewTable ==
  ASSUME NEW n \in Nat \ {0}
  PROVE  /\ NewSlots(n) \in Tables(n) /\ Sound(NewSlots(n))
         /\ \A i \in 0 .. n - 1 : NewSlots(n)[i].key = 0
         /\ Live(NewSlots(n)) = {} /\ Entries(NewSlots(n)) = {}
<1>1. EmptySlot \in Entry /\ EmptySlot.key = 0
  BY DEF EmptySlot, Entry
<1>2. NewSlots(n) \in Tables(n) /\ \A i \in 0 .. n - 1 : NewSlots(n)[i].key = 0
  BY <1>1 DEF NewSlots, Tables
<1>3. Live(NewSlots(n)) = {}
  BY <1>2, Size DEF Live
<1> QED
  BY <1>2, <1>3 DEF Sound, Entries

\* set_attr: whichever slot it takes, the table then holds k with its new value and
\* the other keys with theirs.
LEMMA Put ==
  ASSUME NEW n \in Nat \ {0}, NEW s \in Tables(n), Sound(s),
         NEW k \in Keys, NEW v \in Values, Ends(s, k),
         NEW t, Changed(s, t, PlaceFor(s, k), [key |-> k, value |-> v])
  PROVE  /\ t \in Tables(n) /\ Sound(t)
         /\ Entries(t) = Without(s, k) \union {[key |-> k, value |-> v]}
<1> DEFINE x == [key |-> k, value |-> v]
           m == Min(Stops(s, k))
<1>0. Changed(s, t, PlaceFor(s, k), x)
  OBVIOUS
<1>1. x \in Entry /\ x.key = k /\ x.value = v /\ k > 0
  BY KeyNumbers DEF Entry
<1>2. Probe(s, k, m) /\ Asize(s) = n /\ n \in Nat /\ m \in 0 .. n - 1
  BY StopsProbe, Size DEF Probe
<1> HIDE DEF x, m
<1>3. CASE Has(s, k)
  <2>1. PlaceFor(s, k) = StopAt(s, k)
    BY <1>3 DEF PlaceFor
  <2>2. StopAt(s, k) \in Live(s) /\ s[StopAt(s, k)].key = k
    BY <1>3, HasFacts
  <2>3. PICK p \in Live(s) : p = StopAt(s, k)
    BY <2>2
  <2>4. Changed(s, t, p, x) /\ s[p].key = k
    BY <1>0, <2>1, <2>2, <2>3
  <2>5. x.key \in {s[p].key, Deleted} /\ x.key > 0 /\ x.value \in Values
    BY <1>1, <2>4
  <2>6. /\ t \in Tables(n) /\ Sound(t)
        /\ Entries(t) = Without(s, s[p].key) \union (IF x.key > 0 THEN {x} ELSE {})
    BY <1>1, <2>4, <2>5, Replace
  <2> QED
    BY <2>4, <2>5, <2>6 DEF x
<1>4. CASE ~ Has(s, k)
  <2>1. k \notin LiveKeys(s)
    BY <1>4, HasIsLive
  <2>2. \E d \in 0 .. m : PlaceFor(s, k) = (k + d) % n /\ s[(k + d) % n].key \notin Keys
    <3>1. CASE Holes(s, k) = {}
      <4>1. PlaceFor(s, k) = (k + m) % n
        BY <1>2, <1>4, <3>1 DEF PlaceFor, StopAt, m
      <4>2. s[(k + m) % n].key \in {k, 0} /\ s[(k + m) % n].key # k
        BY <1>2, <1>4 DEF Probe, Has, Ends, m
      <4> QED
        BY <1>2, <4>1, <4>2, KeyNumbers
    <3>2. CASE Holes(s, k) # {}
      <4>1. Holes(s, k) \in SUBSET (0 .. m)
        BY DEF Holes, m
      <4>2. Max(Holes(s, k)) \in Holes(s, k)
        <5>1. m \in Nat
          BY <1>2
        <5> QED
          BY <3>2, <4>1, <5>1, MaxFacts
      <4>3. PlaceFor(s, k) = (k + Max(Holes(s, k))) % n
        BY <1>2, <1>4, <3>2 DEF PlaceFor
      <4>4. s[(k + Max(Holes(s, k))) % n].key = Deleted
        BY <1>2, <4>2 DEF Holes
      <4> QED
        BY <4>1, <4>2, <4>3, <4>4, KeyNumbers DEF Deleted
    <3> QED
      BY <3>1, <3>2
  <2>3. PICK d \in 0 .. m : PlaceFor(s, k) = (k + d) % n /\ s[(k + d) % n].key \notin Keys
    BY <2>2
  <2>4. t \in Tables(n) /\ Sound(t) /\ Entries(t) = Entries(s) \union {x}
    BY <1>0, <2>1, <2>3, Store DEF x, m
  <2>5. Without(s, k) = Entries(s)
    BY <2>1 DEF Without, Entries, LiveKeys
  <2> QED
    BY <2>4, <2>5 DEF x
<1> QED
  BY <1>3, <1>4

-----------------------------------------------------------------------------
(* How many entries a table has *)

LEMMA LiveCount ==
  ASSUME NEW n \in Nat \ {0}, NEW s \in Tables(n), Sound(s)
  PROVE  /\ IsFiniteSet(LiveKeys(s)) /\ Cardinality(LiveKeys(s)) \in Nat
         /\ Cardinality(Live(s)) = Cardinality(LiveKeys(s))
<1> DEFINE f == [i \in Live(s) |-> s[i].key]
<1>1. IsFiniteSet(LiveKeys(s))
  BY KeysFacts, LiveFacts, FS_Subset
<1>2. f \in Bijection(Live(s), LiveKeys(s))
  <2>1. f \in [Live(s) -> LiveKeys(s)]
    BY DEF LiveKeys
  <2>2. \A i, j \in Live(s) : f[i] = f[j] => i = j
    BY KeyOnce
  <2>3. \A k \in LiveKeys(s) : \E i \in Live(s) : f[i] = k
    BY DEF LiveKeys
  <2> QED
    BY <2>1, <2>2, <2>3 DEF Bijection, Injection, Surjection, IsInjective
<1>3. IsFiniteSet(Live(s))
  <2>1. Live(s) \in SUBSET (0 .. n - 1)
    BY LiveFacts
  <2>2. IsFiniteSet(0 .. n - 1)
    BY FS_Interval
  <2> QED
    BY <2>1, <2>2, FS_Subset
<1> QED
  BY <1>1, <1>2, <1>3, FS_Bijection, FS_CardinalityType DEF ExistsBijection

\* A table without deleted entries and with fewer live ones than slots has a slot
\* that was never used.
LEMMA RoomLeft ==
  ASSUME NEW n \in Nat \ {0}, NEW s \in Tables(n), Sound(s),
         \A i \in 0 .. n - 1 : s[i].key # Deleted, Cardinality(LiveKeys(s)) < n
  PROVE  \E i \in 0 .. n - 1 : s[i].key = 0
<1> SUFFICES ASSUME \A i \in 0 .. n - 1 : s[i].key # 0
             PROVE  FALSE
  OBVIOUS
<1>1. Live(s) = 0 .. n - 1
  <2>1. \A i \in 0 .. n - 1 : s[i].key \in Keys
    BY LiveFacts
  <2>2. Live(s) = {i \in 0 .. n - 1 : s[i].key \in Keys}
    BY LiveFacts
  <2> QED
    BY <2>1, <2>2
<1>2. Cardinality(0 .. n - 1) = n
  BY FS_Interval
<1> QED
  BY <1>1, <1>2, LiveCount

-----------------------------------------------------------------------------
(* attrs_realloc *)

\* The tables that attrs_realloc goes through while it moves the entries of s.
Moves(s, n, g) ==
  g = [i \in 0 .. Asize(s) |-> IF i = 0 THEN NewSlots(n)
                               ELSE IF s[i - 1].key > 0 THEN Insert(g[i - 1], s[i - 1])
                               ELSE g[i - 1]]

LEMMA RehashMoves ==
  ASSUME NEW m \in Nat \ {0}, NEW s \in Tables(m), NEW n \in Nat \ {0}
  PROVE  \E g : Moves(s, n, g) /\ Rehash(s, n) = g[m]
<1> DEFINE G == [i \in 1 .. m |-> [t \in Tables(n) |->
                  IF s[i - 1].key > 0 THEN Insert(t, s[i - 1]) ELSE t]]
           moved[i \in 0 .. Asize(s)] ==
             IF i = 0 THEN NewSlots(n)
             ELSE IF s[i - 1].key > 0 THEN Insert(moved[i - 1], s[i - 1])
             ELSE moved[i - 1]
<1>1. G \in [1 .. m -> [Tables(n) -> Tables(n)]]
  <2>1. \A i \in 1 .. m : s[i - 1] \in Entry
    BY DEF Tables
  <2>2. \A t \in Tables(n), x \in Entry : Insert(t, x) \in Tables(n)
    BY DEF Tables, Insert
  <2> QED
    BY <2>1, <2>2
<1>2. NewSlots(n) \in Tables(n) /\ m \in Nat /\ Asize(s) = m
  BY NewTable, Size
<1>3. \A i \in 1 .. m, t \in Tables(n) :
        G[i][t] = IF s[i - 1].key > 0 THEN Insert(t, s[i - 1]) ELSE t
  OBVIOUS
<1> HIDE DEF G
<1>4. PICK f \in [0 .. m -> Tables(n)] :
             f[0] = NewSlots(n) /\ \A i \in 1 .. m : f[i] = G[i][f[i - 1]]
  BY <1>1, <1>2, Iteration
<1>5. \A i \in 1 .. m : f[i - 1] \in Tables(n)
  BY <1>2
<1>6. \A i \in 1 .. m : f[i] = IF s[i - 1].key > 0 THEN Insert(f[i - 1], s[i - 1])
                              ELSE f[i - 1]
  BY <1>3, <1>4, <1>5
<1>7. Moves(s, n, f)
  BY <1>2, <1>4, <1>6 DEF Moves
<1>8. Moves(s, n, moved)
  BY <1>7 DEF Moves
<1>9. Rehash(s, n) = moved[m]
  BY <1>2 DEF Rehash
<1> QED
  BY <1>8, <1>9

Undeleted(s) == \A i \in DOMAIN s : s[i].key # Deleted

LEMMA InsertKeeps ==
  ASSUME NEW n \in Nat \ {0}, NEW s \in Tables(n), Sound(s), Undeleted(s),
         NEW x \in Entry, x.key \in Keys, x.value \in Values, x.key \notin LiveKeys(s),
         Cardinality(LiveKeys(s)) < n
  PROVE  /\ Insert(s, x) \in Tables(n) /\ Sound(Insert(s, x)) /\ Undeleted(Insert(s, x))
         /\ Entries(Insert(s, x)) = Entries(s) \union {x}
<1> DEFINE k == x.key
           v == x.value
           m == Min(Stops(s, k))
           t == Insert(s, x)
<1>1. DOMAIN s = 0 .. n - 1 /\ Asize(s) = n /\ n \in Nat
  BY Size
<1>2. \A i \in 0 .. n - 1 : s[i].key # Deleted
  BY <1>1 DEF Undeleted
<1>3. PICK i \in 0 .. n - 1 : s[i].key = 0
  BY <1>2, RoomLeft
<1>4. Ends(s, k)
  BY <1>3, EmptyStops
<1>5. Probe(s, k, m) /\ m \in 0 .. n - 1 /\ m \in 0 .. m
  BY <1>1, <1>4, StopsProbe DEF Probe
<1>6. x = [key |-> k, value |-> v]
  BY DEF Entry
<1>7. Changed(s, t, (k + m) % n, [key |-> k, value |-> v])
  BY <1>1, <1>6 DEF Changed, Insert, StopAt
<1>8. s[(k + m) % n].key \in {k, 0} /\ s[(k + m) % n].key # k
  <2>1. (k + m) % n \in 0 .. n - 1
    BY <1>5, ProbeSlots
  <2>2. \A j \in 0 .. n - 1 : s[j].key # k
    BY <1>1, LiveFacts DEF LiveKeys
  <2> QED
    BY <1>1, <1>5, <2>1, <2>2 DEF Probe
<1>9. s[(k + m) % n].key \notin Keys
  BY <1>8, KeyNumbers
<1> HIDE DEF k, v, m, t
<1>10. k \in Keys /\ v \in Values /\ k \notin LiveKeys(s)
  BY DEF k, v
<1>11. /\ t \in Tables(n) /\ Sound(t)
       /\ Entries(t) = Entries(s) \union {[key |-> k, value |-> v]}
  BY <1>4, <1>5, <1>7, <1>9, <1>10, Store DEF m
<1>12. Undeleted(t)
  <2>1. DOMAIN t = 0 .. n - 1
    BY <1>11, Size
  <2>2. \A j \in 0 .. n - 1 : t[j] = s[j] \/ t[j] = x
    BY <1>1, <1>6, <1>7 DEF Changed
  <2>3. x.key # Deleted
    BY KeyNumbers DEF Deleted
  <2> QED
    BY <1>2, <2>1, <2>2, <2>3 DEF Undeleted
<1> QED
  BY <1>6, <1>11, <1>12 DEF t

\* A reallocation keeps every entry, when the new table has room for them.
LEMMA RehashKeeps ==
  ASSUME NEW m \in Nat \ {0}, NEW s \in Tables(m), Sound(s),
         NEW n \in Nat \ {0}, Cardinality(LiveKeys(s)) <= n
  PROVE  /\ Rehash(s, n) \in Tables(n) /\ Sound(Rehash(s, n)) /\ Undeleted(Rehash(s, n))
         /\ Entries(Rehash(s, n)) = Entries(s)
<1>0. m \in Nat /\ Asize(s) = m /\ DOMAIN s = 0 .. m - 1
  BY Size
<1>1. PICK g : Moves(s, n, g) /\ Rehash(s, n) = g[m]
  BY RehashMoves
<1> DEFINE Below(i) == {s[j] : j \in {j \in Live(s) : j < i}}
           Good(i) == /\ g[i] \in Tables(n) /\ Sound(g[i]) /\ Undeleted(g[i])
                      /\ Entries(g[i]) = Below(i)
           P == {i \in 0 .. m : Good(i)}
<1>2. g[0] = NewSlots(n)
  BY <1>0, <1>1 DEF Moves
<1>3. \A i \in 0 .. m - 1 : g[i + 1] = IF s[i].key > 0 THEN Insert(g[i], s[i]) ELSE g[i]
  <2> TAKE i \in 0 .. m - 1
  <2>1. i + 1 \in 0 .. m /\ i + 1 # 0 /\ (i + 1) - 1 = i
    BY <1>0
  <2>2. \A j \in 0 .. m : j # 0 => g[j] = IF s[j - 1].key > 0 THEN Insert(g[j - 1], s[j - 1])
                                         ELSE g[j - 1]
    BY <1>0, <1>1 DEF Moves
  <2> HIDE DEF P
  <2> QED
    BY <2>1, <2>2
<1>4. 0 \in P
  <2>1. Below(0) = {}
    BY <1>0, LiveFacts
  <2>2. Undeleted(NewSlots(n))
    BY NewTable, Size DEF Undeleted, Deleted
  <2>3. /\ NewSlots(n) \in Tables(n) /\ Sound(NewSlots(n))
        /\ Entries(NewSlots(n)) = {}
    BY NewTable
  <2> HIDE DEF Below
  <2>4. Good(0)
    BY <1>2, <2>1, <2>2, <2>3
  <2> QED
    BY <1>0, <2>4
<1>5. ASSUME NEW i \in 0 .. m - 1, i \in P
      PROVE  i + 1 \in P
  <2>0. Good(i) /\ i + 1 \in 0 .. m
    BY <1>0, <1>5
  <2> DEFINE t == g[i]
             x == s[i]
  <2>1. CASE ~ (x.key > 0)
    <3>1. i \notin Live(s)
      BY <2>1 DEF Live
    <3>2. Below(i + 1) = Below(i)
      BY <1>0, <3>1, LiveFacts
    <3>3. g[i + 1] = g[i]
      BY <1>3, <2>1
    <3> QED
      BY <2>0, <3>2, <3>3
  <2>2. CASE x.key > 0
    <3>1. i \in Live(s) /\ x \in Entry /\ x.key \in Keys /\ x.value \in Values
      BY <1>0, <2>2, LiveFacts DEF Live, Sound
    <3>2. \A y \in Entries(t) : y.key \in LiveKeys(s) /\ y.key # x.key
      <4> SUFFICES ASSUME NEW y \in Entries(t) PROVE y.key \in LiveKeys(s) /\ y.key # x.key
        OBVIOUS
      <4>1. PICK j \in Live(s) : j < i /\ y = s[j]
        BY <2>0
      <4>2. j # i
        BY <1>0, <4>1, LiveFacts
      <4> QED
        BY <3>1, <4>1, <4>2, KeyOnce DEF LiveKeys
    <3>3. LiveKeys(t) \subseteq LiveKeys(s) /\ x.key \notin LiveKeys(t) /\ x.key \in LiveKeys(s)
      BY <3>1, <3>2 DEF LiveKeys, Entries
    <3>4. Cardinality(LiveKeys(t)) < Cardinality(LiveKeys(s))
      <4>1. IsFiniteSet(LiveKeys(s)) /\ Cardinality(LiveKeys(s)) \in Nat
        BY LiveCount
      <4>2. Cardinality(LiveKeys(t)) \in Nat
        BY <2>0, LiveCount
      <4>3. /\ Cardinality(LiveKeys(t)) <= Cardinality(LiveKeys(s))
            /\ Cardinality(LiveKeys(s)) = Cardinality(LiveKeys(t)) => LiveKeys(s) = LiveKeys(t)
        BY <3>3, <4>1, FS_Subset
      <4>4. LiveKeys(s) # LiveKeys(t)
        BY <3>3
      <4> QED
        BY <4>1, <4>2, <4>3, <4>4
    <3>5. Cardinality(LiveKeys(t)) < n
      <4>1. Cardinality(LiveKeys(s)) \in Nat /\ Cardinality(LiveKeys(t)) \in Nat
        BY <2>0, LiveCount
      <4> QED
        BY <3>4, <4>1
    <3>6. g[i + 1] = Insert(t, x)
      BY <1>3, <2>2
    <3>7. /\ Insert(t, x) \in Tables(n) /\ Sound(Insert(t, x)) /\ Undeleted(Insert(t, x))
          /\ Entries(Insert(t, x)) = Entries(t) \union {x}
      BY <2>0, <3>1, <3>3, <3>5, InsertKeeps
    <3>8. Below(i + 1) = Below(i) \union {x}
      <4>1. \A j \in Live(s) : j < i + 1 <=> (j < i \/ j = i)
        BY <1>0, LiveFacts
      <4> QED
        BY <3>1, <4>1
    <3> QED
      BY <2>0, <3>6, <3>7, <3>8
  <2> QED
    BY <2>1, <2>2
<1>6. m \in P
  <2>1. 0 .. m \subseteq P
    BY <1>0, <1>4, <1>5, UpTo
  <2>2. m \in 0 .. m
    BY <1>0
  <2> HIDE DEF P
  <2> QED
    BY <2>1, <2>2
<1>7. Below(m) = Entries(s)
  <2>1. \A j \in Live(s) : j < m
    BY <1>0, LiveFacts
  <2> QED
    BY <2>1 DEF Entries
<1> QED
  BY <1>1, <1>6, <1>7

-----------------------------------------------------------------------------
(* The operations *)

\* A new table has a slot for each live entry: Padding is over 100 percent.
LEMMA NewSizeRoom ==
  ASSUME alen \in Nat
  PROVE  NewSize \in Nat \ {0} /\ alen <= NewSize
<1> DEFINE q == (alen * Padding) \div 100
<1>1. Padding - 100 \in Nat /\ Padding \in Nat /\ AInit \in Nat \ {0}
  BY KeysFacts
<1>2. alen * Padding = alen * 100 + alen * (Padding - 100)
  BY <1>1
<1>3. alen * (Padding - 100) \in Nat
  BY <1>1
<1>4. alen * Padding \in Nat /\ alen * Padding >= alen * 100
  BY <1>2, <1>3
<1> DEFINE a == alen * Padding
<1> HIDE DEF a
<1>5. a \in Int /\ 100 \in Nat \ {0}
  BY <1>4 DEF a
<1>6. a \div 100 \in Int /\ a = 100 * (a \div 100) + (a % 100) /\ a % 100 \in 0 .. 100 - 1
  BY <1>5, DivMod, ModRange
<1>7. q \in Nat /\ q >= alen
  BY <1>4, <1>6 DEF a
<1> HIDE DEF q
<1>8. {q, AInit} \subseteq 0 .. q + AInit /\ q + AInit \in Nat /\ {q, AInit} # {}
  BY <1>1, <1>7
<1>9. Max({q, AInit}) \in {q, AInit} /\ \A j \in {q, AInit} : j <= Max({q, AInit})
  BY <1>8, MaxFacts
<1>10. NewSize = Max({q, AInit})
  BY DEF NewSize, q
<1> QED
  BY <1>1, <1>7, <1>9, <1>10

\* A new table, or a larger one with the same entries, when there is none or no
\* room for more.
LEMMA Prepared ==
  ASSUME TypeInv, CountInv, NEW s,
         \/ ~ has_attrs /\ s = NewSlots(AInit)
         \/ has_attrs /\ s = Rehash(slots, NewSize)
         \/ has_attrs /\ s = slots
  PROVE  (\E n \in Nat \ {0} : s \in Tables(n)) /\ Sound(s) /\ Entries(s) = Entries(slots)
<1>1. CASE ~ has_attrs /\ s = NewSlots(AInit)
  <2>1. Entries(slots) = {}
    BY <1>1 DEF TypeInv, Typed, Entries, Live
  <2>2. AInit \in Nat \ {0}
    BY KeysFacts
  <2> QED
    BY <1>1, <2>1, <2>2, NewTable
<1>2. CASE has_attrs /\ s = Rehash(slots, NewSize)
  <2>1. Sound(slots)
    BY <1>2 DEF TypeInv, Typed
  <2>2. PICK m \in Nat \ {0} : slots \in Tables(m)
    BY <2>1 DEF Sound
  <2>3. alen \in Nat /\ alen = Cardinality(LiveKeys(slots))
    BY <2>1, <2>2, LiveCount DEF CountInv
  <2>4. NewSize \in Nat \ {0} /\ Cardinality(LiveKeys(slots)) <= NewSize
    BY <2>3, NewSizeRoom
  <2> QED
    BY <1>2, <2>1, <2>2, <2>4, RehashKeeps
<1>3. CASE has_attrs /\ s = slots
  BY <1>3 DEF TypeInv, Typed, Sound
<1> QED
  BY <1>1, <1>2, <1>3

LEMMA NoScan ==
  ASSUME Unlocked, cursor' = cursor
  PROVE  ScanInv'
BY DEF Unlocked, ScanInv

\* A set or a deletion of one key, and the map that the table stands for.
Attrs == AttrsOf(has_attrs, slots)

LEMMA LoopStep ==
  ASSUME TableInv, NEW k, Unlocked, Loop(k)
  PROVE  TableInv' /\ Attrs' = Attrs
<1>1. UNCHANGED <<has_attrs, slots, alen, cursor, seen>> /\ looping' = TRUE
  BY DEF Loop, table
<1> QED
  BY <1>1, NoScan DEF TableInv, TypeInv, CountInv, Attrs

LEMMA DelAttrStep ==
  ASSUME TableInv, NEW k \in Keys, DelAttr(k)
  PROVE  TableInv' /\ (Attrs' = Attrs \/ (Attrs[k] # NoValue /\ Attrs' = [Attrs EXCEPT ![k] = NoValue]))
<1>1. Unlocked /\ has_attrs
  BY DEF DelAttr
<1>2. CASE Loop(k)
  BY <1>1, <1>2, LoopStep
<1>3. CASE ~ Loop(k)
  <2> DEFINE x == [EmptySlot EXCEPT !.key = Deleted]
             p == StopAt(slots, k)
  <2>1. /\ Has(slots, k) /\ slots' = [slots EXCEPT ![p] = x] /\ alen' = alen - 1
        /\ UNCHANGED <<has_attrs, looping, cursor, seen>>
    BY <1>3 DEF DelAttr
  <2>2. Sound(slots) /\ Typed(has_attrs, slots)
    BY <1>1 DEF TableInv, TypeInv, Typed
  <2>3. PICK n \in Nat \ {0} : slots \in Tables(n)
    BY <2>2 DEF Sound
  <2>4. p \in Live(slots) /\ slots[p].key = k
    BY <2>1, <2>3, HasFacts
  <2>5. x \in Entry /\ x.key = Deleted /\ ~ (x.key > 0)
    BY DEF Entry, EmptySlot, Deleted
  <2>6. Changed(slots, slots', p, x)
    BY <2>1 DEF Changed
  <2> HIDE DEF x, p
  <2>7. /\ slots' \in Tables(n) /\ Sound(slots')
        /\ Entries(slots') = Without(slots, slots[p].key) \union (IF x.key > 0 THEN {x} ELSE {})
    BY <2>2, <2>3, <2>4, <2>5, <2>6, Replace
  <2>8. Entries(slots') = Without(slots, k)
    BY <2>4, <2>5, <2>7
  <2>9. Typed(has_attrs', slots')
    BY <1>1, <2>1, <2>2, <2>7 DEF Typed
  <2>10. /\ AttrsOf(has_attrs', slots') = [AttrsOf(has_attrs, slots) EXCEPT ![k] = NoValue]
         /\ LiveKeys(slots') = LiveKeys(slots) \ {k}
    BY <2>2, <2>8, <2>9, EntriesDrop
  <2>11. CountInv'
    <3>1. IsFiniteSet(LiveKeys(slots)) /\ k \in LiveKeys(slots)
      BY <2>2, <2>3, <2>4, LiveCount DEF LiveKeys
    <3>2. Cardinality(LiveKeys(slots) \ {k}) = Cardinality(LiveKeys(slots)) - 1
      BY <3>1, FS_RemoveElement
    <3> QED
      BY <2>1, <2>10, <3>2 DEF CountInv, TableInv
  <2>12. AttrsOf(has_attrs, slots)[k] # NoValue
    <3>1. slots[p] \in Entries(slots)
      BY <2>4 DEF Entries
    <3> QED
      BY <2>2, <2>4, <3>1, EntryFacts, KeysFacts
  <2> QED
    BY <1>1, <2>1, <2>9, <2>10, <2>11, <2>12, NoScan DEF TableInv, TypeInv, Attrs
<1> QED
  BY <1>2, <1>3

LEMMA SetAttrStep ==
  ASSUME TableInv, NEW k \in Keys, NEW v \in Values, SetAttr(k, v)
  PROVE  TableInv' /\ (Attrs' = Attrs \/ Attrs' = [Attrs EXCEPT ![k] = v])
<1> DEFINE s == IF ~has_attrs THEN NewSlots(AInit)
                ELSE IF IsFull THEN Rehash(slots, NewSize) ELSE slots
           x == [key |-> k, value |-> v]
<1>0. Unlocked
  BY DEF SetAttr
<1>1. CASE Loop(k)
  BY <1>0, <1>1, LoopStep
<1>2. CASE ~ Loop(k)
  <2>1. /\ Ends(s, k) /\ slots' = [s EXCEPT ![PlaceFor(s, k)] = x]
        /\ alen' = IF Has(s, k) THEN alen ELSE alen + 1
        /\ has_attrs' = TRUE /\ UNCHANGED <<looping, cursor, seen>>
    BY <1>2 DEF SetAttr
  <2>2. \/ ~ has_attrs /\ s = NewSlots(AInit)
        \/ has_attrs /\ s = Rehash(slots, NewSize)
        \/ has_attrs /\ s = slots
    BY DEF TableInv, TypeInv, Typed
  <2> HIDE DEF s
  <2>3. (\E n \in Nat \ {0} : s \in Tables(n)) /\ Sound(s) /\ Entries(s) = Entries(slots)
    BY <2>2, Prepared DEF TableInv
  <2>4. PICK n \in Nat \ {0} : s \in Tables(n)
    BY <2>3
  <2>5. slots' \in Tables(n) /\ Sound(slots') /\ Entries(slots') = Without(s, k) \union {x}
    <3>1. Ends(s, k) /\ Changed(s, slots', PlaceFor(s, k), x)
      BY <2>1 DEF Changed
    <3> QED
      BY <2>3, <2>4, <3>1, Put
  <2>6. Without(s, k) = Without(slots, k)
    BY <2>3 DEF Without
  <2>7. Typed(has_attrs', slots') /\ Typed(has_attrs, slots) /\ Typed(TRUE, s)
    BY <2>1, <2>3, <2>5 DEF Typed, TableInv, TypeInv
  <2>8. /\ AttrsOf(has_attrs', slots') = [AttrsOf(has_attrs, slots) EXCEPT ![k] = v]
        /\ LiveKeys(slots') = LiveKeys(slots) \union {k}
    BY <2>5, <2>6, <2>7, EntriesPut
  <2>9. LiveKeys(s) = LiveKeys(slots)
    BY <2>3, <2>7, EntriesSame
  <2>10. CountInv'
    <3>1. IsFiniteSet(LiveKeys(slots)) /\ (Has(s, k) <=> k \in LiveKeys(slots))
      BY <2>3, <2>4, <2>9, LiveCount, HasIsLive
    <3>2. Cardinality(LiveKeys(slots) \union {k}) =
            IF k \in LiveKeys(slots) THEN Cardinality(LiveKeys(slots))
            ELSE Cardinality(LiveKeys(slots)) + 1
      BY <3>1, FS_AddElement
    <3> QED
      BY <2>1, <2>8, <3>1, <3>2 DEF CountInv, TableInv
  <2> QED
    BY <1>0, <2>1, <2>7, <2>8, <2>10, NoScan DEF TableInv, TypeInv, Attrs
<1> QED
  BY <1>1, <1>2

LEMMA ClearStep ==
  ASSUME TableInv, ClearAttrs
  PROVE  TableInv' /\ Attrs' = [k \in Keys |-> NoValue]
<1> DEFINE n == IF has_attrs THEN Asize(slots) ELSE AInit
<1>1. /\ Unlocked /\ slots' = NewSlots(n) /\ alen' = 0 /\ has_attrs' = TRUE
      /\ UNCHANGED <<looping, cursor, seen>>
  BY DEF ClearAttrs
<1>2. n \in Nat \ {0}
  <2>1. CASE has_attrs
    <3>1. PICK m \in Nat \ {0} : slots \in Tables(m)
      BY <2>1 DEF TableInv, TypeInv, Typed, Sound
    <3> QED
      BY <2>1, <3>1, Size
  <2>2. CASE ~ has_attrs
    BY <2>2, KeysFacts
  <2> QED
    BY <2>1, <2>2
<1> HIDE DEF n
<1>3. Sound(slots') /\ Entries(slots') = {} /\ Live(slots') = {}
  BY <1>1, <1>2, NewTable
<1>4. Typed(has_attrs', slots')
  BY <1>1, <1>3 DEF Typed
<1>5. \A k \in Keys : AttrsOf(has_attrs', slots')[k] = NoValue
  BY <1>3, <1>4, NoEntry
<1>6. LiveKeys(slots') = {}
  BY <1>3 DEF LiveKeys
<1>7. CountInv'
  BY <1>1, <1>6, FS_EmptySet DEF CountInv
<1> QED
  BY <1>1, <1>4, <1>5, <1>7, NoScan DEF TableInv, TypeInv, Attrs, AttrsOf

LEMMA AddProtoStep ==
  ASSUME TableInv, NEW room \in BOOLEAN, AddProto(room)
  PROVE  TableInv' /\ Attrs' = Attrs
<1>1. Unlocked /\ has_attrs' = TRUE /\ UNCHANGED <<alen, looping, cursor, seen>>
  BY DEF AddProto
<1>2. \/ ~ has_attrs /\ slots' = NewSlots(AInit)
      \/ has_attrs /\ slots' = Rehash(slots, NewSize)
      \/ has_attrs /\ slots' = slots
  BY DEF AddProto, TableInv, TypeInv, Typed
<1>3. Sound(slots') /\ Entries(slots') = Entries(slots)
  BY <1>2, Prepared DEF TableInv
<1>4. Typed(has_attrs', slots') /\ Typed(has_attrs, slots)
  BY <1>1, <1>3 DEF Typed, TableInv, TypeInv
<1>5. AttrsOf(has_attrs', slots') = AttrsOf(has_attrs, slots) /\ LiveKeys(slots') = LiveKeys(slots)
  BY <1>3, <1>4, EntriesSame
<1> QED
  BY <1>1, <1>4, <1>5, NoScan DEF TableInv, TypeInv, CountInv, Attrs

-----------------------------------------------------------------------------
(* Scans *)

LEMMA ScanFirstStep ==
  ASSUME TableInv, ScanFirst
  PROVE  TableInv' /\ Attrs' = Attrs /\ cursor = 0
<1>1. /\ Unlocked /\ has_attrs /\ cursor' = FirstKey(slots) /\ seen' = {}
      /\ UNCHANGED <<has_attrs, slots, alen, looping>>
  BY DEF ScanFirst, table
<1>2. PICK n \in Nat \ {0} : slots \in Tables(n)
  BY <1>1 DEF TableInv, TypeInv, Typed, Sound
<1>3. CASE Live(slots) = {}
  <2>1. cursor' = 0
    BY <1>1, <1>3 DEF FirstKey
  <2> QED
    BY <1>1, <2>1 DEF TableInv, TypeInv, CountInv, ScanInv, Attrs, Unlocked
<1>4. CASE Live(slots) # {}
  <2> DEFINE i == Min(Live(slots))
  <2>1. Live(slots) \in SUBSET Nat
    BY <1>2, LiveFacts
  <2>2. i \in Live(slots) /\ \A j \in Live(slots) : i <= j
    BY <1>4, <2>1, MinFacts
  <2>3. cursor' = slots[i].key /\ slots[i].key \in Keys
    BY <1>1, <1>2, <1>4, <2>2, LiveFacts DEF FirstKey
  <2> HIDE DEF i
  <2>4. {j \in Live(slots) : j < i} = {}
    BY <2>1, <2>2
  <2>5. ScanInv'
    BY <1>1, <2>2, <2>3, <2>4 DEF ScanInv
  <2> QED
    BY <1>1, <2>3, <2>5 DEF TableInv, TypeInv, CountInv, Attrs, Unlocked
<1> QED
  BY <1>3, <1>4

LEMMA ScanNextStep ==
  ASSUME TableInv, ScanNext
  PROVE  TableInv' /\ Attrs' = Attrs /\ (cursor' = 0 => seen' = LiveKeys(slots))
<1>1. /\ cursor # 0 /\ cursor' = NextKey(slots, cursor) /\ seen' = seen \union {cursor}
      /\ UNCHANGED <<has_attrs, slots, alen, looping>>
  BY DEF ScanNext, table
<1> DEFINE Keys1(S) == {slots[j].key : j \in S}
<1>2. PICK i \in Live(slots) :
        /\ has_attrs /\ slots[i].key = cursor
        /\ seen = Keys1({j \in Live(slots) : j < i}) \/ seen = LiveKeys(slots)
  BY <1>1 DEF TableInv, ScanInv
<1>3. Sound(slots)
  BY <1>2 DEF TableInv, TypeInv, Typed
<1>4. PICK n \in Nat \ {0} : slots \in Tables(n)
  BY <1>3 DEF Sound
<1>5. i \in 0 .. n - 1 /\ StopAt(slots, cursor) = i /\ Asize(slots) = n
  BY <1>2, <1>3, <1>4, LiveFound, Size
<1> DEFINE at == (i + 1) % n
           rest == {j \in Live(slots) : j >= at}
<1>6. at = IF i = n - 1 THEN 0 ELSE i + 1
  BY <1>5, Behind
<1>7. cursor' = IF rest = {} THEN 0 ELSE slots[Min(rest)].key
  BY <1>1, <1>5 DEF NextKey
<1> HIDE DEF at
<1>8. \A j \in Live(slots) : j \in 0 .. n - 1 /\ j \in Nat /\ slots[j].key \in Keys
  BY <1>4, LiveFacts
<1>9. seen' = Keys1({j \in Live(slots) : j <= i}) \/ seen' = LiveKeys(slots)
  <2>1. CASE seen = LiveKeys(slots)
    BY <1>1, <1>2, <2>1 DEF LiveKeys
  <2>2. CASE seen = Keys1({j \in Live(slots) : j < i})
    <3>1. \A j \in Live(slots) : j <= i <=> (j < i \/ j = i)
      BY <1>5, <1>8
    <3> QED
      BY <1>1, <1>2, <2>2, <3>1
  <2> QED
    BY <1>2, <2>1, <2>2
<1>10. CASE rest = {}
  <2>1. i # n - 1 /\ \A j \in Live(slots) : j <= i
    <3>1. \A j \in Live(slots) : ~ (j >= at)
      BY <1>10
    <3>2. i # n - 1
      BY <1>2, <1>5, <1>6, <1>8, <3>1
    <3>3. at = i + 1
      BY <1>6, <3>2
    <3> QED
      BY <1>5, <1>8, <3>1, <3>2, <3>3
  <2>2. seen' = LiveKeys(slots)
    BY <1>9, <2>1 DEF LiveKeys
  <2>3. cursor' = 0
    BY <1>7, <1>10
  <2> QED
    BY <1>1, <2>2, <2>3 DEF TableInv, TypeInv, CountInv, ScanInv, Attrs
<1>11. CASE rest # {}
  <2> DEFINE m == Min(rest)
  <2>1. rest \in SUBSET Nat
    BY <1>8
  <2>2. m \in rest /\ \A j \in rest : m <= j
    BY <1>11, <2>1, MinFacts
  <2>3. m \in Live(slots) /\ cursor' = slots[m].key /\ cursor' \in Keys /\ cursor' # 0
    BY <1>7, <1>8, <1>11, <2>2, KeyNumbers
  <2> HIDE DEF m
  <2>4. seen' = Keys1({j \in Live(slots) : j < m}) \/ seen' = LiveKeys(slots)
    <3>1. CASE i = n - 1
      <4>1. \A j \in Live(slots) : j <= i
        BY <1>5, <1>8, <3>1
      <4> QED
        BY <1>9, <4>1 DEF LiveKeys
    <3>2. CASE i # n - 1
      <4>1. \A j \in Live(slots) : j <= i <=> j < m
        BY <1>5, <1>6, <1>8, <2>2, <3>2
      <4> QED
        BY <1>9, <4>1
    <3> QED
      BY <3>1, <3>2
  <2>5. ScanInv'
    BY <1>1, <1>2, <2>3, <2>4 DEF ScanInv, LiveKeys, Live
  <2> QED
    BY <1>1, <2>3, <2>5 DEF TableInv, TypeInv, CountInv, Attrs
<1> QED
  BY <1>10, <1>11

-----------------------------------------------------------------------------
(* The theorems *)

LEMMA InitTableInv ==
  ASSUME Init
  PROVE  TableInv /\ \A k \in Keys : Attrs[k] = NoValue
<1>1. Live(<<>>) = {} /\ LiveKeys(<<>>) = {} /\ Cardinality({}) = 0
  BY FS_EmptySet DEF Live, LiveKeys
<1> QED
  BY <1>1 DEF Init, TableInv, TypeInv, Typed, CountInv, ScanInv, Attrs, AttrsOf

LEMMA TableStep ==
  ASSUME TableInv, [Next]_vars
  PROVE  /\ TableInv'
         /\ \/ Attrs' = Attrs \/ Attrs' = [k \in Keys |-> NoValue]
            \/ \E k \in Keys : Attrs[k] # NoValue /\ Attrs' = [Attrs EXCEPT ![k] = NoValue]
            \/ \E k \in Keys, v \in Values : Attrs' = [Attrs EXCEPT ![k] = v]
         /\ cursor # 0 /\ cursor' = 0 => seen' = LiveKeys(slots)
<1>1. ASSUME Unlocked, cursor' = cursor \/ UNCHANGED vars
      PROVE  ~ (cursor # 0 /\ cursor' = 0)
  BY <1>1 DEF Unlocked, vars
<1>2. ASSUME NEW k \in Keys, GetAttr(k)
      PROVE  TableInv' /\ Attrs' = Attrs /\ cursor = 0
  BY <1>2, LoopStep DEF GetAttr, Unlocked
<1>3. ASSUME NEW k \in Keys, DelAttr(k)
      PROVE  cursor = 0
  BY <1>3 DEF DelAttr, Unlocked
<1>4. ASSUME NEW k \in Keys, NEW v \in Values, SetAttr(k, v)
      PROVE  cursor = 0
  BY <1>4 DEF SetAttr, Unlocked
<1>5. (ClearAttrs \/ \E room \in BOOLEAN : AddProto(room)) => cursor = 0
  BY DEF ClearAttrs, AddProto, Unlocked
<1>6. CASE UNCHANGED vars
  BY <1>6 DEF vars, table, TableInv, TypeInv, CountInv, ScanInv, Attrs
<1> QED
  BY <1>2, <1>3, <1>4, <1>5, <1>6, DelAttrStep, SetAttrStep, ClearStep, AddProtoStep,
     ScanFirstStep, ScanNextStep DEF Next

\* Every live entry is where the probe for its key stops, attr_alen is the number of
\* keys, and a scan has returned the keys in front of its place or all of them.
THEOREM TableSound == Spec => []TableInv
BY InitTableInv, TableStep, PTL DEF Spec

\* attr_alen is the number of live entries, and no key has two.
THEOREM LengthExact == Spec => []LenIsLive
<1>1. ASSUME TableInv
      PROVE  LenIsLive
  <2>1. CASE has_attrs
    <3>1. Sound(slots)
      BY <1>1, <2>1 DEF TableInv, TypeInv, Typed
    <3>2. PICK n \in Nat \ {0} : slots \in Tables(n)
      BY <3>1 DEF Sound
    <3>3. Cardinality(Live(slots)) = Cardinality(LiveKeys(slots))
      BY <3>1, <3>2, LiveCount
    <3> QED
      BY <1>1, <3>1, <3>2, <3>3, KeyOnce DEF LenIsLive, TableInv, CountInv
  <2>2. CASE ~ has_attrs
    <3>1. Live(slots) = {} /\ LiveKeys(slots) = {}
      BY <1>1, <2>2 DEF TableInv, TypeInv, Typed, Live, LiveKeys
    <3> QED
      BY <1>1, <3>1 DEF LenIsLive, TableInv, CountInv
  <2> QED
    BY <2>1, <2>2
<1> QED
  BY <1>1, TableSound, PTL

\* A scan that ends has returned every attribute, even one that goes round.
THEOREM ScansComplete == Spec => ScanVisitsAll
<1>1. ASSUME TableInv, [Next]_vars
      PROVE  [cursor # 0 /\ cursor' = 0 => seen' = {slots[i].key : i \in Live(slots)}]_vars
  BY <1>1, TableStep DEF LiveKeys
<1> QED
  BY <1>1, TableSound, PTL DEF Spec, ScanVisitsAll

\* The table is a map: each operation reads or changes its own key, or clears it,
\* and no deletion, reuse of a slot or reallocation shows.
THEOREM TableIsMap == Spec => ImplementsMap
<1>1. Init => Abstract!Init
  BY InitTableInv DEF Abstract!Init, Attrs, AttrsOf
<1>2. ASSUME TableInv, [Next]_vars
      PROVE  [Abstract!Next]_([k \in Keys |-> IF has_attrs /\ Has(slots, k)
                                              THEN slots[StopAt(slots, k)].value ELSE NoValue])
  BY <1>2, TableStep DEF Abstract!Next, Abstract!Clear, Abstract!Delete, Abstract!Set, Attrs, AttrsOf
<1> QED
  BY <1>1, <1>2, TableSound, PTL DEF Spec, ImplementsMap, Abstract!Spec
=============================================================================
