----------------------------- MODULE AttrTable -----------------------------
(***************************************************************************)
(* The attribute table of one object (object.c): open addressing with      *)
(* linear probing, deleted entries that stay behind as marks, and a        *)
(* reallocation that is due when the live entries fill two thirds of it.   *)
(*                                                                         *)
(* Each operation runs under the object's lock and is one step.  A probe   *)
(* that meets neither its key nor a never used slot goes round for ever,   *)
(* with the lock: `looping`.                                               *)
(***************************************************************************)
EXTENDS Integers, FiniteSets, FiniteSetsExt

CONSTANTS
  Keys,       \* the keys of symbols: positive multiples of 3
  Values, NoValue,
  AInit,      \* ATTRS_AINIT, slots of a new table
  MaxFull,    \* ATTRS_MAX_PERCENT_FULL
  Padding     \* ATTRS_PAD_PERCENT_FACTOR

ASSUME TableAssumption ==
  /\ Keys \subseteq {k \in Nat \ {0} : k % 3 = 0} /\ IsFiniteSet(Keys)
  /\ NoValue \notin Values
  /\ {AInit, MaxFull} \subseteq Nat \ {0}
  /\ MaxFull < 100 /\ Padding \in Nat /\ Padding > 100

VARIABLES
  has_attrs,  \* the object has a table
  slots,      \* slots[i]: key and value of entry i
  alen,       \* attr_alen: entries in use
  looping,    \* a probe that will not end
  cursor,     \* the key a scan is at (attr_first_key, attr_next_key), or 0
  seen        \* the keys that scan has returned before

table == <<has_attrs, slots, alen>>
vars == <<table, looping, cursor, seen>>

Deleted == -1   \* ENTRY_DELETED
EmptySlot == [key |-> 0, value |-> NoValue]
NewSlots(n) == [i \in 0 .. n - 1 |-> EmptySlot]
Asize(s) == Cardinality(DOMAIN s)
Live(s) == {i \in DOMAIN s : s[i].key > 0}

Init ==
  /\ has_attrs = FALSE /\ slots = <<>> /\ alen = 0
  /\ looping = FALSE /\ cursor = 0 /\ seen = {}

-----------------------------------------------------------------------------
(* Probing *)

\* Distances at which the probe for k stops: k itself, or a slot never used.
Stops(s, k) == LET n == Asize(s) IN {d \in 0 .. n - 1 : s[(k + d) % n].key \in {k, 0}}
Ends(s, k) == Stops(s, k) # {}
StopAt(s, k) == (k + Min(Stops(s, k))) % Asize(s)
Has(s, k) == LET d == Stops(s, k) IN d # {} /\ s[(k + Min(d)) % Asize(s)].key = k

\* Where set_attr stores k: at k, at the last deleted entry the probe passed,
\* or at the slot where it stopped.
Holes(s, k) ==
  LET n == Asize(s) IN {d \in 0 .. Min(Stops(s, k)) : s[(k + d) % n].key = Deleted}

\* Mutant: the probe of set_attr stops at the first deleted entry.
PlaceForEarly(s, k) ==
  IF Holes(s, k) = {} THEN StopAt(s, k) ELSE (k + Min(Holes(s, k))) % Asize(s)

PlaceFor(s, k) ==
  IF Has(s, k) \/ Holes(s, k) = {} THEN StopAt(s, k)
  ELSE (k + Max(Holes(s, k))) % Asize(s)

\* attrs_realloc: the live entries move, in slot order, to a new table.
Insert(s, e) == [s EXCEPT ![StopAt(s, e.key)] = e]
Rehash(s, n) ==
  LET moved[i \in 0 .. Asize(s)] ==
        IF i = 0 THEN NewSlots(n)
        ELSE IF s[i - 1].key > 0 THEN Insert(moved[i - 1], s[i - 1])
        ELSE moved[i - 1]
  IN  moved[Asize(s)]

NewSize == Max({(alen * Padding) \div 100, AInit})
IsFull == (alen * 100) \div Asize(slots) > MaxFull

\* Every operation waits for the lock, which a scan or a looping probe holds.
Unlocked == ~looping /\ cursor = 0

Loop(k) == /\ ~Ends(slots, k)
           /\ looping' = TRUE
           /\ UNCHANGED <<table, cursor, seen>>

-----------------------------------------------------------------------------
(* Operations *)

\* get_attr, attr_value_by_key: nothing changes when the probe ends.
GetAttr(k) == Unlocked /\ has_attrs /\ Loop(k)

\* Mutant: the entry is freed instead of marked.
DelAttrFrees(k) ==
  /\ Unlocked /\ has_attrs
  /\ \/ Loop(k)
     \/ /\ Has(slots, k)
        /\ slots' = [slots EXCEPT ![StopAt(slots, k)] = EmptySlot]
        /\ alen' = alen - 1
        /\ UNCHANGED <<has_attrs, looping, cursor, seen>>

DelAttr(k) ==
  /\ Unlocked /\ has_attrs
  /\ \/ Loop(k)
     \/ /\ Has(slots, k)
        /\ slots' = [slots EXCEPT ![StopAt(slots, k)] = [EmptySlot EXCEPT !.key = Deleted]]
        /\ alen' = alen - 1
        /\ UNCHANGED <<has_attrs, looping, cursor, seen>>

\* add_attrs or attrs_realloc first, where due; then the probe and the store.
SetAttr(k, v) ==
  LET s == IF ~has_attrs THEN NewSlots(AInit)
           ELSE IF IsFull THEN Rehash(slots, NewSize) ELSE slots
  IN
  /\ Unlocked
  /\ \/ s = slots /\ Loop(k)
     \/ /\ Ends(s, k)
        /\ slots' = [s EXCEPT ![PlaceFor(s, k)] = [key |-> k, value |-> v]]
        /\ alen' = IF Has(s, k) THEN alen ELSE alen + 1
        /\ has_attrs' = TRUE
        /\ UNCHANGED <<looping, cursor, seen>>

\* clear! of an attribute dictionary, and dict2attrs before it sets the
\* attributes of its dictionary one by one.
ClearAttrs ==
  /\ Unlocked
  /\ slots' = NewSlots(IF has_attrs THEN Asize(slots) ELSE AInit)
  /\ alen' = 0
  /\ has_attrs' = TRUE
  /\ UNCHANGED <<looping, cursor, seen>>

\* add_proto of a new prototype makes the table, and moves it when there is no
\* room for the prototype (attr_plen = attr_psize); del_proto and switch_proto
\* leave it alone.
AddProto(room) ==
  /\ Unlocked
  /\ has_attrs' = TRUE
  /\ slots' = IF ~has_attrs THEN NewSlots(AInit)
              ELSE IF room THEN slots ELSE Rehash(slots, NewSize)
  /\ UNCHANGED <<alen, looping, cursor, seen>>

-----------------------------------------------------------------------------
(* Scans: the object is read-locked from the first key to the last *)

\* Mutant: the scan starts behind the first slot.
FirstKeyLate(s) == LET l == Live(s) \ {0} IN IF l = {} THEN 0 ELSE s[Min(l)].key

FirstKey(s) == IF Live(s) = {} THEN 0 ELSE s[Min(Live(s))].key

\* From the slot behind k to the end of the table: behind the last slot comes
\* the first, (i + 1) % asize.
NextKey(s, k) ==
  LET rest == {i \in Live(s) : i >= (StopAt(s, k) + 1) % Asize(s)}
  IN  IF rest = {} THEN 0 ELSE s[Min(rest)].key

ScanFirst ==
  /\ Unlocked /\ has_attrs
  /\ cursor' = FirstKey(slots)
  /\ seen' = {}
  /\ UNCHANGED <<table, looping>>

ScanNext ==
  /\ cursor # 0
  /\ cursor' = NextKey(slots, cursor)
  /\ seen' = seen \union {cursor}
  /\ UNCHANGED <<table, looping>>

Next ==
  \/ \E k \in Keys : GetAttr(k) \/ DelAttr(k) \/ \E v \in Values : SetAttr(k, v)
  \/ ClearAttrs \/ \E room \in BOOLEAN : AddProto(room)
  \/ ScanFirst \/ ScanNext

Spec == Init /\ [][Next]_vars

-----------------------------------------------------------------------------
(* Properties *)

\* attr_alen counts the attributes: no key is in the table twice, whatever
\* deleted entries set_attr went past and reused (len of attrs_ returns it).
LenIsLive ==
  /\ alen = Cardinality(Live(slots))
  /\ \A i, j \in Live(slots) : slots[i].key = slots[j].key => i = j

\* get_attr finds what set_attr stored last: no deletion, reuse of a deleted
\* entry or reallocation hides or revives another key.
Abstract == INSTANCE AttrMap WITH
  attrs <- [k \in Keys |-> IF has_attrs /\ Has(slots, k)
                           THEN slots[StopAt(slots, k)].value ELSE NoValue]
ImplementsMap == Abstract!Spec

\* A scan that ends has returned every attribute.
ScanVisitsAll == [][cursor # 0 /\ cursor' = 0 =>
                    seen' = {slots[i].key : i \in Live(slots)}]_vars

\* GET_ATTR: "If no attr is found with a matching key, then NULL is returned."
GetReturns == ~looping
=============================================================================
