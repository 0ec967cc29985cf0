------------------------------ MODULE MCLists -------------------------------
(***************************************************************************)
(* Lists, strings and bytes that are short, against sequences.             *)
(***************************************************************************)
EXTENDS Strings

Bound == {None, -5, -4, -2, -1, 0, 1, 2, 3, 4}
\* Slices count positions: they are tried on lists whose items tell them apart.
MCSlices(s) ==
  IF s \notin {<<>>, <<1>>, <<1, 2>>, <<1, 2, 3>>, <<1, 2, 3, 1>>} THEN {}
  ELSE {<<i>> : i \in Bound} \cup {<<i, j>> : i, j \in Bound}
       \cup {<<i, j, d>> : i, j \in Bound, d \in {None, -3, -2, -1, 0, 1, 2}}
MCIndices == -1..5
MCTimes == -2..3
MCValues == {NEW_LIST(0), List(<<3>>, 2), List(<<2, 2>>, 2), List(<<1, 2, 3>>, 4)}

-----------------------------------------------------------------------------
(* What the methods mean.  *)

\* The positions a slice names, in its order.
Meant(sl, n) ==
  LET d == StepOf(sl)
      a == First(sl, n)
      z == Limit(sl, n)
      In == {k \in 0..(n - 1) : IF d > 0 THEN k >= a /\ k < z /\ (k - a) % d = 0
                                ELSE k <= a /\ k > z /\ (a - k) % (-d) = 0}
  IN SetToSortSeq(In, LAMBDA x, y : IF d > 0 THEN x < y ELSE x > y)
Illegal(sl, n) == OutOfRange(sl, n) \/ StepIsZero(sl) \/ sl = <<None>>
Keeps(s, P(_)) == LET kept == SetToSortSeq({k \in DOMAIN s : P(k)}, <)
                  IN [k \in DOMAIN kept |-> s[kept[k]]]

\* [items after the call, items or value returned], or Fails.
Gives(after, ret) == [items |-> after, ret |-> ret]
Fails == Gives(Garbage, Garbage)
Meaning(op, args, s) ==
  LET n == Len(s)
      o == IF Len(args) = 1 /\ op \in {"add", "iadd", "extend", "cmp", "eq"}
           THEN IF args[1] = None THEN s
                ELSE IF args[1] = NotASequence THEN <<>> ELSE args[1].items
           ELSE <<>>
      Changed(t) == Gives(t, t)
      Reads(v) == Gives(s, v)
      sl == args[1]
  IN CASE op = "getItem" ->
            IF Illegal(sl, n) THEN Fails
            ELSE IF Len(sl) = 1 THEN Reads(s[First(sl, n) + 1])
            ELSE Reads([k \in DOMAIN Meant(sl, n) |-> s[Meant(sl, n)[k] + 1]])
       [] op = "setItem" ->
            IF Illegal(sl, n) \/ args[2] = NotASequence THEN Fails
            ELSE IF Len(sl) = 1 THEN Gives([s EXCEPT ![First(sl, n) + 1] = args[2]], args[2])
            ELSE LET v == IF args[2] = None THEN s ELSE args[2].items
                     m == Meant(sl, n)
                     z == Max({First(sl, n), Limit(sl, n)})
                 IN IF Len(sl) = 2
                    THEN Gives(SubSeq(s, 1, First(sl, n)) \o v \o SubSeq(s, z + 1, n), None)
                    ELSE IF Len(v) # Len(m) THEN Fails
                    ELSE Gives([k \in 1..n |-> IF \E j \in DOMAIN m : m[j] = k - 1
                                               THEN v[CHOOSE j \in DOMAIN m : m[j] = k - 1]
                                               ELSE s[k]], None)
       [] op = "delItem" ->
            IF Illegal(sl, n) THEN Fails
            ELSE LET gone == IF Len(sl) = 1 THEN {First(sl, n)} ELSE Range(Meant(sl, n))
                 IN Gives(Keeps(s, LAMBDA k : k - 1 \notin gone), None)
       [] op \in {"add", "iadd"} -> Changed(s \o o)
       [] op = "extend" -> IF args[1] = NotASequence THEN Fails ELSE Changed(s \o o)
       [] op \in {"mul", "imul"} ->
            Changed(FlattenSeq([k \in 1..Max({args[1], 0}) |-> s]))
       [] op = "append" -> Changed(Append(s, args[1]))
       [] op = "insert" -> IF args[1] \in 0..n
                           THEN Changed(SubSeq(s, 1, args[1]) \o <<args[2]>>
                                        \o SubSeq(s, args[1] + 1, n))
                           ELSE Fails
       [] op = "remove" ->
            IF args[1] \notin Range(s) THEN Fails
            ELSE Changed(Keeps(s, LAMBDA k : s[k] # args[1] \/ \E j \in 1..(k - 1) : s[j] = args[1]))
       [] op = "pop" ->
            LET i == IF args[1] = None THEN n ELSE args[1] + 1
            IN IF i \notin 1..n THEN Fails ELSE Gives(Keeps(s, LAMBDA k : k # i), s[i])
       [] op = "reverse" -> Changed([k \in 1..n |-> s[n + 1 - k]])
       [] op = "sort" -> Changed(SortSeq(s, <))
       [] op = "min" -> Reads(IF s = <<>> THEN None ELSE Min(Range(s)))
       [] op = "max" -> Reads(IF s = <<>> THEN None ELSE Max(Range(s)))
       [] op = "iter" -> Reads(s)
       [] op = "rIn" -> Reads(args[1] \in Range(s))
       [] op = "count" -> Reads(Cardinality({k \in 1..n : s[k] = args[1]}))
       [] op = "index" -> IF args[1] \in Range(s)
                          THEN Reads(Min({k \in 1..n : s[k] = args[1]}) - 1) ELSE Fails
       [] op = "eq" -> Reads(s = o)
       [] op = "cmp" ->
            LET Less(a, b) == \/ Len(a) < Len(b) /\ a = SubSeq(b, 1, Len(a))
                              \/ \E k \in DOMAIN a : /\ k <= Len(b) /\ a[k] < b[k]
                                                     /\ SubSeq(a, 1, k - 1) = SubSeq(b, 1, k - 1)
            IN Reads(IF Less(s, o) THEN -1 ELSE IF Less(o, s) THEN 1 ELSE 0)
       [] op = "range" ->
            LET d == args[3]
                In == {k \in -9..9 : IF d > 0 THEN k >= args[1] /\ k < args[2] /\ (k - args[1]) % d = 0
                                     ELSE k <= args[1] /\ k > args[2] /\ (args[1] - k) % (-d) = 0}
            IN IF d = 0 THEN Fails
               ELSE Reads(SetToSortSeq(In, LAMBDA x, y : IF d > 0 THEN x < y ELSE x > y))

Agrees(c) ==
  LET m == Meaning(c.op, c.args, c.before.items)
      x == c.outcome
      ret == IF c.op \in {"getItem", "add", "iadd", "extend", "mul", "imul", "append",
                          "insert", "remove", "reverse", "sort"}
                /\ ~(c.op = "getItem" /\ Len(c.args[1]) = 1) /\ x.ret # None
             THEN IF x.ret = Overrun THEN Garbage ELSE x.ret.items ELSE x.ret
  IN IF m = Fails THEN x.how = "raised" /\ x.list = c.before
     ELSE /\ x.how = "returned" /\ x.list # Overrun
          /\ ret = m.ret
          /\ IF c.op \in {"add", "mul"} THEN x.list = c.before ELSE x.list.items = m.items

\* Slices that are counted wrongly: those that go down, or end before they start.
Miscounted(sl, n) == exp_len(sl, n) # Len(Meant(sl, n))
LegalSlice(sl, n) == Len(sl) > 1 /\ ~OutOfRange(sl, n) /\ ~StepIsZero(sl)

(***************************************************************************)
(* The calls that do something else: l[None] keeps the lock, a slice is    *)
(* miscounted; a slice is assigned the list itself, or extend! is given    *)
(* it, which then waits for its own lock; a list of no items may have no   *)
(* memory at all, which does not grow; a list is added to itself; extend!  *)
(* of what is no sequence keeps the lock; a negative number of times;      *)
(* l * 1 is l; pop! of an empty list; a function for sort!.                *)
(***************************************************************************)
Known(c) ==
  LET n == Len(c.before.items)
      sl == c.args[1]
      other == c.args[1]
  IN \/ c.op \in {"setItem", "delItem"} /\ sl = <<None>>
     \/ c.op = "delItem" /\ LegalSlice(sl, n) /\ Miscounted(sl, n)
     \/ c.op = "setItem" /\ Len(sl) > 1 /\ c.args[2] = None /\ ~OutOfRange(<<sl[1]>>, n)
     \/ /\ c.op = "setItem" /\ LegalSlice(sl, n) /\ c.args[2] \notin {NotASequence, None}
        /\ \/ Len(sl) = 2 /\ Miscounted(sl, n)
           \/ LET v == Len(c.args[2].items)
              IN Len(sl) = 3 /\ (v = Max({exp_len(sl, n), 0})) # (v = Len(Meant(sl, n)))
     \/ c.op = "add" /\ n = 0 /\ other # None /\ other.items # <<>>
     \/ c.before.size = 0 /\ \/ c.op = "iadd" /\ other # None /\ other.items # <<>>
                             \/ c.op = "append"
                             \/ c.op = "insert" /\ c.args[1] = 0
     \/ c.op = "iadd" /\ other = None /\ n > 0
     \/ c.op = "extend" /\ other \in {NotASequence, None}
     \/ c.op \in {"mul", "imul"} /\ c.args[1] < 0 /\ n > 0
     \/ c.op = "mul" /\ c.args[1] = 1
     \/ c.op = "pop" /\ n = 0 /\ c.args[1] \notin {None, -1}
     \/ c.op = "sort" /\ c.args[1] # None

-----------------------------------------------------------------------------
(* Strings: characters a, b, space and tab, one without case and one of unknown case. *)

MCTexts == UNION {[1..n -> {97, 98}] : n \in 0..4}
           \cup {<<97, 97, 98, 97, 98>>, <<32, 97, 32, 98>>, <<97, 9, 9>>, <<9, 32>>,
                 <<66, 97, 12354>>, <<98, 1046>>, <<97, 32, 1046, 32>>}
MCParts == {<<>>, <<97>>, <<98>>, <<97, 98>>, <<97, 97>>, <<97, 98, 97>>, <<97, 97, 98>>, <<97, 98, 97, 98>>}
MCBehinds == {<<97, 98, 97>>, <<98, 97, 97>>, <<0, 98, 0>>}
MCByteStrings == {<<>>, <<1>>, <<2>>, <<1, 2>>, <<1, 0>>, <<3, 1>>, [k \in 1..9 |-> k], [k \in 1..13 |-> k]}
MCSpecs == [left : BOOLEAN, zero : BOOLEAN, width : {None, 3, 6}, precision : {None, 0, 2}]

IsAt(s, part, k) == k + Len(part) <= Len(s) /\ SubSeq(s, k + 1, k + Len(part)) = part
Within(s, part) == {k \in 0..Len(s) : IsAt(s, part, k)}
\* The pieces between the matches, leftmost first and not overlapping.
RECURSIVE Pieces(_, _)
Pieces(s, part) ==
  IF Within(s, part) = {} THEN <<s>>
  ELSE LET k == Min(Within(s, part))
       IN <<SubSeq(s, 1, k)>> \o Pieces(SubSeq(s, k + Len(part) + 1, Len(s)), part)
Joined(by, pieces) == FoldLeft(LAMBDA x, y : x \o by \o y, pieces[1], Tail(pieces))
Letters == 97 :> 65 @@ 98 :> 66
Trimmed(s, t) == /\ \E k \in 0..Len(s) : /\ SubSeq(s, k + 1, Len(s)) = t
                                         /\ \A j \in 1..k : IS_SPACE(s[j])
                 /\ t # <<>> => ~IS_SPACE(t[1])

StringOps == {"changeCase", "lStrip", "rStrip", "strip", "ord", "iterString", "format", "mulString",
              "expandTabs", "cmpString", "cmpChar", "join", "in", "split", "find", "replace",
              "mulBytes", "iterBytes", "initBytes", "cmpBytes", "addBytes", "addString"}
\* What a call on a string means, as a relation to what it gives: Garbage where it raises.
Meant_(op, args, r) ==
  LET s == args[1]
      x == args[2]
      Order == LET Less(a, b) == \/ Len(a) < Len(b) /\ a = SubSeq(b, 1, Len(a))
                                 \/ \E k \in DOMAIN a : /\ k <= Len(b) /\ a[k] < b[k]
                                                        /\ SubSeq(a, 1, k - 1) = SubSeq(b, 1, k - 1)
               IN IF Less(s, x) THEN -1 ELSE IF Less(x, s) THEN 1 ELSE 0
  IN CASE op = "changeCase" ->
            LET At1(k) == x \in {"lower", "upper"} \/ k = 1 \/ (x = "capWords" /\ s[k - 1] = 32)
                Other1(c) == IF x = "lower" THEN CASE c = 66 -> 98 [] OTHER -> c
                             ELSE IF c \in DOMAIN Letters THEN Letters[c] ELSE c
            IN r = IF \E k \in DOMAIN s : s[k] = 1046 /\ At1(k) THEN Garbage
                   ELSE [k \in DOMAIN s |-> IF At1(k) THEN Other1(s[k]) ELSE s[k]]
       [] op = "lStrip" -> r # Garbage /\ Trimmed(s, r)
       [] op = "rStrip" -> r # Garbage /\ Trimmed(Reverse(s), Reverse(r))
       [] op = "strip" -> r # Garbage /\ \E t \in {SubSeq(s, k, Len(s)) : k \in 1..(Len(s) + 1)} :
                            Trimmed(s, t) /\ Trimmed(Reverse(t), Reverse(r))
       [] op = "ord" -> r = IF s = <<>> THEN Garbage ELSE s[1]
       [] op = "format" ->
            LET n == IF x.precision = None THEN Len(s) ELSE Min({x.precision, Len(s)})
                gap == Len(r) - n
            IN /\ Len(r) = Max({n} \cup ({x.width} \cap Int))
               /\ SubSeq(r, IF x.left THEN 1 ELSE gap + 1, IF x.left THEN n ELSE Len(r)) = SubSeq(s, 1, n)
               /\ \A k \in IF x.left THEN (n + 1)..Len(r) ELSE 1..gap :
                    r[k] = IF x.zero /\ ~x.left THEN 48 ELSE 32
       [] op \in {"mulString", "mulBytes"} ->
            r = IF x < 0 THEN Garbage ELSE FlattenSeq([k \in 1..x |-> s])
       [] op = "expandTabs" -> r = IF x < 0 THEN Garbage ELSE Joined([k \in 1..x |-> 32], Pieces(s, <<9>>))
       [] op = "cmpChar" -> r = IF Len(s) # 1 \/ x < 0 THEN Garbage
                                ELSE IF s[1] < x THEN -1 ELSE IF s[1] > x THEN 1 ELSE 0
       [] op \in {"cmpString", "cmpBytes"} -> r = Order
       [] op = "join" -> r = Joined(s, x)
       [] op = "in" -> r = (Within(s, x) # {})
       [] op = "split" -> r = IF x = <<>> THEN Garbage ELSE Pieces(s, x)
       [] op = "replace" -> r = IF x = <<>> THEN Garbage ELSE Joined(args[4], Pieces(s, x))
       [] op = "initBytes" -> r = IF \A k \in DOMAIN s : s[k] >= 0 /\ s[k] < 256 THEN s ELSE Garbage
       [] op \in {"addBytes", "addString"} -> r = s \o x
       [] op = "find" ->
            LET found == {k \in Within(s, x) : k >= args[4]}
            IN r = IF x = <<>> \/ found = {} THEN 0 ELSE Min(found)
       [] op \in {"iterString", "iterBytes"} -> r = s

\* find frees the memory of its strings, and the iterator of a string keeps its lock at the
\* end; what they return is compared all the same.
StringAgrees(c) ==
  LET x == c.outcome
      usual == IF c.op = "iterString" THEN "kept"
               ELSE IF c.op = "find" /\ Len(c.args[2]) > 0 THEN "freed" ELSE "returned"
  IN /\ x.how \in {usual, "raised"}
     /\ (x.ret = None) => x.how = "raised"
     /\ Meant_(c.op, c.args, IF x.how = "raised" THEN Garbage ELSE x.ret)
\* A part some of which is in the string, and followed by what lies behind the whole part.
Deceives(memory, part, behind) ==
  \E k \in 1..(Len(part) - 1) :
    part[k + 1] = behind[1] /\ Within(memory, SubSeq(part, 1, k)) # {}
RunsOn(s, part, after) == \E k \in Within(s \o after, part) : k + Len(part) > Len(s)
\* Calls whose search may end at a character that is not the part's end, or goes on behind
\* the string; and bytes that differ behind the first.
Misled(c) ==
  LET s == c.args[1]
      x == c.args[2]
  IN \/ c.op \in {"in", "split"} /\ Deceives(s, x, c.args[3])
     \/ c.op = "replace" /\ (Deceives(s \o c.args[5], x, c.args[3]) \/ RunsOn(s, x, c.args[5]))
     \/ c.op = "find" /\ (Deceives(s \o c.args[5], x, c.args[3]) \/ RunsOn(s, x, c.args[5]))
     \/ c.op = "expandTabs" /\ RunsOn(s, <<9>>, c.args[3])
     \/ c.op = "cmpBytes" /\ s # x /\ Len(x) > 0 /\ s # <<>> /\ s[1] = x[1]
\* Calls that always do something else.
Wrong(c) ==
  LET s == c.args[1]
      x == c.args[2]
      Empty == Len(x) = 0
  IN \/ c.op = "iterBytes"
     \/ c.op = "in" /\ Empty
     \/ c.op = "expandTabs" /\ x < 0
     \/ c.op = "mulBytes" /\ x <= 0

-----------------------------------------------------------------------------
\* Every method of a list or tuple, but in the known cases and in each of those: what it
\* returns and what the list holds after it is what sequences have, and a call that must
\* fail raises and leaves the list alone (builtins-list.c, builtins-tuple.c, and
\* get_sequence_item in builtins-core.c).  The methods of strings and bytes give what
\* sequences of characters give, but in known cases (builtins-string.c, builtins-bytes.c).
Exact == \/ last = NoCall
         \/ IF last.op \in StringOps THEN Misled(last) \/ StringAgrees(last) # Wrong(last)
            ELSE Agrees(last) # Known(last)
=============================================================================
