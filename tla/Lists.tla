------------------------------- MODULE Lists --------------------------------
(***************************************************************************)
(* The lists, tuples and slices of builtins-list.c, builtins-tuple.c and   *)
(* builtins-core.c.  A list is its items and the number of items its       *)
(* memory holds; what lies in the memory behind the items is Garbage.      *)
(***************************************************************************)
EXTENDS Integers, Sequences, FiniteSetsExt, SequencesExt

CONSTANTS Item,            \* items that can be compared, as integers
          Garbage, None,
          NotASequence,    \* any parameter of another type
          Slices(_),       \* the slices tried on n items
          Values,          \* the sequences assigned, added and compared
          Indices, Times,
          MaxLen           \* bound on a list that further calls start from

VARIABLES list,    \* the list that the calls are made on
          last     \* the last call: its method, arguments and outcome

LIST_GROWTH_FACTOR == 2

List(items, size) == [items |-> items, size |-> size]
NEW_LIST(n) == List(<<>>, Max({n, 2}))
copy_list_obj(l) == List(l.items, Len(l.items))
\* What is left after writing outside of the memory of a list.
Overrun == List(<<>>, -1)

At(s, i) == IF i \in 0..(Len(s) - 1) THEN s[i + 1] ELSE Garbage
Cells(n, At0(_)) == [k \in 1..n |-> At0(k - 1)]
\* A list whose length and memory the call has set.
Sized(items, size) == IF Len(items) > size THEN Overrun ELSE List(items, size)

Grown(l) == IF Len(l.items) = l.size THEN LIST_GROWTH_FACTOR * l.size ELSE l.size
list_append(l, x) == IF l = Overrun THEN l ELSE Sized(Append(l.items, x), Grown(l))
AppendAll(l, s) == FoldLeft(list_append, l, s)

(***************************************************************************)
(* The outcome of a call: the list after it, what it returns, and how it   *)
(* ends: returned, raised, raised with the write lock kept, or hanging.    *)
(***************************************************************************)
Outcome(l, ret, how) == [list |-> l, ret |-> ret, how |-> how]
Returned(l, ret) == Outcome(l, ret, "returned")
Raised(l) == Outcome(l, None, "raised")
Kept(l) == Outcome(l, None, "kept")
Hangs(l) == Outcome(l, None, "hangs")

-----------------------------------------------------------------------------
(* Slices: one, two or three indices, each an integer or None.  *)

Index(i, n) == IF i < 0 THEN i + n ELSE i
OutOfRange(sl, n) == \/ sl[1] # None /\ Index(sl[1], n) \notin 0..(n - 1)
                     \/ Len(sl) > 1 /\ sl[2] # None /\ Index(sl[2], n) \notin 0..n
StepIsZero(sl) == Len(sl) = 3 /\ sl[3] = 0
StepOf(sl) == IF Len(sl) = 3 /\ sl[3] # None THEN sl[3] ELSE 1
First(sl, n) == IF sl[1] # None THEN Index(sl[1], n) ELSE IF StepOf(sl) > 0 THEN 0 ELSE n - 1
Limit(sl, n) == IF sl[2] # None THEN Index(sl[2], n) ELSE IF StepOf(sl) > 0 THEN n ELSE -1

\* Division of C, towards zero.
Abs(a) == IF a < 0 THEN -a ELSE a
CDiv(a, b) == IF (a < 0) = (b < 0) THEN Abs(a) \div Abs(b) ELSE -(Abs(a) \div Abs(b))
exp_len(sl, n) == CDiv(Limit(sl, n) - First(sl, n) + StepOf(sl) - 1, StepOf(sl))

\* The indices a loop from first to limit visits.
Visited(sl, n) ==
  LET a == First(sl, n)
      z == Limit(sl, n)
      d == StepOf(sl)
      turns == IF d > 0 THEN (z - a + d - 1) \div d ELSE (a - z - d - 1) \div (-d)
  IN [k \in 1..Max({turns, 0}) |-> a + (k - 1) * d]

\* A list or tuple, or the bytes of a buffer of exp_len.
get_sequence_item(l, sl, type) ==
  LET s == l.items
      n == Len(s)
      visited == Visited(sl, n)
      picked == [k \in DOMAIN visited |-> At(s, visited[k])]
      room == Max({exp_len(sl, n), 0}) + (IF StepOf(sl) > 0 THEN 0 ELSE 1)
  IN IF OutOfRange(sl, n) \/ StepIsZero(sl) \/ sl = <<None>> THEN Raised(l)
     ELSE IF Len(sl) = 1 THEN Returned(l, At(s, First(sl, n)))
     ELSE Returned(l, IF type = "list" THEN AppendAll(NEW_LIST(room), picked)
                      ELSE Sized(picked, room))

\* The value is a sequence, an item, or the list itself: has_proto, which asks for its kind
\* before the rest of the slice is looked at, waits for the lock that the call holds.
SetItem(l, sl, value) ==
  LET s == l.items
      n == Len(s)
      i1 == First(sl, n)
      i2 == Limit(sl, n)
      v == Len(value.items)
      new_len == i1 + v + (n - i2)
      moves == Max({exp_len(sl, n), 0}) # v /\ i2 # n
      visited == Visited(sl, n)
      New(k) == IF k \in i1..(i1 + v - 1) THEN value.items[k - i1 + 1]
                ELSE IF moves /\ k >= i1 + v THEN At(s, k - (i1 + v) + i2) ELSE At(s, k)
  IN IF sl = <<None>> THEN Kept(l)
     ELSE IF OutOfRange(<<sl[1]>>, n) THEN Raised(l)
     ELSE IF Len(sl) = 1 THEN Returned(List([s EXCEPT ![i1 + 1] = value], l.size), value)
     ELSE IF value = None THEN Hangs(l)
     ELSE IF value = NotASequence \/ OutOfRange(sl, n) \/ StepIsZero(sl) THEN Raised(l)
     ELSE IF Len(sl) = 3
     THEN IF Max({exp_len(sl, n), 0}) # v THEN Raised(l)
          ELSE Returned(List(FoldLeftDomain(LAMBDA t, k : [t EXCEPT ![visited[k] + 1] =
                                                             At(value.items, k - 1)],
                                            s, visited), l.size), None)
     ELSE Returned(List(Cells(new_len, New),
                        IF new_len + 1 > l.size THEN new_len + 1 ELSE l.size), None)

\* Mutant: items move down as if none had been deleted before.
DroppedFixed(s, at, count) ==
  Cells(Len(s), LAMBDA k : IF k \in at..(at + count - 2) THEN At(s, k + 1) ELSE At(s, k))

\* Items from i + 1 on move one down, n - 1 - i of them as the step began.
Dropped(s, at, count) ==
  Cells(Len(s), LAMBDA k : IF k \in at..(at + count - 1) THEN At(s, k + 1) ELSE At(s, k))
DelItem(l, sl) ==
  LET s == l.items
      n == Len(s)
      i1 == First(sl, n)
      i2 == Limit(sl, n)
      d == StepOf(sl)
      visited == Visited(sl, n)
      Drop(t, k) == Dropped(t, visited[k] - (IF d > 0 THEN k - 1 ELSE 0), n - 1 - visited[k])
      left == n - exp_len(sl, n)
      dropped == FoldLeftDomain(Drop, s, visited)
      moved == exp_len(sl, n) # 0 /\ i2 # n
  IN IF sl = <<None>> THEN Kept(l)
     ELSE IF OutOfRange(sl, n) \/ StepIsZero(sl) THEN Raised(l)
     ELSE IF Len(sl) = 1 THEN Returned(List(RemoveAt(s, i1 + 1), l.size), None)
     ELSE IF d # 1
     THEN Returned(IF left < 0 THEN Overrun
                   ELSE Sized(Cells(left, LAMBDA k : At(dropped, k)), l.size), None)
     ELSE Returned(Sized(Cells(i1 + n - i2, LAMBDA k : IF moved /\ k >= i1
                                                       THEN At(s, k - i1 + i2) ELSE At(s, k)),
                         l.size), None)
-----------------------------------------------------------------------------
(* quicksort on the items from l to r, counted from 1, split three ways. *)

Exchange(a, i, j) == [a EXCEPT ![i] = a[j], ![j] = a[i]]
RECURSIVE Split(_, _, _, _, _, _, _), quicksort(_, _, _)
Split(a, l, r, i0, j0, p, q) ==
  LET v == a[r]
      i == Min({k \in (i0 + 1)..r : ~(a[k] < v)})
      j == Max({k \in l..(j0 - 1) : ~(v < a[k])} \cup {l})
      b == Exchange(a, i, j)
      left == b[i] = v
      c == IF left THEN Exchange(b, p + 1, i) ELSE b
      right == v = c[j]
      d == IF right THEN Exchange(c, j, q - 1) ELSE c
  IN IF i >= j THEN [a |-> Exchange(a, i, r), i |-> i, p |-> p, q |-> q]
     ELSE Split(d, l, r, i, j, IF left THEN p + 1 ELSE p, IF right THEN q - 1 ELSE q)
quicksort(a, l, r) ==
  IF r <= l THEN a
  ELSE LET s == Split(a, l, r, l - 1, r, l - 1, r)
           fromLeft == Max({s.p - l, 0})
           fromRight == Max({r - 1 - s.q, 0})
           b == FoldLeft(LAMBDA x, k : Exchange(x, l + k, s.i - 1 - k), s.a,
                         [k \in 1..fromLeft |-> k - 1])
           c == FoldLeft(LAMBDA x, k : Exchange(x, s.i + 1 + k, r - 1 - k), b,
                         [k \in 1..fromRight |-> k - 1])
       IN quicksort(quicksort(c, l, s.i - 1 - fromLeft), s.i + 1 + fromRight, r)
-----------------------------------------------------------------------------
(* The methods; other is the list itself where it is None. *)

Other(l, other) == IF other = None THEN l ELSE other
add_(l, other) == Returned(l, AppendAll(copy_list_obj(l), Other(l, other).items))
\* The length of the parameter is read again in every turn.
iadd_(l, other) == IF other = None /\ l.items # <<>> THEN Hangs(l)
                   ELSE LET r == AppendAll(l, Other(l, other).items) IN Returned(r, r)
Repeated(l, times) == LET n == Len(l.items)
                      IN List(Cells(n * times, LAMBDA k : At(l.items, k % n)), n * times)
mul_(l, times) == IF times < 0 /\ l.items # <<>> THEN Returned(l, Overrun)
                  ELSE Returned(l, IF times = 0 THEN NEW_LIST(0)
                                   ELSE IF times = 1 THEN None ELSE Repeated(l, Max({times, 0})))
imul_(l, times) == IF times < 0 /\ l.items # <<>> THEN Returned(Overrun, Overrun)
                   ELSE LET r == IF times = 0 THEN List(<<>>, l.size)
                                 ELSE IF times = 1 THEN l ELSE Repeated(l, Max({times, 0}))
                        IN Returned(r, r)
append(l, x) == LET r == list_append(l, x) IN Returned(r, r)
\* has_proto waits for the lock that the call holds on the list itself.
extend(l, other) ==
  LET s == l.items \o other.items
      r == List(s, IF Len(s) > l.size THEN Len(s) * LIST_GROWTH_FACTOR ELSE l.size)
  IN IF other = None THEN Hangs(l)
     ELSE IF other = NotASequence THEN Kept(l) ELSE Returned(r, r)
insert(l, i, x) == LET r == Sized(InsertAt(l.items, i + 1, x), Grown(l))
                   IN IF i \in 0..Len(l.items) THEN Returned(r, r) ELSE Raised(l)
Equal(l, x) == {k \in 1..Len(l.items) : l.items[k] = x}
remove(l, x) == LET r == List(RemoveAt(l.items, Min(Equal(l, x))), l.size)
                IN IF Equal(l, x) = {} THEN Raised(l) ELSE Returned(r, r)
\* The test against the length - 1 is one of unsigned numbers.
pop(l, i0) == LET n == Len(l.items)
                  i == IF i0 = None THEN n - 1 ELSE i0
              IN IF i < 0 \/ (n > 0 /\ i > n - 1) THEN Raised(l)
                 ELSE IF n = 0 THEN Returned(Overrun, Garbage)
                 ELSE Returned(List(RemoveAt(l.items, i + 1), l.size), l.items[i + 1])
reverse(l) == LET r == List(Reverse(l.items), l.size) IN Returned(r, r)
\* The test of the parameter tests the list: any function raises.
sort(l, f) == LET r == List(quicksort(l.items, 1, Len(l.items)), l.size)
              IN IF f # None THEN Raised(l) ELSE Returned(r, r)

\* The methods of Tuple that List inherits.
cmp_(l, other) ==
  LET a == l.items
      b == other.items
      differ == {k \in 1..Min({Len(a), Len(b)}) : a[k] # b[k]}
      Sign(x, y) == IF x < y THEN -1 ELSE IF x > y THEN 1 ELSE 0
  IN Returned(l, IF differ # {} THEN Sign(a[Min(differ)], b[Min(differ)])
                 ELSE Sign(Len(a), Len(b)))
eq(l, other) == LET a == l.items
                    b == other.items
                IN Returned(l, Len(a) = Len(b) /\ \A k \in DOMAIN a : a[k] = b[k])
rIn(l, x) == Returned(l, Equal(l, x) # {})
Best(l, Better(_, _)) == FoldLeft(LAMBDA m, x : IF Better(x, m) THEN x ELSE m,
                                  l.items[1], Tail(l.items))
min(l) == Returned(l, IF l.items = <<>> THEN None ELSE Best(l, LAMBDA x, m : x < m))
max(l) == Returned(l, IF l.items = <<>> THEN None ELSE Best(l, LAMBDA x, m : x > m))
count(l, x) == Returned(l, Len(SelectSeq(l.items, LAMBDA y : y = x)))
index(l, x) == IF Equal(l, x) = {} THEN Raised(l) ELSE Returned(l, Min(Equal(l, x)) - 1)
\* Tgen runs over a copy up to the size of its memory.
iter_(l) == LET c == copy_list_obj(l) IN Returned(l, Cells(c.size, LAMBDA k : At(c.items, k)))
range(start, stop, d) == IF d = 0 THEN Raised(list)
                         ELSE Returned(list, Visited(<<start, stop, d>>, 0))

-----------------------------------------------------------------------------
NoCall == [op |-> "none"]
\* Not followed further once memory was overwritten, or read without being set.
Whole(l) == l # Overrun /\ Garbage \notin Range(l.items)
Ready == last = NoCall /\ Len(list.items) <= MaxLen

Call(op, args, outcome) ==
  /\ last' = [op |-> op, args |-> args, before |-> list, outcome |-> outcome]
  /\ list' = outcome.list
\* The result takes the place of the list, as in a = a + b.
Assign(op, args, outcome) ==
  /\ last' = [op |-> op, args |-> args, before |-> list, outcome |-> outcome]
  /\ list' = IF outcome.ret = None THEN list ELSE outcome.ret

Init == list = NEW_LIST(0) /\ last = NoCall

OnSlice == Ready /\ \E sl \in Slices(list.items) :
  \/ \E type \in {"list", "bytes"} :
       Call("getItem", <<sl, type>>, get_sequence_item(list, sl, type))
  \/ \E v \in (IF Len(sl) = 1 THEN Item ELSE Values \cup {NotASequence, None}) :
       Call("setItem", <<sl, v>>, SetItem(list, sl, v))
  \/ Call("delItem", <<sl>>, DelItem(list, sl))
OnOther == Ready /\ \/ Call("extend", <<NotASequence>>, extend(list, NotASequence))
                    \/ \E other \in Values \cup {None} :
                         \/ Assign("add", <<other>>, add_(list, other))
                         \/ Call("iadd", <<other>>, iadd_(list, other))
                         \/ Call("extend", <<other>>, extend(list, other))
                         \/ Call("cmp", <<other>>, cmp_(list, Other(list, other)))
                         \/ Call("eq", <<other>>, eq(list, Other(list, other)))
OnItem == Ready /\ \E x \in Item :
  \/ Call("append", <<x>>, append(list, x))
  \/ Call("remove", <<x>>, remove(list, x))
  \/ Call("rIn", <<x>>, rIn(list, x))
  \/ Call("count", <<x>>, count(list, x))
  \/ Call("index", <<x>>, index(list, x))
  \/ \E i \in Indices : Call("insert", <<i, x>>, insert(list, i, x))
OnNumber == Ready /\ \/ \E n \in Times : \/ Assign("mul", <<n>>, mul_(list, n))
                                         \/ Call("imul", <<n>>, imul_(list, n))
                     \/ \E i \in Indices \cup {None} : Call("pop", <<i>>, pop(list, i))
                     \/ \E i, j \in Indices, d \in Times : Call("range", <<i, j, d>>, range(i, j, d))
OnList == Ready /\ \/ Call("reverse", <<>>, reverse(list))
                   \/ Call("min", <<>>, min(list))
                   \/ Call("max", <<>>, max(list))
                   \/ Call("iter", <<>>, iter_(list))
                   \/ \E f \in {None, NotASequence} : Call("sort", <<f>>, sort(list, f))

End == last # NoCall /\ Whole(list) /\ last' = NoCall /\ UNCHANGED list

Next == OnSlice \/ OnOther \/ OnItem \/ OnNumber \/ OnList \/ End
Spec == Init /\ [][Next]_<<list, last>>
=============================================================================
