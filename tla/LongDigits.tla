------------------------------- MODULE LongDigits -------------------------------
(***************************************************************************)
(* Vectors of digits, least significant first, and the routines that need  *)
(* no more than one pass over them (src/src/builtins-int.c): addition,     *)
(* subtraction, comparison, school multiplication, and division by one     *)
(* digit.                                                                  *)
(*                                                                         *)
(* A long is [neg, dig]: in C dsize is the length of dig, negative when    *)
(* neg holds.  Storage that is allocated and not yet written does not      *)
(* occur, so size is left out.                                             *)
(***************************************************************************)
EXTENDS Integers, Sequences, FiniteSetsExt

CONSTANT BASE   \* the number of values of a digit (2^15)

ASSUME BaseAssumption == BASE \in Nat /\ BASE >= 2

MASK == BASE - 1

Long(neg, dig) == [neg |-> neg, dig |-> dig]
Abs(n) == IF n < 0 THEN -n ELSE n
larger(a, b) == IF a > b THEN a ELSE b
smaller(a, b) == IF a < b THEN a ELSE b
Zeros(n) == [i \in 1..n |-> 0]
\* The digit i of a vector (from 1), 0 past its end.
At(dig, i) == IF i \in DOMAIN dig THEN dig[i] ELSE 0

\* The numbers that the k most significant digits make, for each k.
Tops(dig) ==
  LET top[k \in 0..Len(dig)] ==
        IF k = 0 THEN 0 ELSE top[k - 1] * BASE + dig[Len(dig) + 1 - k]
  IN  top
ValueOf(dig) == Tops(dig)[Len(dig)]
\* The value of a long.
Number(l) == (IF l.neg THEN -1 ELSE 1) * ValueOf(l.dig)

\* dsize = -dsize
Negate(x) == [x EXCEPT !.neg = ~@ /\ x.dig # <<>>]

Trim(dig) ==
  LET used == {i \in DOMAIN dig : dig[i] # 0}
  IN  IF used = {} THEN <<>> ELSE SubSeq(dig, 1, Max(used))
long_normalize(x) == LET d == Trim(x.dig) IN Long(x.neg /\ d # <<>>, d)

\* The carry, or the borrow when it is negative, that runs through the terms t from the
\* least significant on; the digits, and what is left over.
Carries(t, carry) ==
  LET c[i \in 0..Len(t)] == IF i = 0 THEN carry ELSE (c[i - 1] + t[i]) \div BASE
  IN  c
Ripple(t, carry) ==
  LET c == Carries(t, carry)
  IN  [dig |-> [i \in 1..Len(t) |-> (c[i - 1] + t[i]) % BASE], carry |-> c[Len(t)]]

\* x[0:m] += y, x[0:m] -= y; the last carry is dropped, as all callers do.
v_iadd(x, y) == Ripple([i \in 1..Len(x) |-> x[i] + At(y, i)], 0).dig
v_isub(x, y) == Ripple([i \in 1..Len(x) |-> x[i] - At(y, i)], 0).dig

muladd1(a, n, extra) ==
  LET z == Ripple([i \in 1..Len(a.dig) |-> a.dig[i] * n], extra)
  IN  long_normalize(Long(FALSE, z.dig \o <<z.carry>>))
mul1(a, n) == muladd1(a, n, 0)

\* Division by one digit, from the most significant on: what remains of the k highest.
Remainders(dig, n) ==
  LET rem[k \in 0..Len(dig)] ==
        IF k = 0 THEN 0 ELSE (rem[k - 1] * BASE + dig[Len(dig) + 1 - k]) % n
  IN  rem
inplace_divrem1(dig, n) ==
  LET rem == Remainders(dig, n)
  IN  [dig |-> [i \in 1..Len(dig) |-> (rem[Len(dig) - i] * BASE + dig[i]) \div n],
       rem |-> rem[Len(dig)]]
divrem1(a, n) ==
  LET r == inplace_divrem1(a.dig, n)
  IN  [div |-> long_normalize(Long(FALSE, r.dig)), rem |-> r.rem]

--------------------------------------------------------------------------------
(* Addition and comparison. *)

long_compare(a, b) ==
  LET dsize(x) == IF x.neg THEN -Len(x.dig) ELSE Len(x.dig)
      differ == {i \in DOMAIN a.dig : a.dig[i] # b.dig[i]}
      top    == Max(differ)
      sign   == IF dsize(a) # dsize(b) THEN dsize(a) - dsize(b)
                ELSE IF differ = {} THEN 0
                ELSE (IF a.neg THEN -1 ELSE 1) * (a.dig[top] - b.dig[top])
  IN  IF sign < 0 THEN -1 ELSE IF sign > 0 THEN 1 ELSE 0

x_add(a, b) ==
  LET z == Ripple([i \in 1..larger(Len(a.dig), Len(b.dig)) |-> At(a.dig, i) + At(b.dig, i)], 0)
  IN  long_normalize(Long(FALSE, z.dig \o <<z.carry>>))

\* |a| - |b|: the larger one is found by its length or by the highest digit that differs.
x_sub(a, b) ==
  LET c == long_compare(Long(FALSE, a.dig), Long(FALSE, b.dig))
      minus(x, y) == v_isub(x.dig, y.dig)
  IN  IF c = 0 THEN Long(FALSE, <<>>)
      ELSE IF c < 0 THEN long_normalize(Long(TRUE, minus(b, a)))
      ELSE long_normalize(Long(FALSE, minus(a, b)))

long_add(v, w) ==
  LET a == long_normalize(v)
      b == long_normalize(w)
  IN  CASE a.neg /\ b.neg -> Negate(x_add(a, b))
        [] a.neg /\ ~b.neg -> x_sub(b, a)
        [] ~a.neg /\ b.neg -> x_sub(a, b)
        [] OTHER -> x_add(a, b)

long_sub(v, w) ==
  LET a == long_normalize(v)
      b == long_normalize(w)
  IN  CASE a.neg /\ b.neg -> Negate(x_sub(a, b))
        [] a.neg /\ ~b.neg -> Negate(x_add(a, b))
        [] ~a.neg /\ b.neg -> x_add(a, b)
        [] OTHER -> x_sub(a, b)

--------------------------------------------------------------------------------
(* School multiplication. *)

\* z, with b times the digit i of a added at place i.
AddRow(z, a, b, i) ==
  LET n   == Len(z) - i + 1
      row == Ripple([j \in 1..n |-> z[i + j - 1] + a[i] * At(b, j)], 0).dig
  IN  [k \in 1..Len(z) |-> IF k < i THEN z[k] ELSE row[k - i + 1]]
Rows(a, b) ==
  LET z[i \in 0..Len(a)] ==
        IF i = 0 THEN Zeros(Len(a) + Len(b)) ELSE AddRow(z[i - 1], a, b, i)
  IN  z
x_mul(a, b) == long_normalize(Long(FALSE, Rows(a.dig, b.dig)[Len(a.dig)]))
================================================================================
