--------------------------------- MODULE LongInt --------------------------------
(***************************************************************************)
(* Integers of any size (src/src/builtins-int.c, the part before the Int   *)
(* methods), on the vectors of LongDigits: conversion, Karatsuba's         *)
(* multiplication, long division, powers, shifts, bits and texts.          *)
(*                                                                         *)
(* A pr_assert that fails ends the process: the routine's value is then    *)
(* Aborted.                                                                *)
(***************************************************************************)
EXTENDS LongDigits, Bitwise

CONSTANTS
  SHIFT,              \* the bits of a digit (15)
  WORD,               \* the bits of an i64_t (64); an int has half as many
  KARATSUBA_CUTOFF    \* up to so many digits x_mul multiplies (35)

ASSUME LongAssumption ==
  /\ SHIFT \in Nat /\ SHIFT >= 2 /\ BASE = 2^SHIFT /\ WORD \in Nat /\ WORD >= 2
  /\ KARATSUBA_CUTOFF \in Nat /\ KARATSUBA_CUTOFF >= 2

From(dig, i) == SubSeq(dig, i, Len(dig))

Aborted == Long(FALSE, <<-1>>)
IsAborted(x) == x.dig = <<-1>>

RECURSIVE DigitsOf(_, _)
DigitsOf(n, base) == IF n = 0 THEN <<>> ELSE <<n % base>> \o DigitsOf(n \div base, base)
new_longp(n) == Long(n < 0, DigitsOf(Abs(n), BASE))

copy_longp(x, padding) == Long(x.neg, x.dig \o Zeros(padding))

long_invert(v) == Negate(long_add(v, new_longp(1)))

--------------------------------------------------------------------------------
(* Multiplication. *)

kmul_split(n, size) ==
  LET lo == smaller(Len(n.dig), size)
  IN  [high |-> long_normalize(Long(FALSE, From(n.dig, lo + 1))),
       low |-> long_normalize(Long(FALSE, SubSeq(n.dig, 1, lo)))]

\* ret with the digits of t from place at (from 0) on.
Placed(ret, at, t) ==
  SubSeq(ret, 1, at) \o t.dig \o Zeros(Len(ret) - at - Len(t.dig))
Shifted(Op(_, _), ret, at, t) == SubSeq(ret, 1, at) \o Op(From(ret, at + 1), t.dig)

RECURSIVE k_mul(_, _)
\* The rest of b, a slice of a's length at a time, multiplied by a and added into ret.
RECURSIVE Lopsided(_, _, _, _)
Lopsided(a, b, ret, done) ==
  LET use  == smaller(Len(b.dig) - done, Len(a.dig))
      prod == k_mul(a, Long(FALSE, SubSeq(b.dig, done + 1, done + use)))
  IN  IF done >= Len(b.dig) THEN long_normalize(Long(FALSE, ret))
      ELSE IF IsAborted(prod) THEN Aborted
      ELSE Lopsided(a, b, Shifted(v_iadd, ret, done, prod), done + use)
k_lopsided_mul(a, b) == Lopsided(a, b, Zeros(Len(a.dig) + Len(b.dig)), 0)

k_mul(x, y) ==
  LET swap  == Len(x.dig) > Len(y.dig)
      a     == IF swap THEN y ELSE x
      b     == IF swap THEN x ELSE y
      shift == Len(b.dig) \div 2
      ah    == kmul_split(a, shift).high
      al    == kmul_split(a, shift).low
      bh    == kmul_split(b, shift).high
      bl    == kmul_split(b, shift).low
      t1    == k_mul(ah, bh)
      t2    == k_mul(al, bl)
      t3    == k_mul(x_add(ah, al), x_add(bh, bl))
      room  == Zeros(Len(a.dig) + Len(b.dig))
      high  == Placed(room, 2 * shift, t1)
      both  == t2.dig \o From(high, Len(t2.dig) + 1)
      ret   == Shifted(v_iadd, Shifted(v_isub, Shifted(v_isub, both, shift, t2), shift, t1), shift, t3)
  IN  CASE Len(a.dig) = 0 -> Long(FALSE, <<>>)
        [] Len(a.dig) \in 1..KARATSUBA_CUTOFF -> x_mul(a, b)
        [] Len(a.dig) > KARATSUBA_CUTOFF /\ 2 * Len(a.dig) <= Len(b.dig) -> k_lopsided_mul(a, b)
        [] OTHER -> IF \/ ah.dig = <<>>
                       \/ \E t \in {t1, t2, t3} : IsAborted(t)
                    THEN Aborted ELSE long_normalize(Long(FALSE, ret))

\* The copies get one more digit, a leading zero.
long_mul(v, w) ==
  LET z == k_mul(copy_longp(v, 1), copy_longp(w, 1))
  IN  IF IsAborted(z) \/ v.neg = w.neg THEN z ELSE Negate(z)

--------------------------------------------------------------------------------
(* Division. *)

\* One digit q of the quotient, at place k (from 0): guessed from the two highest digits of
\* the divisor w, taken off v, and corrected when that was too much.
DivStep(v, w, k) ==
  LET n   == Len(w)
      j   == k + n
      vj  == At(v, j + 1)
      two == vj * BASE + v[j]
      q0  == IF vj = w[n] THEN MASK ELSE two \div w[n]
      \* the while loop that lowers q
      fits(q) == w[n - 1] * q <= (two - q * w[n]) * BASE + v[j - 1]
      q   == CHOOSE x \in 0..q0 : fits(x) /\ \A y \in x + 1..q0 : ~fits(y)
      r   == Ripple([i \in 1..n |-> v[k + i] - w[i] * q], 0)
      carry == r.carry + vj
      back == Ripple([i \in 1..n |-> r.dig[i] + w[i]], 0).dig
      put(d) == [i \in DOMAIN v |-> IF i \in k + 1..k + n THEN d[i - k]
                                    ELSE IF i = j + 1 THEN 0 ELSE v[i]]
  IN  IF carry = 0 THEN [v |-> put(r.dig), q |-> q]
      ELSE IF carry = -1 THEN [v |-> put(back), q |-> q - 1]
      ELSE [v |-> <<-1>>, q |-> 0]

RECURSIVE Quotient(_, _, _, _)
Quotient(v, w, k, a) ==
  IF k < 0 \/ v = <<-1>> THEN [v |-> v, a |-> a]
  ELSE LET s == DivStep(v, w, k) IN Quotient(s.v, w, k - 1, <<s.q>> \o a)

x_divrem(v1, w1) ==
  LET d == BASE \div (w1.dig[Len(w1.dig)] + 1)
      v == mul1(v1, d)
      w == mul1(w1, d)
      r == Quotient(v.dig, w.dig, Len(v.dig) - Len(w.dig), <<>>)
  IN  IF Len(w.dig) # Len(w1.dig) \/ r.v = <<-1>> THEN [div |-> Aborted, rem |-> Aborted]
      ELSE [div |-> long_normalize(Long(FALSE, r.a)), rem |-> divrem1(Long(FALSE, r.v), d).div]

\* The remainder has the sign of a.  b is not zero.
long_divrem(a, b) ==
  LET n     == Len(a.dig)
      m     == Len(b.dig)
      small == divrem1(a, b.dig[1])
      r     == IF m = 1 THEN [div |-> small.div, rem |-> new_longp(small.rem)] ELSE x_divrem(a, b)
  IN  IF n < m \/ (n = m /\ a.dig[n] < b.dig[n]) THEN [div |-> Long(FALSE, <<>>), rem |-> a]
      ELSE [div |-> IF a.neg # b.neg THEN Negate(r.div) ELSE r.div,
            rem |-> IF a.neg THEN Negate(r.rem) ELSE r.rem]

\* Mutant: the quotient that is cut.
l_divmodCut(v, w) == long_divrem(long_normalize(v), long_normalize(w))
\* From the division that cuts to the one that rounds down.
l_divmod(v, w) ==
  LET a == long_normalize(v)
      b == long_normalize(w)
      r == long_divrem(a, b)
      different == r.rem.dig # <<>> /\ r.rem.neg # b.neg
  IN  IF ~different THEN r
      ELSE [div |-> long_sub(r.div, new_longp(1)), rem |-> long_add(r.rem, b)]
long_div(v, w) == l_divmod(v, w).div
long_mod(v, w) == l_divmod(v, w).rem

--------------------------------------------------------------------------------
(* Powers, shifts and bits. *)

\* z * a^e, with a squared for each bit of e.
RECURSIVE Squares(_, _, _)
Squares(z, a, e) ==
  LET z1 == IF e % 2 = 1 THEN long_mul(z, a) ELSE z
  IN  IF IsAborted(z1) THEN Aborted
      ELSE IF e \div 2 = 0 THEN z1
      ELSE IF IsAborted(long_mul(a, a)) THEN Aborted ELSE Squares(z1, long_mul(a, a), e \div 2)
\* bi runs over the digits of w, j over their bits: the bits of the exponent in order.
long_pow(v, w) == Squares(new_longp(1), long_normalize(v), ValueOf(w.dig))

RECURSIVE long_rshift(_, _)
long_rshift(v, n) ==
  LET a    == long_normalize(v)
      word == n \div SHIFT
      lo   == n % SHIFT
      size == Len(a.dig) - word
      part(i) == a.dig[word + i] \div 2^lo
                   + IF i < size THEN (a.dig[word + i + 1] * 2^(SHIFT - lo)) % BASE ELSE 0
  IN  IF a.neg THEN long_invert(long_rshift(long_invert(a), n))
      ELSE IF size <= 0 THEN Long(FALSE, <<>>)
      ELSE long_normalize(Long(FALSE, [i \in 1..size |-> part(i)]))

long_lshift(v, n) ==
  LET a    == long_normalize(v)
      rest == n % SHIFT
      z    == Ripple([i \in DOMAIN a.dig |-> a.dig[i] * 2^rest], 0)
  IN  long_normalize(Long(a.neg, Zeros(n \div SHIFT) \o z.dig \o <<z.carry>>))

\* A negative operand is inverted and its digits flipped by a mask; and and or trade places
\* to keep the result short.
long_bitwise(v, op0, w) ==
  LET a0 == long_normalize(v)
      b0 == long_normalize(w)
      a  == IF a0.neg THEN long_invert(a0) ELSE a0
      b  == IF b0.neg THEN long_invert(b0) ELSE b0
      negz == CASE op0 = "^" -> a0.neg # b0.neg
                [] op0 = "&" -> a0.neg /\ b0.neg
                [] op0 = "|" -> a0.neg \/ b0.neg
      op == IF op0 = "^" \/ ~negz THEN op0 ELSE IF op0 = "&" THEN "|" ELSE "&"
      maska == IF a0.neg = negz THEN 0 ELSE MASK
      maskb == IF op0 = "^" THEN (IF b0.neg THEN MASK ELSE 0) ELSE IF b0.neg = negz THEN 0 ELSE MASK
      size == IF op # "&" THEN larger(Len(a.dig), Len(b.dig))
              ELSE IF maska # 0 THEN Len(b.dig)
              ELSE IF maskb # 0 THEN Len(a.dig) ELSE smaller(Len(a.dig), Len(b.dig))
      bits(x, y) == CASE op = "&" -> x & y [] op = "|" -> x | y [] op = "^" -> x ^^ y
      z == long_normalize(Long(FALSE,
             [i \in 1..size |-> bits(At(a.dig, i) ^^ maska, At(b.dig, i) ^^ maskb)]))
  IN  IF negz THEN long_invert(z) ELSE z

--------------------------------------------------------------------------------
(* Texts.  A character is the value of the digit or letter, or one of these. *)

Minus == 36
Plus == 37
Space == 38
X == 33
EL == 21

IsPowerOf2(n) == \E k \in 0..6 : n = 2^k
Log2(n) == CHOOSE k \in 0..6 : n = 2^k

\* The digits of a in a base that is a power of 2, least significant first: accum keeps
\* the bits left over of the digits before.
RECURSIVE Bits(_, _, _, _)
Bits(dig, accum, have, base) ==
  IF dig = <<>> THEN DigitsOf(accum, base)
  ELSE LET acc  == accum + dig[1] * 2^have
           n    == (have + SHIFT) \div Log2(base)
           last == Len(dig) = 1
           out  == [i \in 1..n |-> (acc \div base^(i - 1)) % base]
       IN  IF last THEN DigitsOf(acc, base)
           ELSE out \o Bits(Tail(dig), acc \div base^n, have + SHIFT - n * Log2(base), base)

\* The digits in another base: divided by powbase, the highest power of base that fits in a digit,
\* each remainder gives power digits, the last one no leading zeros.
RECURSIVE Chunks(_, _, _)
Chunks(dig, base, power) ==
  LET r    == inplace_divrem1(dig, base^power)
      rest == Trim(r.dig)
      low  == DigitsOf(r.rem, base)
  IN  IF rest = <<>> THEN low
      ELSE low \o Zeros(power - Len(low)) \o Chunks(rest, base, power)

Reversed(s) == [i \in DOMAIN s |-> s[Len(s) + 1 - i]]
long_format(a, base) ==
  LET power == CHOOSE p \in 1..SHIFT : base^p < BASE /\ base^(p + 1) >= BASE
      low   == IF a.dig = <<>> THEN <<0>>
               ELSE IF IsPowerOf2(base) THEN Bits(a.dig, 0, 0, base) ELSE Chunks(a.dig, base, power)
  IN  (IF a.neg THEN <<Minus>> ELSE <<>>) \o Reversed(low)

\* The characters of s up to the first that is no digit of the base.
DigitRun(s, base) ==
  LET stops == {i \in DOMAIN s : s[i] >= base}
  IN  IF stops = {} THEN s ELSE SubSeq(s, 1, (CHOOSE i \in stops : \A j \in stops : i <= j) - 1)

\* Filled from the least significant character on, SHIFT bits at a time.
RECURSIVE Filled(_, _, _, _)
Filled(s, accum, have, base) ==
  IF s = <<>> THEN IF have > 0 THEN <<accum>> ELSE <<>>
  ELSE LET acc == accum + s[Len(s)] * 2^have
           n   == have + Log2(base)
           rest == SubSeq(s, 1, Len(s) - 1)
       IN  IF n >= SHIFT THEN <<acc % BASE>> \o Filled(rest, acc \div BASE, n - SHIFT, base)
           ELSE Filled(rest, acc, n, base)
long_from_binary_base(s, base) == long_normalize(Long(FALSE, Filled(s, 0, 0, base)))

RECURSIVE TrimSpace(_)
TrimSpace(s) == IF s # <<>> /\ Head(s) = Space THEN TrimSpace(Tail(s)) ELSE s

RECURSIVE MulAdd(_, _, _)
MulAdd(z, s, base) == IF s = <<>> THEN z ELSE MulAdd(muladd1(z, base, Head(s)), Tail(s), base)

\* The long, and whether the text is a number.
cstr2longp(text, base0) ==
  LET s1   == TrimSpace(text)
      neg  == s1 # <<>> /\ Head(s1) = Minus
      s2   == TrimSpace(IF s1 # <<>> /\ Head(s1) \in {Plus, Minus} THEN Tail(s1) ELSE s1)
      hex  == Len(s2) > 1 /\ s2[1] = 0 /\ s2[2] = X
      base == IF base0 # 0 THEN base0 ELSE IF s2 = <<>> \/ s2[1] # 0 THEN 10 ELSE IF hex THEN 16 ELSE 8
      s3   == IF base = 16 /\ hex THEN From(s2, 3) ELSE s2
      run  == DigitRun(s3, base)
      z    == IF IsPowerOf2(base) THEN long_from_binary_base(run, base)
              ELSE MulAdd(Long(FALSE, <<>>), run, base)
      s4   == From(s3, Len(run) + 1)
      s5   == TrimSpace(IF s4 # <<>> /\ Head(s4) = EL THEN Tail(s4) ELSE s4)
  IN  [ok |-> run # <<>> /\ s5 = <<>>, z |-> IF neg THEN Negate(z) ELSE z]
================================================================================
