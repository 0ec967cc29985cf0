--------------------------------- MODULE MCInts ---------------------------------
(* Ints on operands around every boundary of its parts, against the mathematics of integers. *)
EXTENDS Ints

Both(S) == S \cup {-n : n \in S}
\* Around the width of an int, of an i64_t, of a digit, of the limits of the methods.
Small == Both({0, 1, 2, 3, 7, 10, 15, 16, 31, 32, 33, 255, 1000, 1023, 1024, 2047}) \cup {-2048}
\* Values of longs: small ones, and with up to five digits.
Large == Both({0, 1, 5, 15, 16, 255, 256, 257, 2047, 2048, 4095, 4096, 5000})
Huge == Both({65521, 65536, 524287})
Imms == {Imm(n) : n \in Small}
Longs(S) == {LongObj(new_longp(n)) : n \in S}
Counts == {-33, -32, -7, -1, 0, 1, 3, 4, 5, 6, 8, 11, 12, 13, 31, 32, 40, 2047}

MCSamples(op, n) ==
  CASE op \in {"rShift_", "lShift_"} ->
         IF n = 1 THEN Imms \cup Longs(Large \ {4096, 5000, -4096, -5000})
         ELSE {Imm(c) : c \in Counts} \cup Longs({-1, 0, 2, 4, 9, 17, 40, 5000})
    [] op = "pow_" -> IF n = 1 THEN {Imm(c) : c \in -4..4} \cup Longs({-9, -2, 0, 3, 10, 16, 20})
                      ELSE {Imm(c) : c \in -1..6} \cup Longs({-3, 0, 2, 5})
    [] op = "mul_" -> Imms \cup Longs(IF n = 1 THEN Large \ {5000, -5000} ELSE Large \cup Huge)
    [] op = "iter_" -> {Imm(0), Imm(3), Imm(-2040), LongObj(new_longp(2))}
    [] OTHER -> Imms \cup Longs(Large \cup Huge)
MCTexts ==
  [radix : {8}, chars : {<<0>>, <<7>>, <<1, 7>>, <<0, 0, 3>>, <<7, 7, 7, 7>>, <<1, 0, 0, 0, 0>>}]
  \cup [radix : {10}, chars : {<<0>>, <<9>>, <<9, 9, 9>>, <<2, 0, 4, 7>>, <<2, 0, 4, 8>>, <<1, 0, 4, 8, 5, 7, 6>>}]
  \cup [radix : {16}, chars : {<<>>, <<0>>, <<15>>, <<0, 15, 0>>, <<10, 11, 12, 13, 14>>}]
  \cup [radix : {8}, chars : {<<8>>, <<1, 9>>}]

--------------------------------------------------------------------------------
(* What the operations mean. *)

\* The quotient rounded down, as the comment before l_divmod defines it.
Floor(x, y) == IF y > 0 THEN x \div y ELSE (-x) \div (-y)
\* Two's complement, in more bits than any operand has.
Wide == 2^26
BitsOf(Op(_, _), x, y) ==
  LET z == Op(x % Wide, y % Wide) IN IF z >= Wide \div 2 THEN z - Wide ELSE z
Meaning(op, x, y) ==
  CASE op = "abs_" -> Abs(x)
    [] op = "neg_" -> -x
    [] op \in {"pos_", "init_"} -> x
    [] op = "invert_" -> -x - 1
    [] op = "add_" -> x + y
    [] op = "sub_" -> x - y
    [] op = "mul_" -> x * y
    [] op = "floorDiv_" -> Floor(x, y)
    [] op = "mod_" -> x - y * Floor(x, y)
    [] op = "pow_" -> IF y = 0 THEN 1 ELSE x^y
    [] op = "rShift_" -> x \div 2^y
    [] op = "lShift_" -> x * 2^y
    [] op = "and_" -> BitsOf(LAMBDA n, m : n & m, x, y)
    [] op = "or_" -> BitsOf(LAMBDA n, m : n | m, x, y)
    [] op = "xor_" -> BitsOf(LAMBDA n, m : n ^^ m, x, y)
    [] op = "cmp_" -> IF x < y THEN -1 ELSE IF x > y THEN 1 ELSE 0

\* The number a text stands for.
Reading(text, base) ==
  LET signed == text # <<>> /\ text[1] = Minus
      digs   == IF signed THEN Tail(text) ELSE text
      upto[i \in 0..Len(digs)] == IF i = 0 THEN 0 ELSE upto[i - 1] * base + digs[i]
  IN  (IF signed THEN -1 ELSE 1) * upto[Len(digs)]

IsInteger(r) == "imm" \in DOMAIN r
Int32 == -2^(WORD \div 2 - 1)..2^(WORD \div 2 - 1) - 1
Int64 == -2^(WORD - 1)..2^(WORD - 1) - 1

\* The result of call c is the one its operands call for.
Right(c) ==
  LET x == Value(c.args[1])
      y == Value(c.args[2])
      r == c.ret
  IN  CASE c.op = "bool__QUES" -> r = Bool(x # 0)
        [] c.op = "eq__QUES" -> r = Bool(x = y)
        [] c.op = "hash_" -> r = [int |-> long_hash(new_longp(x))]
        [] c.op = "chr_" -> IF x \in 0..MAX_UNICODE - 1 THEN r = [char |-> x] ELSE "raises" \in DOMAIN r
        [] c.op \in {"str_", "string_init"} ->
             /\ Reading(r.text, r.base) = x
             /\ Len(r.text) > 1 => r.text[1] # 0
        [] c.op = "Literal" ->
             IF c.args[2] = <<>> \/ \E i \in DOMAIN c.args[2] : c.args[2][i] >= x
             THEN r = Raises("Lexical") ELSE IsInteger(r) /\ Value(r) = Reading(c.args[2], x)
        [] c.op \in {"floorDiv_", "mod_"} /\ y = 0 -> r = Raises("DivideZero")
        [] c.op \in {"rShift_", "lShift_"} /\ y < 0 -> r = Raises("Value")
        [] c.op = "pow_" /\ y < 0 -> r = AsFloat
        [] c.op = "rShift_" /\ y > 26 -> IsInteger(r) /\ Value(r) = IF x < 0 THEN -1 ELSE 0
        [] c.op = "lShift_" /\ y > 17 -> "raises" \in DOMAIN r \/ (IsInteger(r) /\ (x = 0 => Value(r) = 0))
        [] c.op = "next" -> r # Ends
        [] OTHER -> IsInteger(r) /\ Value(r) = Meaning(c.op, x, y)

(* Where the methods are known to be wrong (the README's findings name each). *)

Minimal(o) == o.imm /\ o.i = -2^(WORD - 1)
\* The sum of two immediates may leave the register: only sums of two limits take the long way.
SumWraps(c) ==
  /\ c.op = "add_" /\ bothImm(c.args[1], c.args[2]) /\ c.ret.imm
  /\ c.args[1].i + c.args[2].i \notin Int64
\* Immediates are divided towards zero, longs down.
CutsQuotient(c) ==
  /\ c.op \in {"floorDiv_", "mod_"} /\ bothImm(c.args[1], c.args[2])
  /\ \/ c.args[2].i # 0 /\ c.args[1].i % Abs(c.args[2].i) # 0 /\ (c.args[1].i < 0) # (c.args[2].i < 0)
     \/ Minimal(c.args[1]) /\ c.args[2].i = -1
\* An error of a long calculation is raised, and the NULL that comes with it followed.
FollowsNull(c) ==
  /\ c.ret = Ends
  /\ \/ c.op \in {"floorDiv_", "mod_"} /\ Value(c.args[2]) = 0
     \/ c.op \in {"rShift_", "lShift_"} /\ (Value(c.args[2]) < 0 \/ Value(c.args[2]) \notin Int32)
\* Shifts of immediates whose count the C language leaves undefined.
UndefinedShift(c) ==
  /\ c.op \in {"rShift_", "lShift_"} /\ bothImm(c.args[1], c.args[2])
  /\ c.args[1].i \in MIN32 + 1..MAX32 - 1
  /\ c.args[2].i < 0 \/ (c.args[2].i >= WORD /\ c.op = "rShift_")
\* abs of an i64_t is taken with the abs of C, for ints.
CutToInt(c) ==
  \/ c.op = "abs_" /\ c.args[1].imm /\ (c.args[1].i \notin Int32 \/ -c.args[1].i \notin Int32)
  \/ c.op = "chr_" /\ ~c.args[1].imm /\ Value(c.args[1]) \notin Int32 /\ "char" \in DOMAIN c.ret
MinimalHasNoNegative(c) ==
  Minimal(c.args[1]) /\ (c.op = "neg_" \/ (c.op = "str_" /\ c.ret.base = 10))
\* neg_ and abs_ of a long set the sign of the operand as well.
OperandChanges(c) ==
  c.op \in {"neg_", "abs_"} /\ ~c.args[1].imm /\ Value(c.args[1]) # Value(c.ret)
\* Karatsuba's split puts the padding alone in the high half; in a power, of any product.
EmptyHalf(c) ==
  LET n == smaller(Len(Operand(c.args[1]).dig), Len(Operand(c.args[2]).dig))
      m == larger(Len(Operand(c.args[1]).dig), Len(Operand(c.args[2]).dig))
  IN  \/ c.op = "mul_" /\ n + 1 > KARATSUBA_CUTOFF /\ n <= (m + 1) \div 2 /\ 2 * (n + 1) > m + 1
      \/ /\ c.op = "pow_" /\ c.ret = Ends
         /\ Len(new_longp(Value(c.args[1])^Value(c.args[2])).dig) > KARATSUBA_CUTOFF
NoCompare(c) == c.op = "next"
Known(c) ==
  \/ SumWraps(c) \/ CutsQuotient(c) \/ FollowsNull(c) \/ UndefinedShift(c) \/ CutToInt(c)
  \/ MinimalHasNoNegative(c) \/ OperandChanges(c) \/ EmptyHalf(c) \/ NoCompare(c)

--------------------------------------------------------------------------------
\* A long is normalised: no leading zero, all digits in 0..MASK, zero not negative (the
\* comment at builtins-int.c:123).
Normalized(l) == /\ \A i \in DOMAIN l.dig : l.dig[i] \in 0..MASK
                 /\ IF l.dig = <<>> THEN ~l.neg ELSE l.dig[Len(l.dig)] # 0
AllNormalized(c) == \A o \in {c.ret} \cup {c.after[i] : i \in DOMAIN c.after} :
                      "imm" \in DOMAIN o /\ ~o.imm => Normalized(o.l)

\* An operation gives the integer, the text or the exception that mathematics gives, whichever
\* of its ways it takes (registers, one digit, Karatsuba), leaves its operands as they were, and
\* makes only longs that are normalised, in all but the known cases, and in none of these: only
\* an undefined shift may be right by chance, and of a loop all that counts is that it does not
\* follow NULL.
Exact ==
  \/ call = None \/ UndefinedShift(call) \/ NoCompare(call)
  \/ Known(call) # (/\ Right(call) /\ call.after = call.args
                    /\ call.op = "Literal" \/ AllNormalized(call))

\* A loop over an integer comes to its end, over a negative one too, when the counter has
\* gone all the way round (IntGen.next).
LoopEnds == gen # None ~> gen = None
================================================================================
