---------------------------------- MODULE Ints ----------------------------------
(***************************************************************************)
(* The methods of Int (src/src/builtins-int.c from int2i32t on), the       *)
(* number literals of the lexer and String(number, base).                  *)
(*                                                                         *)
(* An integer is an immediate i64_t or a long.  A long is what a long      *)
(* calculation or an octal or hexadecimal literal made, however small its  *)
(* value.  Each method is an action: it takes operands, which the caller   *)
(* keeps, and leaves the result and the operands as they are then in call. *)
(* A generator that counts up to an integer is gen; meanwhile nothing else *)
(* is called, since calls share nothing with it.                           *)
(*                                                                         *)
(* div_ and powers with a negative exponent are done by Float: the result  *)
(* is then AsFloat.  The branches for operands of other types are left out.*)
(***************************************************************************)
EXTENDS LongInt, TLC

CONSTANTS
  Samples(_, _),  \* the operands tried as the nth of an operation
  Texts,          \* the number literals tried: [radix, chars]
  ShortLiteral,   \* a decimal literal of fewer characters is immediate (16)
  MAX_UNICODE,    \* the largest code of a character
  None

VARIABLES
  call,   \* the last operation: [op, args, after, ret]; None between operations
  gen     \* the counting generator: [self, limit]; None when there is none
vars == <<call, gen>>

MAX64 == 2^(WORD - 2) - 1
MAX32 == 2^(WORD \div 2 - 2) - 1
MIN64 == -MAX64
MIN32 == -MAX32

\* What a signed register of w bits makes of n.
Signed(n, w) == ((n + 2^(w - 1)) % 2^w) - 2^(w - 1)
AsInt64(n) == Signed(n, WORD)
AsInt32(n) == Signed(n, WORD \div 2)

Imm(n) == [imm |-> TRUE, i |-> AsInt64(n)]
LongObj(l) == [imm |-> FALSE, l |-> l]
Raises(exc) == [raises |-> exc]
\* The process ends: a failed pr_assert, a signal, a NULL that is followed.
Ends == [ends |-> TRUE]
AsFloat == [float |-> TRUE]
Bool(b) == [bool |-> b]

\* The value of an integer.
Value(o) == IF o.imm THEN o.i ELSE Number(o.l)

\* A new object for what a routine on longs made.
new_int_long_obj(l) == IF IsAborted(l) THEN Ends ELSE LongObj(long_normalize(l))
\* An operand for such a routine.
Operand(o) == IF o.imm THEN new_longp(o.i) ELSE o.l
bothImm(a, b) == a.imm /\ b.imm
binary(Op(_, _), a, b) == new_int_long_obj(Op(Operand(a), Operand(b)))

longp2int64(l) == LET n == Number(l) IN IF n \in -2^(WORD - 1)..2^(WORD - 1) - 1 THEN n ELSE -1
\* The loop looks for bits lost from an i64_t and then cuts down to an i32_t.
longp2int32(l) ==
  LET x == ValueOf(l.dig)
  IN  IF x >= 2^WORD \/ AsInt32(x) < 0 THEN Raises("Overflow")
      ELSE [int |-> AsInt32(AsInt32(x) * IF l.neg THEN -1 ELSE 1)]
int2i32t(o) ==
  IF ~o.imm THEN longp2int32(o.l)
  ELSE IF o.i \in -2^(WORD \div 2 - 1)..2^(WORD \div 2 - 1) - 1 THEN [int |-> o.i]
  ELSE Raises("Overflow")

long_hash(l) ==
  LET h[i \in 0..Len(l.dig)] ==
        IF i = Len(l.dig) THEN 0
        ELSE LET x   == h[i + 1]
                 rot == ((x * BASE) % 2^WORD) + ((x \div 2^(WORD - SHIFT)) % BASE)
             IN  (rot + l.dig[i + 1]) % 2^WORD
      x == AsInt64(h[0] * IF l.neg THEN -1 ELSE 1)
  IN  IF x = -1 THEN -2 ELSE x

--------------------------------------------------------------------------------
(* The methods. *)

\* Int(a)
init_(a) == IF a.imm THEN a ELSE LongObj(copy_longp(a.l, 0))
abs_(a) == IF a.imm THEN Imm(AsInt32(Abs(AsInt32(a.i)))) ELSE LongObj(Long(FALSE, a.l.dig))
neg_(a) == IF a.imm THEN Imm(-a.i) ELSE LongObj(Negate(a.l))
invert_(a) == IF a.imm THEN Imm(-a.i - 1) ELSE new_int_long_obj(long_invert(a.l))

add_(a, b) ==
  IF bothImm(a, b) /\ (a.i < MAX64 \/ b.i < MAX64) /\ (a.i > MIN64 \/ b.i > MIN64)
  THEN Imm(a.i + b.i) ELSE binary(long_add, a, b)
sub_(a, b) ==
  IF bothImm(a, b) /\ \A n \in {a.i, b.i} : n \in MIN64 + 1..MAX64 - 1
  THEN Imm(a.i - b.i) ELSE binary(long_sub, a, b)
mul_(a, b) ==
  IF bothImm(a, b) /\ \A n \in {a.i, b.i} : n \in MIN32 + 1..MAX32 - 1
  THEN Imm(a.i * b.i) ELSE binary(long_mul, a, b)

\* The quotient of two registers, cut towards zero.
Cut(n, d) == (IF (n < 0) = (d < 0) THEN 1 ELSE -1) * (Abs(n) \div Abs(d))
divided(Op(_, _), LongOp(_, _), a, b) ==
  IF bothImm(a, b)
  THEN IF b.i = 0 THEN Raises("DivideZero")
       ELSE IF a.i = -2^(WORD - 1) /\ b.i = -1 THEN Ends     \* the processor's trap
       ELSE Imm(Op(a.i, b.i))
  \* long_divrem raises and the callers hand a NULL on
  ELSE IF Operand(b).dig = <<>> THEN Ends ELSE binary(LongOp, a, b)
floorDiv_(a, b) == divided(Cut, long_div, a, b)
mod_(a, b) == LET rem(n, d) == n - d * Cut(n, d) IN divided(rem, long_mod, a, b)

pow_(a, b) ==
  IF Value(b) < 0 THEN AsFloat ELSE IF Value(b) = 0 THEN Imm(1) ELSE binary(long_pow, a, b)

\* The build's processor takes the count modulo the width.
rShift_(a, b) ==
  LET n == longp2int64(Operand(b))
  IN  IF bothImm(a, b) /\ a.i \in MIN32 + 1..MAX32 - 1 /\ b.i > -(WORD \div 2)
      THEN Imm(a.i \div 2^(b.i % WORD))
      ELSE IF n < 0 THEN Ends ELSE new_int_long_obj(long_rshift(Operand(a), n))
lShift_(a, b) ==
  LET n == longp2int64(Operand(b))
  IN  IF bothImm(a, b) /\ a.i \in MIN32 + 1..MAX32 - 1 /\ b.i < WORD \div 2
      THEN Imm(a.i * 2^(b.i % WORD))
      ELSE IF n < 0 \/ AsInt32(n) # n THEN Ends ELSE new_int_long_obj(long_lshift(Operand(a), n))

\* The bits of two registers.
Bitwise64(Op(_, _), n, m) == Imm(Op(n % 2^WORD, m % 2^WORD))
bitwise(Op(_, _), sign, a, b) ==
  IF bothImm(a, b) THEN Bitwise64(Op, a.i, b.i)
  ELSE new_int_long_obj(long_bitwise(Operand(a), sign, Operand(b)))
and_(a, b) == bitwise(LAMBDA n, m : n & m, "&", a, b)
or_(a, b) == bitwise(LAMBDA n, m : n | m, "|", a, b)
xor_(a, b) == bitwise(LAMBDA n, m : n ^^ m, "^", a, b)

cmp_(a, b) ==
  Imm(IF ~bothImm(a, b) THEN long_compare(Operand(a), Operand(b))
      ELSE IF a.i = b.i THEN 0 ELSE IF a.i > b.i THEN 1 ELSE -1)
eq__QUES(a, b) ==
  Bool(IF bothImm(a, b) THEN a.i = b.i ELSE long_compare(Operand(a), Operand(b)) = 0)
bool__QUES(a) == Bool(IF a.imm THEN a.i # 0 ELSE a.l.dig # <<>>)
hash_(a) == [int |-> long_hash(Operand(a))]

chr_ch3(a) ==
  LET n == int2i32t(a)
  IN  IF "raises" \in DOMAIN n THEN n
      ELSE IF n.int < 0 \/ n.int >= MAX_UNICODE THEN Raises("Value") ELSE [char |-> n.int]

\* str_ without its field: spec is the base.  Octal goes over a long, the rest to snprintf,
\* decimal signed after the sign was taken off, hexadecimal unsigned.
str_(a, base) ==
  LET val  == IF a.i < 0 THEN AsInt64(-a.i) ELSE a.i
      body == IF base = 10 THEN (IF val < 0 THEN <<Minus>> ELSE <<>>) \o Reversed(DigitsOf(Abs(val), 10))
              ELSE Reversed(DigitsOf(val % 2^WORD, base))
      imm  == (IF a.i < 0 THEN <<Minus>> ELSE <<>>) \o IF a.i = 0 THEN <<0>> ELSE body
  IN  [text |-> IF a.imm /\ base # 8 THEN imm ELSE long_format(Operand(a), base)]
\* String(number, base)
string_init(a, base) == [text |-> long_format(Operand(a), base)]

\* The lexer: 0x and 0o stand before the characters of a long.
Literal(radix, chars) ==
  LET z == cstr2longp(chars, radix)
  IN  IF radix = 10 /\ Len(chars) < ShortLiteral
      THEN Imm(Number(MulAdd(Long(FALSE, <<>>), chars, 10)))
      ELSE IF z.ok THEN new_int_long_obj(z.z) ELSE Raises("Lexical")

\* copy_object does not copy the data of a long: the method's result and the operand share
\* it, and the sign the method sets is in the data.
Shares(op, a) == op \in {"abs_", "neg_"} /\ ~a.imm

--------------------------------------------------------------------------------
(* The steps of a program that calls them. *)

Return(op, args, ret) ==
  /\ call' = [op |-> op, args |-> args, ret |-> ret,
              after |-> IF Shares(op, args[1]) THEN <<ret>> ELSE args]
  /\ UNCHANGED gen

idle == call = None /\ gen = None
Unary(op, Op(_)) == idle /\ \E a \in Samples(op, 1) : Return(op, <<a>>, Op(a))
Binary(op, Op(_, _)) ==
  idle /\ \E a \in Samples(op, 1), b \in Samples(op, 2) : Return(op, <<a, b>>, Op(a, b))

CallAbs == Unary("abs_", abs_)
CallNeg == Unary("neg_", neg_)
CallInvert == Unary("invert_", invert_)
CallBool == Unary("bool__QUES", bool__QUES)
CallHash == Unary("hash_", hash_)
CallChr == Unary("chr_", chr_ch3)
CallInit == Unary("init_", init_)
CallPos == Unary("pos_", LAMBDA a : a)
CallAdd == Binary("add_", add_)
CallSub == Binary("sub_", sub_)
CallMul == Binary("mul_", mul_)
CallFloorDiv == Binary("floorDiv_", floorDiv_)
CallMod == Binary("mod_", mod_)
CallPow == Binary("pow_", pow_)
CallRShift == Binary("rShift_", rShift_)
CallLShift == Binary("lShift_", lShift_)
CallAnd == Binary("and_", and_)
CallOr == Binary("or_", or_)
CallXor == Binary("xor_", xor_)
CallCmp == Binary("cmp_", cmp_)
CallEq == Binary("eq__QUES", eq__QUES)
CallStr == idle /\ \E base \in {8, 10, 16} : Unary("str_", LAMBDA a : str_(a, base) @@ [base |-> base])
CallString == idle /\ \E base \in 2..BASE : Unary("string_init", LAMBDA a : string_init(a, base) @@ [base |-> base])
ReadLiteral ==
  idle /\ \E t \in Texts : Return("Literal", <<Imm(t.radix), t.chars>>, Literal(t.radix, t.chars))
EndCall == call # None /\ call' = None /\ UNCHANGED gen

\* iter_ starts a generator at 0; next compares it with its limit and counts on.  For a limit
\* that is a long it calls cmp_ of the generator, which has none, and follows the NULL.
iter_ ==
  /\ idle
  /\ \E a \in Samples("iter_", 1) : gen' = [self |-> 0, limit |-> a]
  /\ UNCHANGED call
\* Mutant: the other method is called, as the branch for longs does (cmp_ for add_).
nextStays ==
  /\ call = None /\ gen # None /\ gen.limit.imm
  /\ gen' = IF gen.self = gen.limit.i THEN None ELSE gen
  /\ UNCHANGED call
next ==
  /\ call = None /\ gen # None /\ gen.limit.imm
  /\ gen' = IF gen.self = gen.limit.i THEN None ELSE [gen EXCEPT !.self = AsInt64(@ + 1)]
  /\ UNCHANGED call
nextLong ==
  /\ gen # None /\ ~gen.limit.imm
  /\ gen' = None
  /\ call' = [op |-> "next", args |-> <<gen.limit>>, after |-> <<gen.limit>>, ret |-> Ends]

Init == call = None /\ gen = None
Next ==
  \/ CallAbs \/ CallNeg \/ CallInvert \/ CallBool \/ CallHash \/ CallChr \/ CallPos \/ CallInit
  \/ CallAdd \/ CallSub \/ CallMul \/ CallFloorDiv \/ CallMod \/ CallPow
  \/ CallRShift \/ CallLShift \/ CallAnd \/ CallOr \/ CallXor \/ CallCmp \/ CallEq
  \/ CallStr \/ CallString \/ ReadLiteral \/ EndCall
  \/ iter_ \/ next \/ nextLong
Spec == Init /\ [][Next]_vars /\ WF_vars(next) /\ WF_vars(nextLong) /\ WF_vars(EndCall)
================================================================================
