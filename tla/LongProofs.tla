------------------------------- MODULE LongProofs -------------------------------
(***************************************************************************)
(* What the routines of LongDigits compute, for digits of any width and    *)
(* vectors of any length: values are compared digit by digit from the most *)
(* significant end, which needs no powers of the base.                     *)
(***************************************************************************)
EXTENDS LongDigits, NatLemmas, SequenceTheorems

Digit == 0 .. BASE - 1
Digits == Seq(Digit)
Longs == [neg : BOOLEAN, dig : Digits]

\* No leading zero, and zero is not negative.
Normal(x) ==
  /\ x \in Longs
  /\ IF x.dig = <<>> THEN ~x.neg ELSE x.dig[Len(x.dig)] # 0

\* A vector with zeros up to the length n.
Padded(dig, n) == [i \in 1..n |-> At(dig, i)]

-----------------------------------------------------------------------------
(* Vectors as functions *)

\* The base as the provers need it.
LEMMA BaseFacts == BASE \in Nat \ {0} /\ BASE >= 2 /\ BASE \in Int
BY BaseAssumption

\* A sequence is a function on its positions.
LEMMA AsFunction ==
  ASSUME NEW S, NEW s \in Seq(S)
  PROVE  Len(s) \in Nat /\ s \in [1 .. Len(s) -> S] /\ DOMAIN s = 1 .. Len(s)
BY LenProperties

\* A function on 1 .. m is a sequence of length m.
LEMMA AsSequence ==
  ASSUME NEW S, NEW m \in Nat, NEW s \in [1 .. m -> S]
  PROVE  s \in Seq(S) /\ Len(s) = m /\ DOMAIN s = 1 .. m
<1>1. s \in Seq(S)
  BY SeqDef
<1>2. 1 .. Len(s) = 1 .. m /\ Len(s) \in Nat
  BY <1>1, LenProperties
<1>3. Len(s) = m
  <2>1. CASE m = 0
    BY <1>2, <2>1
  <2>2. CASE m > 0
    BY <1>2, <2>2
  <2> QED
    BY <2>1, <2>2
<1> QED
  BY <1>1, <1>3

\* A function that m steps of G make from s0, and those steps.
Iterates(V, s0, m, G) ==
  \E f \in [0 .. m -> V] : f[0] = s0 /\ \A i \in 1 .. m : f[i] = G[i][f[i - 1]]
Steps(V, m) == [1 .. m -> [V -> V]]

\* An iteration of m steps from s0 exists.
LEMMA Iterated == \A V, s0, m, G : s0 \in V /\ m \in Nat /\ G \in Steps(V, m) => Iterates(V, s0, m, G)
BY Iteration DEF Iterates, Steps

\* Two functions on 0 .. m that begin alike and go on alike.
Alike(m, f, g) ==
  /\ g = [k \in 0 .. m |-> g[k]] /\ f = [k \in 0 .. m |-> f[k]] /\ g[0] = f[0]
  /\ \A k \in 1 .. m : g[k - 1] = f[k - 1] => g[k] = f[k]
\* Two functions that begin alike and go on alike are one function.
LEMMA SameIteration ==
  ASSUME NEW m \in Nat, NEW f, NEW g, Alike(m, f, g)
  PROVE  g = f
<1> DEFINE S == {k \in 0 .. m : g[k] = f[k]}
<1>1. 0 \in S
  BY DEF Alike
<1>2. ASSUME NEW k \in 0 .. m - 1, k \in S PROVE k + 1 \in S
  <2>1. k + 1 \in 1 .. m /\ (k + 1) - 1 = k /\ k + 1 \in 0 .. m
    OBVIOUS
  <2>2. g[(k + 1) - 1] = f[(k + 1) - 1] => g[k + 1] = f[k + 1]
    BY <2>1 DEF Alike
  <2>3. g[k] = f[k]
    BY <1>2
  <2>4. g[k + 1] = f[k + 1]
    BY <2>1, <2>2, <2>3
  <2> QED
    BY <2>1, <2>4
<1> HIDE DEF S
<1>3. 0 .. m \subseteq S
  BY <1>1, <1>2, UpTo
<1>4. \A k \in 0 .. m : g[k] = f[k]
  BY <1>3 DEF S
<1> QED
  BY <1>4 DEF Alike

\* Tops is the function its equation describes, on integer digits of any number.
LEMMA TopsIs ==
  ASSUME NEW m \in Nat, NEW d \in [1 .. m -> Int]
  PROVE  /\ Tops(d) \in [0 .. m -> Int]
         /\ Tops(d)[0] = 0
         /\ \A k \in 1 .. m : Tops(d)[k] = Tops(d)[k - 1] * BASE + d[m + 1 - k]
         /\ ValueOf(d) = Tops(d)[m]
<1>0. Len(d) = m
  BY AsSequence
<1> DEFINE G == [i \in 1 .. m |-> [x \in Int |-> x * BASE + d[m + 1 - i]]]
           Top(f) == f = [k \in 0 .. Len(d) |->
                            IF k = 0 THEN 0 ELSE f[k - 1] * BASE + d[Len(d) + 1 - k]]
<1>1. /\ G \in Steps(Int, m)
      /\ \A i \in 1 .. m, x \in Int : G[i][x] = x * BASE + d[m + 1 - i]
  <2>1. \A i \in 1 .. m : d[m + 1 - i] \in Int
    OBVIOUS
  <2> QED
    BY <2>1, BaseFacts DEF Steps
<1> HIDE DEF G
<1>2. Iterates(Int, 0, m, G)
  <2>1. 0 \in Int /\ m \in Nat
    OBVIOUS
  <2> QED
    BY <1>1, <2>1, Iterated
<1>3. PICK f \in [0 .. m -> Int] : f[0] = 0 /\ \A i \in 1 .. m : f[i] = G[i][f[i - 1]]
  BY <1>2 DEF Iterates
<1>4. \A i \in 1 .. m : f[i] = f[i - 1] * BASE + d[m + 1 - i]
  <2>1. \A i \in 1 .. m : f[i - 1] \in Int
    OBVIOUS
  <2> QED
    BY <1>1, <1>3, <2>1
<1>5. Top(f)
  BY <1>0, <1>3, <1>4
<1>6. Top(Tops(d))
  BY <1>5 DEF Tops
<1> DEFINE g == Tops(d)
<1>7. g = [k \in 0 .. m |-> IF k = 0 THEN 0 ELSE g[k - 1] * BASE + d[m + 1 - k]]
  BY <1>0, <1>6
<1> HIDE DEF g, Top
<1>8. g[0] = 0 /\ \A k \in 1 .. m : g[k] = g[k - 1] * BASE + d[m + 1 - k]
  BY <1>7
<1>9. Alike(m, f, g)
  <2>1. f = [k \in 0 .. m |-> f[k]]
    OBVIOUS
  <2>2. g = [k \in 0 .. m |-> g[k]]
    BY <1>7
  <2>3. g[0] = f[0] /\ \A k \in 1 .. m : g[k - 1] = f[k - 1] => g[k] = f[k]
    BY <1>3, <1>4, <1>8
  <2> QED
    BY <2>1, <2>2, <2>3 DEF Alike
<1>10. g = f
  BY <1>9, SameIteration
<1> QED
  BY <1>0, <1>8, <1>10 DEF ValueOf, g

\* Carries is the function its equation describes: what v_iadd and muladd1 keep in carry.
LEMMA CarriesIs ==
  ASSUME NEW m \in Nat, NEW t \in [1 .. m -> Int], NEW carry \in Int
  PROVE  LET c == Carries(t, carry)
         IN  /\ c \in [0 .. m -> Int] /\ c[0] = carry
             /\ \A k \in 1 .. m : c[k] = (c[k - 1] + t[k]) \div BASE
<1>0. Len(t) = m
  BY AsSequence
<1> DEFINE G == [i \in 1 .. m |-> [x \in Int |-> (x + t[i]) \div BASE]]
           Car(f) == f = [k \in 0 .. Len(t) |->
                            IF k = 0 THEN carry ELSE (f[k - 1] + t[k]) \div BASE]
<1>1. /\ G \in Steps(Int, m)
      /\ \A i \in 1 .. m, x \in Int : G[i][x] = (x + t[i]) \div BASE
  <2>1. \A i \in 1 .. m, x \in Int : x + t[i] \in Int
    OBVIOUS
  <2>2. \A y \in Int : y \div BASE \in Int
    BY BaseFacts
  <2> QED
    BY <2>1, <2>2 DEF Steps
<1> HIDE DEF G
<1>2. Iterates(Int, carry, m, G)
  BY <1>1, Iterated
<1>3. PICK f \in [0 .. m -> Int] : f[0] = carry /\ \A i \in 1 .. m : f[i] = G[i][f[i - 1]]
  BY <1>2 DEF Iterates
<1>4. \A i \in 1 .. m : f[i] = (f[i - 1] + t[i]) \div BASE
  <2>1. \A i \in 1 .. m : f[i - 1] \in Int
    OBVIOUS
  <2> QED
    BY <1>1, <1>3, <2>1
<1>5. Car(f)
  BY <1>0, <1>3, <1>4
<1>6. Car(Carries(t, carry))
  BY <1>5 DEF Carries
<1> DEFINE g == Carries(t, carry)
<1>7. g = [k \in 0 .. m |-> IF k = 0 THEN carry ELSE (g[k - 1] + t[k]) \div BASE]
  BY <1>0, <1>6
<1> HIDE DEF g, Car
<1>8. g[0] = carry /\ \A k \in 1 .. m : g[k] = (g[k - 1] + t[k]) \div BASE
  BY <1>7
<1>9. Alike(m, f, g)
  <2>1. f = [k \in 0 .. m |-> f[k]]
    OBVIOUS
  <2>2. g = [k \in 0 .. m |-> g[k]]
    BY <1>7
  <2>3. g[0] = f[0] /\ \A k \in 1 .. m : g[k - 1] = f[k - 1] => g[k] = f[k]
    BY <1>3, <1>4, <1>8
  <2> QED
    BY <2>1, <2>2, <2>3 DEF Alike
<1>10. g = f
  BY <1>9, SameIteration
<1> QED
  BY <1>8, <1>10 DEF g

\* Remainders is the function its equation describes: what inplace_divrem1 keeps in rem.
LEMMA RemaindersIs ==
  ASSUME NEW m \in Nat, NEW d \in [1 .. m -> Nat], NEW n \in Nat \ {0}
  PROVE  LET r == Remainders(d, n)
         IN  /\ r \in [0 .. m -> 0 .. n - 1] /\ r[0] = 0
             /\ \A k \in 1 .. m : r[k] = (r[k - 1] * BASE + d[m + 1 - k]) % n
<1>0. Len(d) = m
  BY AsSequence
<1> DEFINE G == [i \in 1 .. m |-> [x \in 0 .. n - 1 |-> (x * BASE + d[m + 1 - i]) % n]]
           Rem(f) == f = [k \in 0 .. Len(d) |->
                            IF k = 0 THEN 0 ELSE (f[k - 1] * BASE + d[Len(d) + 1 - k]) % n]
<1>1. /\ G \in Steps(0 .. n - 1, m)
      /\ \A i \in 1 .. m, x \in 0 .. n - 1 : G[i][x] = (x * BASE + d[m + 1 - i]) % n
  <2>1. \A i \in 1 .. m, x \in 0 .. n - 1 : x * BASE + d[m + 1 - i] \in Int
    BY BaseFacts
  <2>2. \A y \in Int : y % n \in 0 .. n - 1
    OBVIOUS
  <2> QED
    BY <2>1, <2>2 DEF Steps
<1> HIDE DEF G
<1>2. Iterates(0 .. n - 1, 0, m, G)
  <2>1. 0 \in 0 .. n - 1 /\ m \in Nat
    OBVIOUS
  <2> QED
    BY <1>1, <2>1, Iterated
<1>3. PICK f \in [0 .. m -> 0 .. n - 1] : f[0] = 0 /\ \A i \in 1 .. m : f[i] = G[i][f[i - 1]]
  BY <1>2 DEF Iterates
<1>4. \A i \in 1 .. m : f[i] = (f[i - 1] * BASE + d[m + 1 - i]) % n
  <2>1. \A i \in 1 .. m : f[i - 1] \in 0 .. n - 1
    OBVIOUS
  <2> QED
    BY <1>1, <1>3, <2>1
<1>5. Rem(f)
  BY <1>0, <1>3, <1>4
<1>6. Rem(Remainders(d, n))
  BY <1>5 DEF Remainders
<1> DEFINE g == Remainders(d, n)
<1>7. g = [k \in 0 .. m |-> IF k = 0 THEN 0 ELSE (g[k - 1] * BASE + d[m + 1 - k]) % n]
  BY <1>0, <1>6
<1> HIDE DEF g, Rem
<1>8. g[0] = 0 /\ \A k \in 1 .. m : g[k] = (g[k - 1] * BASE + d[m + 1 - k]) % n
  BY <1>7
<1>9. Alike(m, f, g)
  <2>1. f = [k \in 0 .. m |-> f[k]]
    OBVIOUS
  <2>2. g = [k \in 0 .. m |-> g[k]]
    BY <1>7
  <2>3. g[0] = f[0] /\ \A k \in 1 .. m : g[k - 1] = f[k - 1] => g[k] = f[k]
    BY <1>3, <1>4, <1>8
  <2> QED
    BY <2>1, <2>2, <2>3 DEF Alike
<1>10. g = f
  BY <1>9, SameIteration
<1> QED
  BY <1>8, <1>10 DEF g

\* What Ripple makes of the terms: a digit and a carry at each place.
Digested(m, t, carry) ==
  LET r == Ripple(t, carry)
      c == Carries(t, carry)
  IN  /\ r.dig \in [1 .. m -> Digit] /\ r.carry = c[m] /\ c[m] \in Int
      /\ \A k \in 1 .. m : c[k - 1] + t[k] = c[k] * BASE + r.dig[k]
\* A term and the carry into its place are the digit left there and the carry out of it.
LEMMA RippleIs ==
  ASSUME NEW m \in Nat, NEW t \in [1 .. m -> Int], NEW carry \in Int
  PROVE  Digested(m, t, carry)
<1> DEFINE c == Carries(t, carry)
           r == Ripple(t, carry)
<1>0. Len(t) = m
  BY AsSequence
<1>1. c \in [0 .. m -> Int] /\ \A k \in 1 .. m : c[k] = (c[k - 1] + t[k]) \div BASE
  BY CarriesIs
<1>2. r.dig = [k \in 1 .. m |-> (c[k - 1] + t[k]) % BASE] /\ r.carry = c[m]
  BY <1>0 DEF Ripple
<1> HIDE DEF c, r
<1>3. \A k \in 1 .. m : c[k - 1] + t[k] \in Int /\ c[k] \in Int
  BY <1>1
<1>4. \A y \in Int : y % BASE \in Digit /\ y = (y \div BASE) * BASE + (y % BASE)
  BY BaseFacts, DivMod, ModRange DEF Digit
<1>5. r.dig \in [1 .. m -> Digit]
  BY <1>2, <1>3, <1>4
<1>6. \A k \in 1 .. m : c[k - 1] + t[k] = c[k] * BASE + r.dig[k]
  <2> TAKE k \in 1 .. m
  <2> DEFINE y == c[k - 1] + t[k]
  <2>1. y \in Int /\ c[k] = y \div BASE /\ r.dig[k] = y % BASE
    BY <1>1, <1>2, <1>3
  <2> HIDE DEF y
  <2>2. y = (y \div BASE) * BASE + (y % BASE)
    BY <1>4, <2>1
  <2>3. y = c[k] * BASE + r.dig[k]
    BY <2>1, <2>2
  <2> QED
    BY <2>3 DEF y
<1>7. c[m] \in Int
  BY <1>1
<1> QED
  BY <1>2, <1>5, <1>6, <1>7 DEF c, r, Digested

-----------------------------------------------------------------------------
(* Values *)

\* x is y with leading zeros.
Extended(m, n, x, y) ==
  /\ m \in Nat /\ n \in 0 .. m /\ x \in [1 .. m -> Int] /\ y \in [1 .. n -> Int]
  /\ \A i \in 1 .. n : x[i] = y[i]
  /\ \A i \in n + 1 .. m : x[i] = 0
\* Leading zeros count for nothing.
LEMMA Aligned ==
  ASSUME NEW m, NEW n, NEW x, NEW y, Extended(m, n, x, y)
  PROVE  ValueOf(x) = ValueOf(y)
<1> DEFINE p == Tops(x)
           q == Tops(y)
           S == {k \in 0 .. m - n : p[k] = 0}
           T == {k \in 0 .. n : p[(m - n) + k] = q[k]}
<1>a. /\ m \in Nat /\ n \in 0 .. m /\ x \in [1 .. m -> Int] /\ y \in [1 .. n -> Int]
      /\ \A i \in 1 .. n : x[i] = y[i]
      /\ \A i \in n + 1 .. m : x[i] = 0
  BY DEF Extended
<1>0. n \in Nat /\ m - n \in Nat
  BY <1>a
<1>1. /\ p \in [0 .. m -> Int] /\ p[0] = 0 /\ ValueOf(x) = p[m]
      /\ \A k \in 1 .. m : p[k] = p[k - 1] * BASE + x[m + 1 - k]
  BY <1>a, TopsIs
<1>2. /\ q \in [0 .. n -> Int] /\ q[0] = 0 /\ ValueOf(y) = q[n]
      /\ \A k \in 1 .. n : q[k] = q[k - 1] * BASE + y[n + 1 - k]
  BY <1>0, <1>a, TopsIs
<1> HIDE DEF p, q
<1>3. 0 \in S
  BY <1>0, <1>1
<1>4. ASSUME NEW k \in 0 .. (m - n) - 1, k \in S PROVE k + 1 \in S
  <2>1. k + 1 \in 1 .. m /\ (k + 1) - 1 = k /\ m + 1 - (k + 1) \in n + 1 .. m
    BY <1>a
  <2>2. p[k + 1] = p[(k + 1) - 1] * BASE + x[m + 1 - (k + 1)]
    BY <1>1, <2>1
  <2>3. p[k + 1] = 0 * BASE + 0
    BY <1>4, <1>a, <2>1, <2>2
  <2> QED
    BY <1>0, <2>3, BaseFacts
<1> HIDE DEF S
<1>5. p[m - n] = 0
  <2>1. 0 .. (m - n) \subseteq S
    BY <1>0, <1>3, <1>4, UpTo
  <2> QED
    BY <1>0, <2>1 DEF S
<1>6. 0 \in T
  BY <1>0, <1>2, <1>5
<1>7. ASSUME NEW k \in 0 .. n - 1, k \in T PROVE k + 1 \in T
  <2> DEFINE j == (m - n) + (k + 1)
  <2>1. /\ j \in 1 .. m /\ j - 1 = (m - n) + k /\ m + 1 - j = n - k /\ k + 1 \in 1 .. n
        /\ n - k \in 1 .. n /\ (k + 1) - 1 = k /\ n + 1 - (k + 1) = n - k
    BY <1>a
  <2>2. p[j] = p[j - 1] * BASE + x[m + 1 - j]
    BY <1>1, <2>1
  <2>3. q[k + 1] = q[(k + 1) - 1] * BASE + y[n + 1 - (k + 1)]
    BY <1>2, <2>1
  <2>4. p[j] = q[k + 1]
    BY <1>7, <1>a, <2>1, <2>2, <2>3
  <2> QED
    BY <2>1, <2>4
<1> HIDE DEF T
<1>8. 0 .. n \subseteq T
  BY <1>0, <1>6, <1>7, UpTo
<1>9. n \in T /\ (m - n) + n = m
  BY <1>0, <1>8, <1>a
<1> QED
  BY <1>1, <1>2, <1>9 DEF T

\* Products of integers, as the steps below need them.
LEMMA Times ==
  ASSUME NEW a \in Int, NEW b \in Int, NEW c \in Int
  PROVE  /\ a * b \in Int /\ (a + b) * c = a * c + b * c /\ (a * b) * c = a * (b * c)
         /\ a * (b + c) = a * b + a * c /\ a * b = b * a
OBVIOUS

\* One more digit of a sum with a multiple, and of a vector with carries.
StepOfSum(s, t, p, q, x, y, f) ==
  s = p + f * q /\ t = x + f * y => s * BASE + t = (p * BASE + x) + f * (q * BASE + y)
\* Adding a multiple goes digit by digit.
LEMMA SumSteps == \A s, t, p, q, x, y, f \in Int : StepOfSum(s, t, p, q, x, y, f)
<1>1. BASE \in Int
  BY BaseFacts
<1> QED
  BY <1>1 DEF StepOfSum

StepOfCarry(s, p, c, d, b, t) ==
  s = p + c /\ b + t = c * BASE + d => s * BASE + d = (p * BASE + t) + b
\* Moving a carry up one place keeps the value.
LEMMA CarrySteps == \A s, p, c, d, b, t \in Int : StepOfCarry(s, p, c, d, b, t)
<1>1. BASE \in Int
  BY BaseFacts
<1> QED
  BY <1>1 DEF StepOfCarry

\* The value of a sum, a difference or a multiple, digit by digit.
LEMMA Linear ==
  ASSUME NEW m \in Nat, NEW f \in Int,
         NEW x \in [1 .. m -> Int], NEW y \in [1 .. m -> Int], NEW t \in [1 .. m -> Int],
         \A i \in 1 .. m : t[i] = x[i] + f * y[i]
  PROVE  \A k \in 0 .. m : Tops(t)[k] = Tops(x)[k] + f * Tops(y)[k]
<1> DEFINE p == Tops(x)
           q == Tops(y)
           s == Tops(t)
           S == {k \in 0 .. m : s[k] = p[k] + f * q[k]}
<1>1. /\ p \in [0 .. m -> Int] /\ p[0] = 0
      /\ \A k \in 1 .. m : p[k] = p[k - 1] * BASE + x[m + 1 - k]
  BY TopsIs
<1>2. /\ q \in [0 .. m -> Int] /\ q[0] = 0
      /\ \A k \in 1 .. m : q[k] = q[k - 1] * BASE + y[m + 1 - k]
  BY TopsIs
<1>3. /\ s \in [0 .. m -> Int] /\ s[0] = 0
      /\ \A k \in 1 .. m : s[k] = s[k - 1] * BASE + t[m + 1 - k]
  BY TopsIs
<1> HIDE DEF p, q, s
<1>4. 0 \in S
  BY <1>1, <1>2, <1>3
<1>5. ASSUME NEW k \in 0 .. m - 1, k \in S PROVE k + 1 \in S
  <2> DEFINE i == m - k
  <2>1. k + 1 \in 1 .. m /\ (k + 1) - 1 = k /\ m + 1 - (k + 1) = i /\ i \in 1 .. m
    OBVIOUS
  <2> HIDE DEF i
  <2>2. /\ p[k + 1] = p[k] * BASE + x[i] /\ q[k + 1] = q[k] * BASE + y[i]
        /\ s[k + 1] = s[k] * BASE + t[i]
    BY <1>1, <1>2, <1>3, <2>1
  <2>3. /\ p[k] \in Int /\ q[k] \in Int /\ s[k] \in Int /\ x[i] \in Int /\ y[i] \in Int /\ t[i] \in Int
        /\ s[k] = p[k] + f * q[k] /\ t[i] = x[i] + f * y[i]
    BY <1>1, <1>2, <1>3, <1>5, <2>1
  <2>4. StepOfSum(s[k], t[i], p[k], q[k], x[i], y[i], f)
    BY <2>3, SumSteps
  <2>5. s[k + 1] = p[k + 1] + f * q[k + 1]
    BY <2>2, <2>3, <2>4 DEF StepOfSum
  <2> QED
    BY <2>1, <2>5
<1> HIDE DEF S
<1>6. 0 .. m \subseteq S
  BY <1>4, <1>5, UpTo
<1> QED
  BY <1>6 DEF S, p, q, s

\* The digits that Ripple leaves, with the last carry as the most significant one.
Rippled(m, t, carry, z) ==
  /\ z \in [1 .. m + 1 -> Int]
  /\ \A i \in 1 .. m : z[i] = Ripple(t, carry).dig[i]
  /\ z[m + 1] = Ripple(t, carry).carry
\* The digits that Ripple leaves, with its last carry, are worth the terms and the first carry.
LEMMA RippleValue ==
  ASSUME NEW m \in Nat, NEW t \in [1 .. m -> Int], NEW carry \in Int, NEW z, Rippled(m, t, carry, z)
  PROVE  ValueOf(z) = ValueOf(t) + carry
<1> DEFINE c == Carries(t, carry)
           r == Ripple(t, carry)
           p == Tops(t)
           s == Tops(z)
           S == {k \in 0 .. m : s[k + 1] = p[k] + c[m - k]}
<1>0. m + 1 \in Nat /\ z \in [1 .. m + 1 -> Int]
  BY DEF Rippled
<1>1. /\ p \in [0 .. m -> Int] /\ p[0] = 0 /\ ValueOf(t) = p[m]
      /\ \A k \in 1 .. m : p[k] = p[k - 1] * BASE + t[m + 1 - k]
  BY TopsIs
<1>2. /\ s \in [0 .. m + 1 -> Int] /\ s[0] = 0 /\ ValueOf(z) = s[m + 1]
      /\ \A k \in 1 .. m + 1 : s[k] = s[k - 1] * BASE + z[(m + 1) + 1 - k]
  BY <1>0, TopsIs
<1>3. /\ r.dig \in [1 .. m -> Digit] /\ r.carry = c[m]
      /\ \A k \in 1 .. m : c[k - 1] + t[k] = c[k] * BASE + r.dig[k]
  BY RippleIs DEF Digested
<1>4. c \in [0 .. m -> Int] /\ c[0] = carry
  BY CarriesIs
<1> HIDE DEF p, s, c, r
<1>5. 0 \in S
  <2>1. 1 \in 1 .. m + 1 /\ 1 - 1 = 0 /\ (m + 1) + 1 - 1 = m + 1
    OBVIOUS
  <2>2. s[1] = s[1 - 1] * BASE + z[(m + 1) + 1 - 1]
    BY <1>2, <2>1
  <2>3. z[m + 1] = c[m] /\ c[m] \in Int
    BY <1>3, <1>4 DEF r, Rippled
  <2>4. s[1] = c[m]
    BY <1>2, <2>1, <2>2, <2>3, BaseFacts
  <2> QED
    BY <1>1, <2>3, <2>4
<1>6. ASSUME NEW k \in 0 .. m - 1, k \in S PROVE k + 1 \in S
  <2> DEFINE i == m - k
  <2>1. /\ k + 1 \in 1 .. m /\ (k + 1) - 1 = k /\ m + 1 - (k + 1) = i /\ i \in 1 .. m
        /\ (k + 1) + 1 \in 1 .. m + 1 /\ ((k + 1) + 1) - 1 = k + 1
        /\ (m + 1) + 1 - ((k + 1) + 1) = i /\ m - (k + 1) = i - 1 /\ m - k = i
    OBVIOUS
  <2> HIDE DEF i
  <2>2. p[k + 1] = p[k] * BASE + t[i] /\ s[(k + 1) + 1] = s[k + 1] * BASE + z[i]
    BY <1>1, <1>2, <2>1
  <2>3. s[k + 1] = p[k] + c[i] /\ z[i] = r.dig[i] /\ c[i - 1] + t[i] = c[i] * BASE + r.dig[i]
    BY <1>3, <1>6, <2>1 DEF r, Rippled
  <2>4. /\ p[k] \in Int /\ c[i] \in Int /\ c[i - 1] \in Int /\ t[i] \in Int
        /\ r.dig[i] \in Int /\ s[k + 1] \in Int
    <3>1. r.dig[i] \in Digit
      BY <1>3, <2>1
    <3>2. r.dig[i] \in Int
      BY <3>1, BaseFacts DEF Digit
    <3>3. i \in 0 .. m /\ i - 1 \in 0 .. m /\ k \in 0 .. m /\ k + 1 \in 0 .. m + 1
      BY <2>1
    <3> QED
      BY <1>1, <1>2, <1>4, <2>1, <3>2, <3>3
  <2>5. StepOfCarry(s[k + 1], p[k], c[i], r.dig[i], c[i - 1], t[i])
    BY <2>4, CarrySteps
  <2>6. s[(k + 1) + 1] = p[k + 1] + c[i - 1]
    BY <2>2, <2>3, <2>5 DEF StepOfCarry
  <2> QED
    BY <2>1, <2>6
<1> HIDE DEF S
<1>7. 0 .. m \subseteq S
  BY <1>5, <1>6, UpTo
<1>8. m \in S /\ m - m = 0
  BY <1>7
<1> QED
  BY <1>1, <1>2, <1>4, <1>8 DEF S

\* Digits are natural numbers below the base.
LEMMA DigitVector ==
  ASSUME NEW m \in Nat, NEW d \in [1 .. m -> Digit]
  PROVE  d \in [1 .. m -> Int] /\ d \in [1 .. m -> Nat] /\ \A i \in 1 .. m : d[i] >= 0 /\ d[i] <= BASE - 1
BY BaseFacts DEF Digit

\* The numbers that the most significant digits make are not negative.
LEMMA TopsNat ==
  ASSUME NEW m \in Nat, NEW d \in [1 .. m -> Nat]
  PROVE  \A k \in 0 .. m : Tops(d)[k] \in Nat
<1> DEFINE p == Tops(d)
           S == {k \in 0 .. m : p[k] \in Nat}
<1>0. d \in [1 .. m -> Int]
  OBVIOUS
<1>1. p[0] = 0 /\ \A k \in 1 .. m : p[k] = p[k - 1] * BASE + d[m + 1 - k]
  BY <1>0, TopsIs
<1> HIDE DEF p
<1>2. 0 \in S
  BY <1>1
<1>3. ASSUME NEW k \in 0 .. m - 1, k \in S PROVE k + 1 \in S
  <2>1. k + 1 \in 1 .. m /\ (k + 1) - 1 = k /\ m + 1 - (k + 1) \in 1 .. m
    OBVIOUS
  <2>2. p[k + 1] = p[k] * BASE + d[m + 1 - (k + 1)] /\ p[k] \in Nat
    BY <1>1, <1>3, <2>1
  <2>3. p[k] * BASE \in Nat /\ d[m + 1 - (k + 1)] \in Nat
    BY <2>1, <2>2, BaseFacts
  <2> QED
    BY <2>1, <2>2, <2>3
<1> HIDE DEF S
<1>4. 0 .. m \subseteq S
  BY <1>2, <1>3, UpTo
<1> QED
  BY <1>4 DEF S, p

\* A vector of digits is worth a natural number, and the empty one zero.
LEMMA ValueNat ==
  ASSUME NEW d \in Digits
  PROVE  ValueOf(d) \in Nat /\ (d = <<>> => ValueOf(d) = 0)
<1> DEFINE m == Len(d)
<1>1. m \in Nat /\ d \in [1 .. m -> Digit]
  BY AsFunction DEF Digits
<1>2. d = <<>> => m = 0
  OBVIOUS
<1> HIDE DEF m
<1>3. d \in [1 .. m -> Nat] /\ d \in [1 .. m -> Int]
  BY <1>1, DigitVector
<1>4. ValueOf(d) = Tops(d)[m] /\ Tops(d)[0] = 0
  BY <1>1, <1>3, TopsIs
<1>5. Tops(d)[m] \in Nat
  BY <1>1, <1>3, TopsNat
<1> QED
  BY <1>2, <1>4, <1>5

\* The empty vector is a vector of digits, worth zero.
LEMMA EmptyIs == <<>> \in Digits /\ Len(<<>>) = 0 /\ ValueOf(<<>>) = 0
<1>1. <<>> \in Digits /\ Len(<<>>) = 0
  BY EmptySeq DEF Digits
<1> QED
  BY <1>1, ValueNat

\* Zeros are worth nothing.
LEMMA ZerosIs ==
  ASSUME NEW m \in Nat, NEW x \in [1 .. m -> Int], \A i \in 1 .. m : x[i] = 0
  PROVE  ValueOf(x) = 0
<1>1. -1 \in Int /\ \A i \in 1 .. m : x[i] = x[i] + (-1) * x[i]
  OBVIOUS
<1>2. \A k \in 0 .. m : Tops(x)[k] = Tops(x)[k] + (-1) * Tops(x)[k]
  BY <1>1, Linear
<1>3. Tops(x) \in [0 .. m -> Int] /\ ValueOf(x) = Tops(x)[m]
  BY TopsIs
<1>4. ValueOf(x) \in Int /\ ValueOf(x) = ValueOf(x) + (-1) * ValueOf(x)
  BY <1>2, <1>3
<1> QED
  BY <1>4

\* Digits, with a carry behind them.
WithCarry(d, e) == d \o <<e>>
Carried(m, d, e, z) ==
  /\ z \in Seq(Digit) /\ z \in [1 .. m + 1 -> Digit]
  /\ \A i \in 1 .. m : z[i] = d[i]
  /\ z[m + 1] = e
\* A carry appended to m digits is the digit m + 1.
LEMMA WithCarryIs ==
  ASSUME NEW m \in Nat, NEW d \in [1 .. m -> Digit], NEW e \in Digit
  PROVE  Carried(m, d, e, WithCarry(d, e))
<1>1. d \in Seq(Digit) /\ Len(d) = m
  BY AsSequence
<1>2. <<e>> \in Seq(Digit) /\ Len(<<e>>) = 1 /\ <<e>>[1] = e
  OBVIOUS
<1> DEFINE z == d \o <<e>>
<1>3. /\ z \in Seq(Digit) /\ Len(z) = m + 1
      /\ \A i \in 1 .. m + 1 : z[i] = IF i <= m THEN d[i] ELSE <<e>>[i - m]
  BY <1>1, <1>2, ConcatProperties
<1>4. z \in [1 .. m + 1 -> Digit]
  BY <1>3, AsFunction
<1>5. \A i \in 1 .. m : z[i] = d[i]
  BY <1>3
<1>6. z[m + 1] = e
  <2>1. m + 1 \in 1 .. m + 1 /\ ~ (m + 1 <= m) /\ (m + 1) - m = 1
    OBVIOUS
  <2> QED
    BY <1>2, <1>3, <2>1
<1> QED
  BY <1>3, <1>4, <1>5, <1>6 DEF WithCarry, Carried

\* Taking the leading zeros away leaves the value.
LEMMA TrimIs ==
  ASSUME NEW d \in Digits
  PROVE  /\ Trim(d) \in Digits /\ ValueOf(Trim(d)) = ValueOf(d)
         /\ Trim(d) # <<>> => Trim(d)[Len(Trim(d))] # 0
         /\ Len(Trim(d)) <= Len(d)
<1> DEFINE m == Len(d)
           used == {i \in 1 .. m : d[i] # 0}
<1>1. m \in Nat /\ d \in [1 .. m -> Digit] /\ DOMAIN d = 1 .. m
  BY AsFunction DEF Digits
<1>2. Trim(d) = IF used = {} THEN <<>> ELSE SubSeq(d, 1, Max(used))
  BY <1>1 DEF Trim
<1> HIDE DEF m
<1>3. d \in [1 .. m -> Int]
  BY <1>1, DigitVector
<1>4. CASE used = {}
  <2>1. Trim(d) = <<>> /\ <<>> \in Digits /\ Len(<<>>) = 0 /\ <<>> \in [1 .. 0 -> Int]
    BY <1>2, <1>4 DEF Digits
  <2>2. \A i \in 1 .. m : d[i] = 0
    BY <1>4
  <2>4. ValueOf(d) = ValueOf(<<>>)
    BY <1>1, <1>3, <2>2, ZerosIs, EmptyIs
  <2> QED
    BY <1>1, <2>1, <2>4 DEF m
<1>5. CASE used # {}
  <2> DEFINE n == Max(used)
             e == SubSeq(d, 1, n)
  <2>1. used \in SUBSET (0 .. m)
    OBVIOUS
  <2> HIDE DEF used
  <2>2. n \in used /\ \A j \in used : j <= n
    BY <1>1, <1>5, <2>1, MaxFacts
  <2> HIDE DEF n
  <2>3. n \in 1 .. m /\ d[n] # 0 /\ \A i \in n + 1 .. m : d[i] = 0
    <3>1. n \in 1 .. m /\ d[n] # 0
      BY <2>2 DEF used
    <3>2. ASSUME NEW i \in n + 1 .. m PROVE d[i] = 0
      <4>1. i \in 1 .. m /\ ~ (i <= n)
        BY <1>1, <3>1
      <4>2. i \notin used
        BY <2>2, <4>1
      <4> QED
        BY <4>1, <4>2 DEF used
    <3> QED
      BY <3>1, <3>2
  <2>4. e \in Digits /\ Len(e) = n /\ \A i \in 1 .. n : e[i] = d[i]
    <3>1. \A i \in 1 .. n : d[i] \in Digit
      BY <1>1, <2>3
    <3>2. d \in Seq(Digit) /\ 1 \in Int /\ n \in Int /\ n \in Nat /\ n - 1 + 1 = n /\ 1 <= n
      BY <2>3 DEF Digits
    <3>3. /\ e \in Seq(Digit) /\ Len(e) = n
          /\ \A i \in 1 .. n : e[i] = d[1 + i - 1]
      BY <1>1, <2>3, <3>2, SubSeqProperties DEF m
    <3>4. \A i \in 1 .. n : 1 + i - 1 = i
      BY <2>3
    <3> QED
      BY <3>3, <3>4 DEF Digits
  <2>5. Trim(d) = e
    BY <1>2, <1>5 DEF n
  <2>6. n \in 0 .. m /\ n \in Nat /\ e \in [1 .. n -> Int]
    <3> HIDE DEF e
    <3>0. e \in Seq(Digit) /\ Len(e) = n
      BY <2>4 DEF Digits
    <3>1. e \in [1 .. n -> Digit] /\ n \in Nat /\ n \in 0 .. m
      BY <1>1, <2>3, <3>0, AsFunction
    <3>2. e \in [1 .. n -> Int]
      BY <3>1, DigitVector
    <3> QED
      BY <3>1, <3>2
  <2> HIDE DEF e
  <2>7. ValueOf(d) = ValueOf(e)
    <3>1. Extended(m, n, d, e)
      BY <1>1, <1>3, <2>3, <2>4, <2>6 DEF Extended
    <3> QED
      BY <3>1, Aligned
  <2>8. e[Len(e)] # 0 /\ Len(e) <= Len(d)
    BY <1>1, <2>3, <2>4 DEF m
  <2> QED
    BY <2>4, <2>5, <2>7, <2>8
<1> QED
  BY <1>4, <1>5

\* long_normalize keeps the number.
LEMMA NormalizeIs ==
  ASSUME NEW x \in Longs
  PROVE  /\ Normal(long_normalize(x)) /\ Number(long_normalize(x)) = Number(x)
         /\ ValueOf(long_normalize(x).dig) = ValueOf(x.dig)
<1> DEFINE d == Trim(x.dig)
           z == long_normalize(x)
<1>1. x.dig \in Digits /\ x.neg \in BOOLEAN
  BY DEF Longs
<1>2. /\ d \in Digits /\ ValueOf(d) = ValueOf(x.dig)
      /\ d # <<>> => d[Len(d)] # 0
  BY <1>1, TrimIs
<1>3. z.dig = d /\ z.neg = (x.neg /\ d # <<>>) /\ z \in Longs
  BY <1>1, <1>2 DEF long_normalize, Long, Longs
<1> HIDE DEF d, z
<1>4. Normal(z)
  BY <1>2, <1>3 DEF Normal
<1>5. ValueOf(d) \in Nat /\ (d = <<>> => ValueOf(d) = 0)
  BY <1>2, ValueNat
<1>6. Number(z) = Number(x)
  BY <1>1, <1>2, <1>3, <1>5 DEF Number
<1> QED
  BY <1>2, <1>3, <1>4, <1>6 DEF z

\* A quotient by the base lies between the bounds of its dividend.
LEMMA DivBetween ==
  ASSUME NEW lo \in Int, NEW hi \in Int, NEW y \in Int,
         lo * BASE <= y, y < (hi + 1) * BASE
  PROVE  y \div BASE \in lo .. hi
<1> DEFINE q == y \div BASE
<1>1. q \in Int /\ y = BASE * q + (y % BASE) /\ y % BASE \in 0 .. BASE - 1
  BY BaseFacts, DivMod, ModRange
<1>2. y % BASE \in Int /\ 0 <= y % BASE /\ y % BASE < BASE
  BY <1>1, BaseFacts
<1> HIDE DEF q
<1>3. q * BASE <= y /\ y < (q + 1) * BASE
  <2>1. BASE * q = q * BASE /\ (q + 1) * BASE = q * BASE + BASE /\ q * BASE \in Int
    BY <1>1, BaseFacts
  <2> QED
    BY <1>1, <1>2, <2>1, BaseFacts
<1>4. ASSUME q < lo PROVE FALSE
  <2>1. (q + 1) * BASE <= lo * BASE
    BY <1>1, <1>4, BaseFacts, TimesMonotonic
  <2>2. (q + 1) * BASE \in Int /\ lo * BASE \in Int
    BY <1>1, BaseFacts
  <2> QED
    BY <1>3, <2>1, <2>2
<1>5. ASSUME q > hi PROVE FALSE
  <2>1. (hi + 1) * BASE <= q * BASE
    BY <1>1, <1>5, BaseFacts, TimesMonotonic
  <2>2. (hi + 1) * BASE \in Int /\ q * BASE \in Int
    BY <1>1, BaseFacts
  <2> QED
    BY <1>3, <2>1, <2>2
<1> QED
  BY <1>1, <1>4, <1>5 DEF q

\* Carries that stay in a set.
LEMMA CarriesIn ==
  ASSUME NEW m \in Nat, NEW t \in [1 .. m -> Int], NEW carry \in Int, NEW C, carry \in C,
         \A k \in 1 .. m : \A x \in C : (x + t[k]) \div BASE \in C
  PROVE  \A k \in 0 .. m : Carries(t, carry)[k] \in C
<1> DEFINE c == Carries(t, carry)
           S == {k \in 0 .. m : c[k] \in C}
<1>1. c[0] = carry /\ \A k \in 1 .. m : c[k] = (c[k - 1] + t[k]) \div BASE
  BY CarriesIs
<1> HIDE DEF c
<1>2. 0 \in S
  BY <1>1
<1>3. ASSUME NEW k \in 0 .. m - 1, k \in S PROVE k + 1 \in S
  <2>1. k + 1 \in 1 .. m /\ (k + 1) - 1 = k
    OBVIOUS
  <2>2. c[k + 1] = (c[k] + t[k + 1]) \div BASE /\ c[k] \in C
    BY <1>1, <1>3, <2>1
  <2>3. c[k + 1] \in C
    BY <2>1, <2>2
  <2> QED
    BY <2>1, <2>3
<1> HIDE DEF S
<1>4. 0 .. m \subseteq S
  BY <1>2, <1>3, UpTo
<1> QED
  BY <1>4 DEF S, c

\* The digits of a vector, with zeros behind them.
LEMMA PaddedIs ==
  ASSUME NEW d \in Digits, NEW m \in Nat, Len(d) <= m
  PROVE  /\ Padded(d, m) \in [1 .. m -> Digit] /\ Padded(d, m) \in [1 .. m -> Int]
         /\ \A i \in 1 .. m : Padded(d, m)[i] = At(d, i) /\ At(d, i) \in Digit /\ At(d, i) \in Int
         /\ \A i \in 1 .. Len(d) : At(d, i) = d[i]
         /\ \A i \in Len(d) + 1 .. m : At(d, i) = 0
         /\ ValueOf(Padded(d, m)) = ValueOf(d)
<1> DEFINE n == Len(d)
           x == Padded(d, m)
<1>1. n \in Nat /\ d \in [1 .. n -> Digit] /\ DOMAIN d = 1 .. n
  BY AsFunction DEF Digits
<1> HIDE DEF n
<1>2. 0 \in Digit /\ Digit \subseteq Int
  BY BaseFacts DEF Digit
<1>3. \A i \in Nat : At(d, i) \in Digit
  BY <1>1, <1>2 DEF At
<1>4. x \in [1 .. m -> Digit] /\ \A i \in 1 .. m : x[i] = At(d, i)
  BY <1>3 DEF Padded
<1> HIDE DEF x
<1>5. (\A i \in 1 .. n : At(d, i) = d[i]) /\ (\A i \in n + 1 .. m : At(d, i) = 0)
  BY <1>1 DEF At
<1>6. n \in 0 .. m /\ \A i \in 1 .. n : i \in 1 .. m
  BY <1>1 DEF n
<1>7. x \in [1 .. m -> Int] /\ d \in [1 .. n -> Int]
  BY <1>1, <1>4, DigitVector
<1>8. (\A i \in 1 .. n : x[i] = d[i]) /\ (\A i \in n + 1 .. m : x[i] = 0)
  BY <1>1, <1>4, <1>5, <1>6
<1>9. ValueOf(x) = ValueOf(d)
  <2>1. Extended(m, n, x, d)
    BY <1>6, <1>7, <1>8 DEF Extended
  <2> QED
    BY <2>1, Aligned
<1>10. ASSUME NEW i \in 1 .. m PROVE At(d, i) \in Digit /\ At(d, i) \in Int
  <2>1. At(d, i) \in Digit
    BY <1>3
  <2> QED
    BY <2>1, BaseFacts DEF Digit
<1> QED
  BY <1>4, <1>5, <1>7, <1>9, <1>10 DEF n, x

-----------------------------------------------------------------------------
(* Addition, and multiplication by a digit *)

\* The carry out of the sum of two digits is a bit.
LEMMA DivBit ==
  ASSUME NEW y \in Int, 0 <= y, y < 2 * BASE
  PROVE  y \div BASE \in 0 .. 1
<1>1. 0 * BASE <= y /\ y < (1 + 1) * BASE /\ 0 \in Int /\ 1 \in Int
  BY BaseFacts
<1> QED
  BY <1>1, DivBetween

\* The long that a ripple and its last carry make.
LongOf(t, carry) == long_normalize(Long(FALSE, WithCarry(Ripple(t, carry).dig, Ripple(t, carry).carry)))
\* A carry that is a digit may be appended: the long is normalised and worth the terms.
LEMMA RippleLong ==
  ASSUME NEW m \in Nat, NEW t \in [1 .. m -> Int], NEW carry \in Int,
         Carries(t, carry)[m] \in Digit
  PROVE  /\ Normal(LongOf(t, carry)) /\ ~LongOf(t, carry).neg
         /\ ValueOf(LongOf(t, carry).dig) = ValueOf(t) + carry
<1> DEFINE r == Ripple(t, carry)
           d == WithCarry(r.dig, r.carry)
           z == long_normalize(Long(FALSE, d))
<1>0. z = LongOf(t, carry)
  BY DEF LongOf
<1>1. r.dig \in [1 .. m -> Digit] /\ r.carry \in Digit
  BY RippleIs DEF Digested
<1> HIDE DEF r
<1>a. Carried(m, r.dig, r.carry, d)
  BY <1>1, WithCarryIs
<1>2. /\ d \in Seq(Digit) /\ d \in [1 .. m + 1 -> Digit]
      /\ \A i \in 1 .. m : d[i] = r.dig[i]
      /\ d[m + 1] = r.carry
  BY <1>a DEF Carried
<1> HIDE DEF d
<1>3. d \in [1 .. m + 1 -> Int]
  <2>1. m + 1 \in Nat
    OBVIOUS
  <2> QED
    BY <1>2, <2>1, DigitVector
<1>4. ValueOf(d) = ValueOf(t) + carry
  <2>1. Rippled(m, t, carry, d)
    BY <1>2, <1>3 DEF r, Rippled
  <2> QED
    BY <2>1, RippleValue
<1>5. Long(FALSE, d) \in Longs /\ Long(FALSE, d).dig = d /\ Long(FALSE, d).neg = FALSE
  BY <1>2 DEF Long, Longs, Digits
<1>6. ~z.neg
  BY <1>5 DEF long_normalize, Long
<1>7. Normal(z) /\ ValueOf(z.dig) = ValueOf(d)
  BY <1>5, NormalizeIs
<1> HIDE DEF z
<1> QED
  BY <1>0, <1>4, <1>6, <1>7

\* The sums of two digits at each place.
SmallSums(m, t) ==
  /\ m \in Nat /\ t \in [1 .. m -> Int]
  /\ \A i \in 1 .. m : 0 <= t[i] /\ t[i] <= 2 * BASE - 2
\* Such sums carry at most one, and a carry and a sum fit into one bit more than a digit.
SumFits(m, t) ==
  /\ \A k \in 0 .. m : Carries(t, 0)[k] \in 0 .. 1
  /\ \A k \in 1 .. m : Carries(t, 0)[k - 1] + t[k] \in 0 .. 2 * BASE - 1
\* Sums of two digits keep their carries small.
LEMMA SumsFit == ASSUME NEW m, NEW t, SmallSums(m, t) PROVE SumFits(m, t)
<1> DEFINE c == Carries(t, 0)
           C == 0 .. 1
<1>1. /\ m \in Nat /\ t \in [1 .. m -> Int]
      /\ \A i \in 1 .. m : t[i] \in Int /\ 0 <= t[i] /\ t[i] <= 2 * BASE - 2
  BY DEF SmallSums
<1>2. ASSUME NEW k \in 1 .. m, NEW x \in C
      PROVE  (x + t[k]) \div BASE \in C /\ x + t[k] \in 0 .. 2 * BASE - 1
  <2> DEFINE s == x + t[k]
  <2>1. s \in Int /\ 0 <= s /\ s < 2 * BASE /\ s \in 0 .. 2 * BASE - 1
    BY <1>1, BaseFacts
  <2> HIDE DEF s
  <2>2. s \div BASE \in 0 .. 1
    BY <2>1, DivBit
  <2> QED
    BY <2>1, <2>2 DEF s
<1>3. 0 \in C /\ 0 \in Int
  OBVIOUS
<1> HIDE DEF C
<1>4. \A k \in 0 .. m : c[k] \in C
  BY <1>1, <1>2, <1>3, CarriesIn
<1>5. ASSUME NEW k \in 1 .. m PROVE c[k - 1] + t[k] \in 0 .. 2 * BASE - 1
  <2>1. k - 1 \in 0 .. m
    BY <1>1
  <2>2. c[k - 1] \in C
    BY <1>4, <2>1
  <2> QED
    BY <1>2, <2>2
<1> QED
  BY <1>4, <1>5 DEF C, SumFits

\* The terms of x_add are sums of two digits.
LEMMA SumsAre ==
  ASSUME NEW a \in Longs, NEW b \in Longs
  PROVE  LET m == larger(Len(a.dig), Len(b.dig))
         IN  SmallSums(m, [i \in 1 .. m |-> At(a.dig, i) + At(b.dig, i)])
<1> DEFINE m == larger(Len(a.dig), Len(b.dig))
           t == [i \in 1 .. m |-> At(a.dig, i) + At(b.dig, i)]
<1>1. a.dig \in Digits /\ b.dig \in Digits
  BY DEF Longs
<1>2. m \in Nat /\ Len(a.dig) <= m /\ Len(b.dig) <= m
  BY <1>1, AsFunction DEF Digits, larger
<1> HIDE DEF m
<1>3. ASSUME NEW i \in 1 .. m
      PROVE  t[i] \in Int /\ 0 <= t[i] /\ t[i] <= 2 * BASE - 2
  <2> DEFINE x == At(a.dig, i)
             y == At(b.dig, i)
  <2>1. x \in Digit /\ y \in Digit
    BY <1>1, <1>2, PaddedIs
  <2> HIDE DEF x, y
  <2>2. x + y \in Int /\ 0 <= x + y /\ x + y <= 2 * BASE - 2
    BY <2>1, BaseFacts DEF Digit
  <2>3. t[i] = x + y
    BY DEF x, y
  <2> QED
    BY <2>2, <2>3
<1>4. t = [i \in 1 .. m |-> t[i]]
  OBVIOUS
<1> HIDE DEF t
<1>5. SmallSums(m, t)
  BY <1>2, <1>3, <1>4 DEF SmallSums
<1> QED
  BY <1>5 DEF m, t

\* The accumulator of x_add, a digit of one bit more than SHIFT, never overflows.
THEOREM AddFits ==
  ASSUME NEW a \in Longs, NEW b \in Longs
  PROVE  LET m == larger(Len(a.dig), Len(b.dig))
         IN  SumFits(m, [i \in 1 .. m |-> At(a.dig, i) + At(b.dig, i)])
BY SumsAre, SumsFit

\* x_add adds the absolute values.
LEMMA XAddIs ==
  ASSUME NEW a \in Longs, NEW b \in Longs
  PROVE  /\ Normal(x_add(a, b)) /\ ~x_add(a, b).neg
         /\ ValueOf(x_add(a, b).dig) = ValueOf(a.dig) + ValueOf(b.dig)
<1> DEFINE m == larger(Len(a.dig), Len(b.dig))
           t == [i \in 1 .. m |-> At(a.dig, i) + At(b.dig, i)]
           x == Padded(a.dig, m)
           y == Padded(b.dig, m)
           u == ValueOf(a.dig)
           w == ValueOf(b.dig)
<1>1. a.dig \in Digits /\ b.dig \in Digits
  BY DEF Longs
<1>2. m \in Nat /\ Len(a.dig) <= m /\ Len(b.dig) <= m
  BY <1>1, AsFunction DEF Digits, larger
<1>3. /\ x \in [1 .. m -> Digit] /\ x \in [1 .. m -> Int] /\ ValueOf(x) = u
      /\ \A i \in 1 .. m : x[i] = At(a.dig, i)
  BY <1>1, <1>2, PaddedIs
<1>4. /\ y \in [1 .. m -> Digit] /\ y \in [1 .. m -> Int] /\ ValueOf(y) = w
      /\ \A i \in 1 .. m : y[i] = At(b.dig, i)
  BY <1>1, <1>2, PaddedIs
<1>0. x_add(a, b) = LongOf(t, 0)
  BY DEF x_add, LongOf, WithCarry
<1>5. t = [i \in 1 .. m |-> x[i] + y[i]]
  BY <1>3, <1>4
<1>b. SumFits(m, t)
  BY AddFits
<1> HIDE DEF m, t, x, y
<1>6. \A i \in 1 .. m : x[i] \in Int /\ y[i] \in Int /\ t[i] = x[i] + y[i]
  BY <1>3, <1>4, <1>5
<1>7. t \in [1 .. m -> Int]
  BY <1>5, <1>6
<1>9. Carries(t, 0)[m] \in Digit
  <2>1. Carries(t, 0)[m] \in 0 .. 1
    BY <1>2, <1>b DEF SumFits
  <2> QED
    BY <2>1, BaseFacts DEF Digit
<1>10. ValueOf(t) = u + w
  <2>1. 1 \in Int /\ \A i \in 1 .. m : t[i] = x[i] + 1 * y[i]
    BY <1>6
  <2>2. \A k \in 0 .. m : Tops(t)[k] = Tops(x)[k] + 1 * Tops(y)[k]
    BY <1>2, <1>3, <1>4, <1>7, <2>1, Linear
  <2>3. Tops(t)[m] = Tops(x)[m] + 1 * Tops(y)[m]
    BY <1>2, <2>2
  <2>4. ValueOf(t) = Tops(t)[m] /\ ValueOf(x) = Tops(x)[m] /\ ValueOf(y) = Tops(y)[m]
    BY <1>2, <1>3, <1>4, <1>7, TopsIs
  <2>5. u \in Int /\ w \in Int
    BY <1>1, ValueNat
  <2> HIDE DEF u, w
  <2> QED
    BY <1>3, <1>4, <2>3, <2>4, <2>5
<1>11. (u + w) + 0 = u + w
  BY <1>1, ValueNat
<1> HIDE DEF u, w
<1>12. Normal(LongOf(t, 0)) /\ ~LongOf(t, 0).neg /\ ValueOf(LongOf(t, 0).dig) = ValueOf(t) + 0
  BY <1>2, <1>7, <1>9, RippleLong
<1> QED
  BY <1>0, <1>10, <1>11, <1>12 DEF u, w

\* A multiple of a vector.
LEMMA Multiple ==
  ASSUME NEW m \in Nat, NEW f \in Int, NEW y \in [1 .. m -> Int], NEW t \in [1 .. m -> Int],
         \A i \in 1 .. m : t[i] = y[i] * f
  PROVE  ValueOf(t) = ValueOf(y) * f
<1> DEFINE x == [i \in 1 .. m |-> 0]
<1>1. x \in [1 .. m -> Int] /\ \A i \in 1 .. m : x[i] = 0
  OBVIOUS
<1> HIDE DEF x
<1>2. \A i \in 1 .. m : t[i] = x[i] + f * y[i]
  <2> TAKE i \in 1 .. m
  <2>1. t[i] = y[i] * f /\ x[i] = 0 /\ y[i] \in Int
    BY <1>1
  <2> QED
    BY <2>1
<1>3. ValueOf(x) = 0
  BY <1>1, ZerosIs
<1>4. \A k \in 0 .. m : Tops(t)[k] = Tops(x)[k] + f * Tops(y)[k]
  BY <1>1, <1>2, Linear
<1>5. Tops(t)[m] = Tops(x)[m] + f * Tops(y)[m]
  BY <1>4
<1>6. /\ ValueOf(t) = Tops(t)[m] /\ ValueOf(x) = Tops(x)[m] /\ ValueOf(y) = Tops(y)[m]
      /\ Tops(y) \in [0 .. m -> Int]
  BY <1>1, TopsIs
<1>7. ValueOf(y) \in Int
  BY <1>6
<1>8. ValueOf(t) = 0 + f * ValueOf(y)
  BY <1>3, <1>5, <1>6
<1> QED
  BY <1>7, <1>8

\* A product of digits and two more digits make two digits.
LEMMA DivDigit ==
  ASSUME NEW c \in Digit, NEW d \in Digit, NEW a \in Digit, NEW b \in Digit
  PROVE  (c + (d + a * b)) \div BASE \in Digit /\ c + (d + a * b) \in 0 .. BASE * BASE - 1
<1> DEFINE y == c + (d + a * b)
           n == BASE - 1
<1>1. n \in Nat /\ BASE = n + 1 /\ n \in Int
  BY BaseFacts
<1> HIDE DEF n
<1>2. /\ c \in Int /\ 0 <= c /\ c <= n /\ d \in Int /\ 0 <= d /\ d <= n
      /\ a \in Nat /\ a <= n /\ b \in Nat /\ b <= n
  BY <1>1 DEF Digit
<1>3. a * b \in Nat /\ a * b <= n * n /\ n * n \in Nat
  <2>1. a * b <= n * b
    BY <1>1, <1>2, TimesMonotonic
  <2>2. b * n <= n * n
    BY <1>1, <1>2, TimesMonotonic
  <2>3. n * b = b * n /\ a * b \in Nat /\ n * b \in Nat /\ n * n \in Nat
    BY <1>1, <1>2
  <2> QED
    BY <2>1, <2>2, <2>3
<1> DEFINE p == a * b
           s == n * n
<1>4. (n + 1) * (n + 1) = s + 2 * n + 1
  BY <1>1
<1> HIDE DEF p, s
<1>5. y \in Int /\ 0 <= y /\ y < s + 2 * n + 1
  BY <1>1, <1>2, <1>3 DEF p, s
<1>6. 0 * BASE <= y /\ y < (n + 1) * BASE
  BY <1>1, <1>4, <1>5
<1>8. y \in 0 .. BASE * BASE - 1
  BY <1>1, <1>4, <1>5
<1> HIDE DEF y
<1>7. y \div BASE \in 0 .. n
  BY <1>1, <1>5, <1>6, DivBetween
<1> QED
  BY <1>1, <1>7, <1>8 DEF y, Digit

\* muladd1 multiplies the absolute value by a digit and adds one.
THEOREM MulAddExact ==
  ASSUME NEW a \in Longs, NEW n \in Digit, NEW extra \in Digit
  PROVE  /\ Normal(muladd1(a, n, extra)) /\ ~muladd1(a, n, extra).neg
         /\ ValueOf(muladd1(a, n, extra).dig) = ValueOf(a.dig) * n + extra
<1> DEFINE m == Len(a.dig)
           y == a.dig
           t == [i \in 1 .. m |-> y[i] * n]
<1>1. m \in Nat /\ y \in [1 .. m -> Digit]
  BY AsFunction DEF Longs, Digits
<1>0. muladd1(a, n, extra) = LongOf(t, extra)
  BY DEF muladd1, LongOf, WithCarry
<1> HIDE DEF m, y
<1>2. n \in Int /\ extra \in Int /\ y \in [1 .. m -> Int]
  BY <1>1, BaseFacts, DigitVector DEF Digit
<1>3. \A i \in 1 .. m : t[i] = y[i] * n /\ t[i] \in Int
  BY <1>2
<1>4. t \in [1 .. m -> Int]
  BY <1>3
<1> HIDE DEF t
<1>5. ASSUME NEW k \in 1 .. m, NEW c \in Digit PROVE (c + t[k]) \div BASE \in Digit
  <2>1. 0 \in Digit /\ y[k] \in Digit
    BY <1>1, BaseFacts DEF Digit
  <2>2. (c + (0 + y[k] * n)) \div BASE \in Digit
    BY <2>1, DivDigit
  <2>3. 0 + y[k] * n = t[k]
    BY <1>3
  <2> QED
    BY <2>2, <2>3
<1>6. Carries(t, extra)[m] \in Digit
  <2>1. \A k \in 0 .. m : Carries(t, extra)[k] \in Digit
    BY <1>1, <1>2, <1>4, <1>5, CarriesIn
  <2> QED
    BY <1>1, <2>1
<1>7. ValueOf(t) = ValueOf(y) * n
  BY <1>1, <1>2, <1>3, <1>4, Multiple
<1>8. /\ Normal(LongOf(t, extra)) /\ ~LongOf(t, extra).neg
      /\ ValueOf(LongOf(t, extra).dig) = ValueOf(t) + extra
  BY <1>1, <1>2, <1>4, <1>6, RippleLong
<1> QED
  BY <1>0, <1>7, <1>8 DEF y

-----------------------------------------------------------------------------
(* Comparison *)

StepOfLess(p, q, a, b) ==
  /\ p = q /\ a < b => p * BASE + a < q * BASE + b
  /\ p < q /\ a <= BASE - 1 /\ 0 <= b => p * BASE + a < q * BASE + b
\* A smaller number stays smaller when a digit is appended to each.
LEMMA LessSteps == \A p, q, a, b \in Int : StepOfLess(p, q, a, b)
<1> TAKE p, q, a, b \in Int
<1>1. BASE \in Nat /\ BASE \in Int /\ p * BASE \in Int /\ q * BASE \in Int
  BY BaseFacts
<1>2. ASSUME p < q PROVE p * BASE + BASE <= q * BASE
  <2>1. p + 1 <= q /\ p + 1 \in Int
    BY <1>2
  <2>2. (p + 1) * BASE <= q * BASE
    BY <1>1, <2>1, TimesMonotonic
  <2>3. (p + 1) * BASE = p * BASE + BASE
    BY <1>1
  <2> QED
    BY <2>2, <2>3
<1>3. p = q /\ a < b => p * BASE + a < q * BASE + b
  BY <1>1
<1> DEFINE u == p * BASE
           w == q * BASE
<1>4. ASSUME p < q, a <= BASE - 1, 0 <= b PROVE u + a < w + b
  <2>1. u + BASE <= w /\ u \in Int /\ w \in Int
    BY <1>1, <1>2, <1>4
  <2> HIDE DEF u, w
  <2> QED
    BY <1>1, <1>4, <2>1
<1> QED
  BY <1>3, <1>4 DEF StepOfLess

\* Of two vectors of a length, the highest digit that differs tells the smaller one.
LEMMA LessByDigit ==
  ASSUME NEW m \in Nat, NEW x \in [1 .. m -> Digit], NEW y \in [1 .. m -> Digit],
         NEW i \in 1 .. m, x[i] < y[i], \A j \in i + 1 .. m : x[j] = y[j]
  PROVE  ValueOf(x) < ValueOf(y)
<1> DEFINE p == Tops(x)
           q == Tops(y)
           n == m - i
           S == {k \in 0 .. n : p[k] = q[k]}
           T == {k \in 0 .. i - 1 : p[n + 1 + k] < q[n + 1 + k]}
<1>0. /\ x \in [1 .. m -> Int] /\ y \in [1 .. m -> Int] /\ n \in Nat /\ i - 1 \in Nat
      /\ \A j \in 1 .. m : x[j] \in Int /\ x[j] <= BASE - 1 /\ y[j] \in Int /\ 0 <= y[j]
  BY BaseFacts, DigitVector DEF Digit
<1>1. /\ p \in [0 .. m -> Int] /\ p[0] = 0 /\ ValueOf(x) = p[m]
      /\ \A k \in 1 .. m : p[k] = p[k - 1] * BASE + x[m + 1 - k]
  BY <1>0, TopsIs
<1>2. /\ q \in [0 .. m -> Int] /\ q[0] = 0 /\ ValueOf(y) = q[m]
      /\ \A k \in 1 .. m : q[k] = q[k - 1] * BASE + y[m + 1 - k]
  BY <1>0, TopsIs
<1> HIDE DEF p, q
<1>3. 0 \in S
  BY <1>1, <1>2
<1>4. ASSUME NEW k \in 0 .. n - 1, k \in S PROVE k + 1 \in S
  <2>1. k + 1 \in 1 .. m /\ (k + 1) - 1 = k /\ m + 1 - (k + 1) \in i + 1 .. m
    OBVIOUS
  <2>2. /\ p[k + 1] = p[k] * BASE + x[m + 1 - (k + 1)]
        /\ q[k + 1] = q[k] * BASE + y[m + 1 - (k + 1)]
    BY <1>1, <1>2, <2>1
  <2>3. p[k + 1] = q[k + 1]
    BY <1>4, <2>1, <2>2
  <2> QED
    BY <2>1, <2>3
<1> HIDE DEF S
<1>5. p[n] = q[n]
  <2>1. 0 .. n \subseteq S
    BY <1>0, <1>3, <1>4, UpTo
  <2> QED
    BY <1>0, <2>1 DEF S
<1>6. ASSUME NEW l \in 0 .. m - 1
      PROVE  /\ p[l + 1] = p[l] * BASE + x[m - l] /\ q[l + 1] = q[l] * BASE + y[m - l]
             /\ m - l \in 1 .. m /\ p[l] \in Int /\ q[l] \in Int
             /\ StepOfLess(p[l], q[l], x[m - l], y[m - l])
  <2>1. l + 1 \in 1 .. m /\ (l + 1) - 1 = l /\ m + 1 - (l + 1) = m - l /\ m - l \in 1 .. m /\ l \in 0 .. m
    OBVIOUS
  <2>2. p[l] \in Int /\ q[l] \in Int /\ x[m - l] \in Int /\ y[m - l] \in Int
    BY <1>0, <1>1, <1>2, <2>1
  <2>3. StepOfLess(p[l], q[l], x[m - l], y[m - l])
    BY <2>2, LessSteps
  <2> QED
    BY <1>1, <1>2, <2>1, <2>2, <2>3
<1>7. 0 \in T
  <2>1. n \in 0 .. m - 1 /\ m - n = i
    BY <1>0
  <2>2. p[n + 1] < q[n + 1]
    BY <1>5, <1>6, <2>1 DEF StepOfLess
  <2> QED
    BY <1>0, <2>2
<1>8. ASSUME NEW k \in 0 .. (i - 1) - 1, k \in T PROVE k + 1 \in T
  <2> DEFINE l == n + 1 + k
  <2>1. l \in 0 .. m - 1 /\ l + 1 = n + 1 + (k + 1) /\ k + 1 \in 0 .. i - 1 /\ p[l] < q[l]
    BY <1>8
  <2> HIDE DEF l
  <2>2. m - l \in 1 .. m /\ x[m - l] <= BASE - 1 /\ 0 <= y[m - l]
    BY <1>0, <1>6, <2>1
  <2>3. p[l + 1] < q[l + 1]
    BY <1>6, <2>1, <2>2 DEF StepOfLess
  <2> QED
    BY <2>1, <2>3
<1> HIDE DEF T
<1>9. 0 .. i - 1 \subseteq T
  BY <1>0, <1>7, <1>8, UpTo
<1>10. i - 1 \in T /\ n + 1 + (i - 1) = m
  BY <1>0, <1>9
<1>11. p[m] < q[m]
  BY <1>10 DEF T
<1> QED
  BY <1>1, <1>2, <1>11

\* A vector without leading zero is larger than a shorter one.
LEMMA LessByLength ==
  ASSUME NEW d \in Digits, NEW e \in Digits, Len(d) < Len(e), e[Len(e)] # 0
  PROVE  ValueOf(d) < ValueOf(e)
<1> DEFINE m == Len(e)
           x == Padded(d, m)
           y == Padded(e, m)
<1>1. m \in Nat /\ Len(d) \in Nat /\ Len(d) < m /\ e[m] # 0
  BY AsFunction DEF Digits
<1>2. /\ x \in [1 .. m -> Digit] /\ ValueOf(x) = ValueOf(d)
      /\ \A i \in 1 .. m : x[i] = At(d, i)
      /\ \A i \in Len(d) + 1 .. m : At(d, i) = 0
  BY <1>1, PaddedIs
<1>3. /\ y \in [1 .. m -> Digit] /\ ValueOf(y) = ValueOf(e)
      /\ \A i \in 1 .. m : y[i] = At(e, i) /\ At(e, i) = e[i]
  BY <1>1, PaddedIs
<1> HIDE DEF m, x, y
<1>4. m \in 1 .. m /\ m \in Len(d) + 1 .. m
  BY <1>1
<1>5. x[m] = 0 /\ y[m] # 0 /\ y[m] \in Digit
  BY <1>1, <1>2, <1>3, <1>4
<1>6. x[m] < y[m]
  BY <1>5, BaseFacts DEF Digit
<1>7. \A j \in m + 1 .. m : x[j] = y[j]
  BY <1>1
<1>8. ValueOf(x) < ValueOf(y)
  BY <1>1, <1>2, <1>3, <1>4, <1>6, <1>7, LessByDigit
<1> QED
  BY <1>2, <1>3, <1>8

Sign(n) == IF n < 0 THEN -1 ELSE IF n > 0 THEN 1 ELSE 0

\* A long of m digits and the absolute value u.
Shape(x, m, u) ==
  /\ m \in Nat /\ u \in Nat /\ x.neg \in BOOLEAN /\ x.dig \in Digits
  /\ x.dig \in [1 .. m -> Digit] /\ DOMAIN x.dig = 1 .. m
  /\ (m = 0 <=> u = 0) /\ (m = 0 <=> x.dig = <<>>)
  /\ (x.neg => m # 0) /\ (m # 0 => x.dig[m] # 0)
  /\ Number(x) = IF x.neg THEN -u ELSE u
\* What a normalised long is: its length, absolute value and number.
LEMMA NormalFacts ==
  ASSUME NEW x, Normal(x)
  PROVE  Shape(x, Len(x.dig), ValueOf(x.dig))
<1> DEFINE d == x.dig
           m == Len(d)
           u == ValueOf(d)
<1>1. x \in Longs /\ d \in Digits /\ x.neg \in BOOLEAN
  BY DEF Normal, Longs
<1>2. (d # <<>> => d[m] # 0) /\ (x.neg => d # <<>>)
  BY DEF Normal
<1>7. Number(x) = (IF x.neg THEN -1 ELSE 1) * u
  BY DEF Number
<1> HIDE DEF d
<1>3. m \in Nat /\ d \in [1 .. m -> Digit] /\ DOMAIN d = 1 .. m
  BY <1>1, AsFunction DEF Digits
<1>4. m = 0 <=> d = <<>>
  BY <1>1, EmptySeq DEF Digits
<1>5. u \in Nat /\ (d = <<>> => u = 0)
  BY <1>1, ValueNat
<1>6. ASSUME d # <<>> PROVE u # 0
  <2> DEFINE e == <<>>
  <2>1. e \in Digits /\ Len(e) = 0 /\ ValueOf(e) = 0
    BY EmptyIs
  <2> HIDE DEF e
  <2>2. Len(e) < Len(d)
    BY <1>3, <1>4, <1>6, <2>1
  <2>3. ValueOf(e) < ValueOf(d)
    BY <1>1, <1>2, <1>6, <2>1, <2>2, LessByLength
  <2> QED
    BY <1>5, <2>1, <2>3
<1> HIDE DEF m, u
<1>8. Number(x) = IF x.neg THEN -u ELSE u
  BY <1>1, <1>5, <1>7
<1> QED
  BY <1>1, <1>2, <1>3, <1>4, <1>5, <1>6, <1>8 DEF Shape, d, m, u

\* long_compare orders normalised longs as their numbers.
THEOREM CompareExact ==
  ASSUME NEW a, NEW b, Normal(a), Normal(b)
  PROVE  long_compare(a, b) = Sign(Number(a) - Number(b))
<1> DEFINE m == Len(a.dig)
           n == Len(b.dig)
           u == ValueOf(a.dig)
           w == ValueOf(b.dig)
           da == IF a.neg THEN -m ELSE m
           db == IF b.neg THEN -n ELSE n
           differ == {i \in DOMAIN a.dig : a.dig[i] # b.dig[i]}
           top == Max(differ)
           sign == IF da # db THEN da - db
                   ELSE IF differ = {} THEN 0
                   ELSE (IF a.neg THEN -1 ELSE 1) * (a.dig[top] - b.dig[top])
<1>0. long_compare(a, b) = IF sign < 0 THEN -1 ELSE IF sign > 0 THEN 1 ELSE 0
  BY DEF long_compare
<1>a. Shape(a, m, u) /\ Shape(b, n, w)
  BY NormalFacts
<1>1. /\ m \in Nat /\ u \in Nat /\ (m = 0 <=> u = 0) /\ (a.neg => m # 0)
      /\ a.dig \in [1 .. m -> Digit] /\ DOMAIN a.dig = 1 .. m /\ a.dig \in Digits
      /\ (m # 0 => a.dig[m] # 0)
      /\ Number(a) = (IF a.neg THEN -u ELSE u)
      /\ a.neg \in BOOLEAN
  BY <1>a DEF Shape
<1>2. /\ n \in Nat /\ w \in Nat /\ (n = 0 <=> w = 0) /\ (b.neg => n # 0)
      /\ b.dig \in [1 .. n -> Digit] /\ DOMAIN b.dig = 1 .. n /\ b.dig \in Digits
      /\ (n # 0 => b.dig[n] # 0)
      /\ Number(b) = (IF b.neg THEN -w ELSE w)
      /\ b.neg \in BOOLEAN
  BY <1>a DEF Shape
<1>3. m < n => u < w
  BY <1>1, <1>2, LessByLength
<1>4. n < m => w < u
  BY <1>1, <1>2, LessByLength
<1>5. CASE da # db
  <2> HIDE DEF m, n, u, w, differ, top
  <2>1. Sign(Number(a) - Number(b)) = Sign(da - db)
    <3>1. CASE ~a.neg /\ ~b.neg
      BY <1>1, <1>2, <1>3, <1>4, <1>5, <3>1 DEF Sign
    <3>2. CASE a.neg /\ b.neg
      BY <1>1, <1>2, <1>3, <1>4, <1>5, <3>2 DEF Sign
    <3>3. CASE a.neg /\ ~b.neg
      BY <1>1, <1>2, <3>3 DEF Sign
    <3>4. CASE ~a.neg /\ b.neg
      BY <1>1, <1>2, <3>4 DEF Sign
    <3> QED
      BY <1>1, <1>2, <3>1, <3>2, <3>3, <3>4
  <2> QED
    BY <1>0, <1>5, <2>1 DEF Sign
<1>6. CASE da = db
  <2>1. m = n /\ a.neg = b.neg
    <3> HIDE DEF m, n, u, w
    <3> QED
      BY <1>1, <1>2, <1>6
  <2>2. CASE differ = {}
    <3>1. \A i \in 1 .. m : a.dig[i] = b.dig[i]
      BY <1>1, <2>2
    <3> HIDE DEF m, n
    <3>2. a.dig = b.dig
      BY <1>1, <1>2, <2>1, <3>1
    <3>3. Number(a) - Number(b) = 0
      BY <1>1, <2>1, <3>2 DEF Number, u
    <3> QED
      BY <1>0, <1>6, <2>2, <3>3 DEF Sign
  <2>3. CASE differ # {}
    <3>0. sign = (IF a.neg THEN -1 ELSE 1) * (a.dig[top] - b.dig[top])
      BY <1>6, <2>3
    <3>1. differ \in SUBSET (0 .. m)
      BY <1>1
    <3> HIDE DEF sign
    <3>2. top \in differ /\ \A j \in differ : j <= top
      <4> HIDE DEF differ, m
      <4> QED
        BY <1>1, <2>3, <3>1, MaxFacts
    <3> HIDE DEF top
    <3>3. /\ top \in 1 .. m /\ a.dig[top] # b.dig[top]
          /\ \A j \in top + 1 .. m : a.dig[j] = b.dig[j]
      <4>1. top \in 1 .. m /\ a.dig[top] # b.dig[top]
        BY <1>1, <3>2
      <4>2. ASSUME NEW j \in top + 1 .. m PROVE a.dig[j] = b.dig[j]
        <5>1. j \in 1 .. m /\ ~ (j <= top)
          BY <1>1, <4>1
        <5> QED
          BY <1>1, <3>2, <5>1
      <4> QED
        BY <4>1, <4>2
    <3> DEFINE e == a.dig[top]
               f == b.dig[top]
    <3>4. e \in Int /\ f \in Int /\ e # f
      <4>1. e \in Digit /\ f \in Digit
        BY <1>1, <1>2, <2>1, <3>3
      <4> QED
        BY <3>3, <4>1, BaseFacts DEF Digit
    <3>5. b.dig \in [1 .. m -> Digit]
      BY <1>2, <2>1
    <3> HIDE DEF m, n, differ
    <3>6. e < f => u < w
      BY <1>1, <3>3, <3>5, LessByDigit
    <3>7. f < e => w < u
      BY <1>1, <3>3, <3>5, LessByDigit
    <3> HIDE DEF e, f, u, w
    <3>8. Sign(Number(a) - Number(b)) = IF sign < 0 THEN -1 ELSE IF sign > 0 THEN 1 ELSE 0
      <4>1. CASE a.neg
        <5>1. sign = f - e
          BY <3>0, <3>4, <4>1 DEF e, f
        <5> QED
          BY <1>1, <1>2, <2>1, <3>4, <3>6, <3>7, <4>1, <5>1 DEF Sign
      <4>2. CASE ~a.neg
        <5>1. sign = e - f
          BY <3>0, <3>4, <4>2 DEF e, f
        <5> QED
          BY <1>1, <1>2, <2>1, <3>4, <3>6, <3>7, <4>2, <5>1 DEF Sign
      <4> QED
        BY <4>1, <4>2
    <3> QED
      BY <1>0, <3>8
  <2> QED
    BY <2>2, <2>3
<1> QED
  BY <1>5, <1>6
-----------------------------------------------------------------------------
(* Subtraction *)

\* Turning the sign keeps a long normalised and turns its number.
LEMMA NegateIs ==
  ASSUME NEW x, Normal(x)
  PROVE  Normal(Negate(x)) /\ Number(Negate(x)) = -Number(x)
<1> DEFINE z == Negate(x)
           u == ValueOf(x.dig)
<1>1. Shape(x, Len(x.dig), u)
  BY NormalFacts
<1>2. x \in Longs /\ x.neg \in BOOLEAN /\ u \in Nat /\ (x.dig = <<>> => u = 0 /\ ~x.neg)
  BY <1>1 DEF Shape, Normal
<1>3. z \in Longs /\ z.dig = x.dig /\ (z.neg <=> (~x.neg /\ x.dig # <<>>))
  BY <1>2 DEF Negate, Longs
<1> HIDE DEF z
<1>4. Normal(z)
  BY <1>3 DEF Normal
<1>5. Number(z) = (IF z.neg THEN -1 ELSE 1) * u /\ Number(x) = (IF x.neg THEN -1 ELSE 1) * u
  BY <1>3 DEF Number
<1> HIDE DEF u
<1>6. Number(z) = -Number(x)
  BY <1>2, <1>3, <1>5
<1> QED
  BY <1>4, <1>6 DEF z

\* A borrow at the top outweighs all digits below it.
LEMMA BelowZero ==
  ASSUME NEW m \in Nat, NEW z \in [1 .. m + 1 -> Int], z[m + 1] < 0,
         \A i \in 1 .. m : z[i] <= BASE - 1
  PROVE  ValueOf(z) < 0
<1> DEFINE p == Tops(z)
           S == {k \in 0 .. m : p[k + 1] < 0}
<1>0. m + 1 \in Nat
  OBVIOUS
<1>1. /\ p \in [0 .. m + 1 -> Int] /\ p[0] = 0 /\ ValueOf(z) = p[m + 1]
      /\ \A k \in 1 .. m + 1 : p[k] = p[k - 1] * BASE + z[(m + 1) + 1 - k]
  BY <1>0, TopsIs
<1> HIDE DEF p
<1>2. 0 \in S
  <2>1. 1 \in 1 .. m + 1 /\ 1 - 1 = 0 /\ (m + 1) + 1 - 1 = m + 1 /\ m + 1 \in 1 .. m + 1
    OBVIOUS
  <2>2. p[1] = 0 * BASE + z[m + 1]
    BY <1>1, <2>1
  <2>3. z[m + 1] \in Int
    BY <2>1
  <2>4. p[1] < 0
    BY <2>2, <2>3, BaseFacts
  <2> QED
    BY <2>4
<1>3. ASSUME NEW k \in 0 .. m - 1, k \in S PROVE k + 1 \in S
  <2> DEFINE i == m - k
  <2>1. /\ (k + 1) + 1 \in 1 .. m + 1 /\ ((k + 1) + 1) - 1 = k + 1 /\ (m + 1) + 1 - ((k + 1) + 1) = i
        /\ i \in 1 .. m /\ i \in 1 .. m + 1 /\ k + 1 \in 0 .. m + 1 /\ k + 1 \in 0 .. m
    OBVIOUS
  <2> HIDE DEF i
  <2>2. p[(k + 1) + 1] = p[k + 1] * BASE + z[i]
    BY <1>1, <2>1
  <2>3. p[k + 1] \in Int /\ p[k + 1] < 0 /\ z[i] \in Int /\ z[i] <= BASE - 1
    BY <1>1, <1>3, <2>1
  <2>4. StepOfLess(p[k + 1], 0, z[i], 0)
    BY <2>3, LessSteps
  <2>5. p[k + 1] * BASE + z[i] < 0 * BASE + 0
    BY <2>3, <2>4 DEF StepOfLess
  <2>6. p[(k + 1) + 1] < 0
    BY <2>2, <2>5, BaseFacts
  <2> QED
    BY <2>1, <2>6
<1> HIDE DEF S
<1>4. 0 .. m \subseteq S
  BY <1>2, <1>3, UpTo
<1> QED
  BY <1>1, <1>4 DEF S

\* The borrow out of the difference of two digits is a bit.
LEMMA DivBorrow ==
  ASSUME NEW y \in Int, -BASE <= y, y < BASE
  PROVE  y \div BASE \in -1 .. 0
<1>1. (-1) * BASE <= y /\ y < (0 + 1) * BASE /\ 0 \in Int /\ -1 \in Int
  BY BaseFacts
<1> QED
  BY <1>1, DivBetween

\* v_isub subtracts a vector that is not larger: no borrow is left.
LEMMA ISubIs ==
  ASSUME NEW x \in Digits, NEW y \in Digits, Len(y) <= Len(x), ValueOf(y) <= ValueOf(x)
  PROVE  v_isub(x, y) \in Digits /\ ValueOf(v_isub(x, y)) = ValueOf(x) - ValueOf(y)
<1> DEFINE m == Len(x)
           q == Padded(y, m)
           t == [i \in 1 .. m |-> x[i] - At(y, i)]
           u == ValueOf(x)
           w == ValueOf(y)
           r == Ripple(t, 0)
           d == r.dig
           e == r.carry
<1>0. v_isub(x, y) = d
  BY DEF v_isub
<1>1. m \in Nat /\ x \in [1 .. m -> Digit] /\ Len(y) <= m
  BY AsFunction DEF Digits
<1>2. u \in Nat /\ w \in Nat /\ w <= u
  BY ValueNat
<1>3. /\ q \in [1 .. m -> Digit] /\ q \in [1 .. m -> Int] /\ ValueOf(q) = w
      /\ \A i \in 1 .. m : q[i] = At(y, i)
  BY <1>1, PaddedIs
<1>4. t = [i \in 1 .. m |-> x[i] - q[i]]
  BY <1>3
<1>5. x \in [1 .. m -> Int] /\ u = ValueOf(x)
  BY <1>1, DigitVector
<1> HIDE DEF m, q, t, u, w
<1>6. ASSUME NEW i \in 1 .. m
      PROVE  /\ x[i] \in Int /\ q[i] \in Int /\ t[i] = x[i] - q[i] /\ t[i] \in Int
             /\ -BASE <= t[i] - 1 /\ t[i] < BASE
  BY <1>1, <1>3, <1>4, BaseFacts DEF Digit
<1>7. t \in [1 .. m -> Int]
  BY <1>4, <1>6
<1>8. ValueOf(t) = u - w
  <2>1. -1 \in Int /\ \A i \in 1 .. m : t[i] = x[i] + (-1) * q[i]
    BY <1>6
  <2>2. \A k \in 0 .. m : Tops(t)[k] = Tops(x)[k] + (-1) * Tops(q)[k]
    BY <1>1, <1>3, <1>5, <1>7, <2>1, Linear
  <2>3. Tops(t)[m] = Tops(x)[m] + (-1) * Tops(q)[m]
    BY <1>1, <2>2
  <2>4. ValueOf(t) = Tops(t)[m] /\ ValueOf(x) = Tops(x)[m] /\ ValueOf(q) = Tops(q)[m]
    BY <1>1, <1>3, <1>5, <1>7, TopsIs
  <2> QED
    BY <1>2, <1>3, <1>5, <2>3, <2>4
<1>9. ASSUME NEW k \in 1 .. m, NEW c \in -1 .. 0 PROVE (c + t[k]) \div BASE \in -1 .. 0
  <2> DEFINE s == c + t[k]
  <2>1. s \in Int /\ -BASE <= s /\ s < BASE
    BY <1>6, BaseFacts
  <2> HIDE DEF s
  <2>2. s \div BASE \in -1 .. 0
    BY <2>1, DivBorrow
  <2> QED
    BY <2>2 DEF s
<1>10. Carries(t, 0)[m] \in -1 .. 0
  <2>1. 0 \in -1 .. 0 /\ 0 \in Int /\ m \in 0 .. m
    BY <1>1
  <2> DEFINE C == -1 .. 0
  <2>2. 0 \in C /\ \A k \in 1 .. m : \A c \in C : (c + t[k]) \div BASE \in C
    BY <1>9
  <2> HIDE DEF C
  <2>3. Carries(t, 0)[m] \in C
    BY <1>1, <1>7, <2>1, <2>2, CarriesIn
  <2> QED
    BY <2>3 DEF C
<1>11. d \in [1 .. m -> Digit] /\ e = Carries(t, 0)[m]
  BY <1>1, <1>7, RippleIs DEF Digested
<1>12. d \in [1 .. m -> Int] /\ \A i \in 1 .. m : d[i] <= BASE - 1
  BY <1>1, <1>11, DigitVector
<1> DEFINE z == [i \in 1 .. m + 1 |-> IF i = m + 1 THEN e ELSE d[i]]
<1>13. e \in -1 .. 0 /\ e \in Int
  BY <1>10, <1>11
<1>14. /\ z \in [1 .. m + 1 -> Int] /\ z[m + 1] = e
       /\ \A i \in 1 .. m : z[i] = d[i]
  <2> HIDE DEF d, e
  <2>1. \A i \in 1 .. m : i # m + 1 /\ i \in 1 .. m + 1
    BY <1>1
  <2>2. \A i \in 1 .. m + 1 : i # m + 1 => i \in 1 .. m
    BY <1>1
  <2>3. m + 1 \in 1 .. m + 1
    BY <1>1
  <2> QED
    BY <1>12, <1>13, <2>1, <2>2, <2>3
<1> HIDE DEF z
<1>15. ValueOf(z) = u - w
  <2>1. Rippled(m, t, 0, z)
    BY <1>14 DEF Rippled
  <2>2. ValueOf(z) = ValueOf(t) + 0
    BY <1>1, <1>7, <2>1, RippleValue
  <2> QED
    BY <1>2, <1>8, <2>2
<1> HIDE DEF d, e, r
<1>16. e = 0
  <2>1. ASSUME e < 0 PROVE FALSE
    <3>1. z[m + 1] < 0 /\ \A i \in 1 .. m : z[i] <= BASE - 1
      BY <1>12, <1>14, <2>1
    <3>2. ValueOf(z) < 0
      BY <1>1, <1>14, <3>1, BelowZero
    <3> QED
      BY <1>2, <1>15, <3>2
  <2> QED
    BY <1>13, <2>1
<1>17. ValueOf(z) = ValueOf(d)
  <2>1. m + 1 \in Nat /\ m \in 0 .. m + 1 /\ \A i \in m + 1 .. m + 1 : i = m + 1
    BY <1>1
  <2>2. \A i \in m + 1 .. m + 1 : z[i] = 0
    BY <1>14, <1>16, <2>1
  <2> DEFINE n == m + 1
  <2>3. n \in Nat /\ m \in 0 .. n /\ z \in [1 .. n -> Int] /\ \A i \in m + 1 .. n : z[i] = 0
    BY <1>14, <2>1, <2>2
  <2> HIDE DEF n
  <2>4. Extended(n, m, z, d)
    BY <1>12, <1>14, <2>3 DEF Extended
  <2> QED
    BY <2>4, Aligned
<1>18. d \in Digits
  BY <1>1, <1>11, AsSequence DEF Digits
<1> QED
  BY <1>0, <1>15, <1>17, <1>18 DEF u, w

\* x_sub subtracts the absolute values.
LEMMA XSubIs ==
  ASSUME NEW a, NEW b, Normal(a), Normal(b)
  PROVE  Normal(x_sub(a, b)) /\ Number(x_sub(a, b)) = ValueOf(a.dig) - ValueOf(b.dig)
<1> DEFINE u == ValueOf(a.dig)
           w == ValueOf(b.dig)
           m == Len(a.dig)
           n == Len(b.dig)
           A == Long(FALSE, a.dig)
           B == Long(FALSE, b.dig)
           c == long_compare(A, B)
           Below(x, y) == long_normalize(Long(TRUE, v_isub(x, y)))
           Above(x, y) == long_normalize(Long(FALSE, v_isub(x, y)))
<1>0. x_sub(a, b) = IF c = 0 THEN Long(FALSE, <<>>)
                    ELSE IF c < 0 THEN Below(b.dig, a.dig) ELSE Above(a.dig, b.dig)
  BY DEF x_sub
<1>a. Shape(a, m, u) /\ Shape(b, n, w)
  BY NormalFacts
<1>1. /\ u \in Nat /\ w \in Nat /\ m \in Nat /\ n \in Nat /\ a.dig \in Digits /\ b.dig \in Digits
      /\ (m # 0 => a.dig[m] # 0) /\ (n # 0 => b.dig[n] # 0)
  BY <1>a DEF Shape
<1>2. Normal(A) /\ Number(A) = u
  <2>1. A \in Longs /\ A.dig = a.dig /\ A.neg = FALSE
    BY <1>1 DEF Long, Longs
  <2> HIDE DEF A
  <2>2. Normal(A)
    BY <2>1 DEF Normal
  <2>3. Number(A) = 1 * u
    BY <2>1 DEF Number
  <2> HIDE DEF u
  <2> QED
    BY <1>1, <2>2, <2>3
<1>3. Normal(B) /\ Number(B) = w
  <2>1. B \in Longs /\ B.dig = b.dig /\ B.neg = FALSE
    BY <1>1 DEF Long, Longs
  <2> HIDE DEF B
  <2>2. Normal(B)
    BY <2>1 DEF Normal
  <2>3. Number(B) = 1 * w
    BY <2>1 DEF Number
  <2> HIDE DEF w
  <2> QED
    BY <1>1, <2>2, <2>3
<1> HIDE DEF A, B
<1>4. c = Sign(u - w)
  BY <1>2, <1>3, CompareExact
<1>5. ASSUME NEW x \in Digits, NEW y \in Digits, Len(y) <= Len(x), ValueOf(y) <= ValueOf(x)
      PROVE  /\ Normal(Below(x, y)) /\ Number(Below(x, y)) = ValueOf(y) - ValueOf(x)
             /\ Normal(Above(x, y)) /\ Number(Above(x, y)) = ValueOf(x) - ValueOf(y)
  <2> DEFINE d == v_isub(x, y)
             P == Long(TRUE, d)
             Q == Long(FALSE, d)
             s == ValueOf(x)
             k == ValueOf(y)
  <2>1. d \in Digits /\ ValueOf(d) = s - k
    BY <1>5, ISubIs
  <2>2. s \in Nat /\ k \in Nat
    BY ValueNat
  <2> HIDE DEF d, s, k
  <2>3. P \in Longs /\ Q \in Longs /\ Number(P) = (-1) * ValueOf(d) /\ Number(Q) = 1 * ValueOf(d)
    BY <2>1 DEF Long, Longs, Number
  <2> HIDE DEF P, Q
  <2>4. Number(P) = k - s /\ Number(Q) = s - k
    <3> DEFINE f == ValueOf(d)
    <3>1. f \in Int /\ f = s - k /\ Number(P) = (-1) * f /\ Number(Q) = 1 * f
      BY <2>1, <2>2, <2>3
    <3> HIDE DEF f
    <3> QED
      BY <2>2, <3>1
  <2>5. /\ Normal(long_normalize(P)) /\ Number(long_normalize(P)) = k - s
        /\ Normal(long_normalize(Q)) /\ Number(long_normalize(Q)) = s - k
    BY <2>3, <2>4, NormalizeIs
  <2> QED
    BY <2>5 DEF P, Q, d, s, k
<1> HIDE DEF Below, Above
<1>6. CASE u = w
  <2>1. x_sub(a, b) = Long(FALSE, <<>>)
    <3> HIDE DEF u, w, c
    <3>1. c = 0
      BY <1>1, <1>4, <1>6 DEF Sign
    <3> QED
      BY <1>0, <3>1
  <2> DEFINE Z == Long(FALSE, <<>>)
  <2>2. Z \in Longs /\ Z.dig = <<>> /\ Z.neg = FALSE
    BY EmptyIs DEF Long, Longs
  <2> HIDE DEF Z
  <2>3. Normal(Z)
    BY <2>2 DEF Normal
  <2>4. Number(Z) = 1 * ValueOf(<<>>)
    BY <2>2 DEF Number
  <2>5. Number(Z) = u - w
    <3> HIDE DEF u, w
    <3> QED
      BY <1>1, <1>6, <2>4, EmptyIs
  <2> QED
    BY <2>1, <2>3, <2>5 DEF Z
<1>7. CASE u < w
  <2>1. x_sub(a, b) = Below(b.dig, a.dig)
    <3> HIDE DEF u, w, c
    <3>1. c = -1
      BY <1>1, <1>4, <1>7 DEF Sign
    <3> QED
      BY <1>0, <3>1
  <2>2. m <= n
    <3>1. n < m => w < u
      BY <1>1, LessByLength
    <3> HIDE DEF u, w, m, n
    <3> QED
      BY <1>1, <1>7, <3>1
  <2>3. u <= w
    <3> HIDE DEF u, w
    <3> QED
      BY <1>1, <1>7
  <2>4. Normal(Below(b.dig, a.dig)) /\ Number(Below(b.dig, a.dig)) = u - w
    BY <1>1, <1>5, <2>2, <2>3
  <2> QED
    BY <2>1, <2>4
<1>8. CASE u > w
  <2>1. x_sub(a, b) = Above(a.dig, b.dig)
    <3> HIDE DEF u, w, c
    <3>1. c = 1
      BY <1>1, <1>4, <1>8 DEF Sign
    <3> QED
      BY <1>0, <3>1
  <2>2. n <= m
    <3>1. m < n => u < w
      BY <1>1, LessByLength
    <3> HIDE DEF u, w, m, n
    <3> QED
      BY <1>1, <1>8, <3>1
  <2>3. w <= u
    <3> HIDE DEF u, w
    <3> QED
      BY <1>1, <1>8
  <2>4. Normal(Above(a.dig, b.dig)) /\ Number(Above(a.dig, b.dig)) = u - w
    BY <1>1, <1>5, <2>2, <2>3
  <2> QED
    BY <2>1, <2>4
<1>9. u = w \/ u < w \/ u > w
  <2> HIDE DEF u, w
  <2> QED
    BY <1>1
<1> QED
  BY <1>6, <1>7, <1>8, <1>9

-----------------------------------------------------------------------------
(* Sums and differences of signed longs *)

\* The sum and the difference of the absolute values of normalised longs, and their negatives.
LEMMA Unsigned ==
  ASSUME NEW a, NEW b, Normal(a), Normal(b), NEW u, NEW w, u = ValueOf(a.dig), w = ValueOf(b.dig)
  PROVE  /\ Normal(x_add(a, b)) /\ Number(x_add(a, b)) = u + w
         /\ Normal(Negate(x_add(a, b))) /\ Number(Negate(x_add(a, b))) = -(u + w)
         /\ Normal(x_sub(a, b)) /\ Number(x_sub(a, b)) = u - w
         /\ Normal(Negate(x_sub(a, b))) /\ Number(Negate(x_sub(a, b))) = -(u - w)
<1> DEFINE s == x_add(a, b)
<1>1. a \in Longs /\ b \in Longs /\ u \in Nat /\ w \in Nat
  <2>1. a \in Longs /\ b \in Longs
    BY DEF Normal
  <2> QED
    BY <2>1, ValueNat DEF Longs
<1>2. Normal(s) /\ ~s.neg /\ ValueOf(s.dig) = u + w
  BY <1>1, XAddIs
<1>3. Number(s) = u + w
  <2> HIDE DEF s
  <2>1. Number(s) = 1 * ValueOf(s.dig)
    BY <1>2 DEF Number
  <2> QED
    BY <1>1, <1>2, <2>1
<1>4. Normal(x_sub(a, b)) /\ Number(x_sub(a, b)) = u - w
  BY XSubIs
<1> QED
  BY <1>2, <1>3, <1>4, NegateIs

\* long_add returns the sum, normalised, of any two longs, whatever the width of a digit and the
\* number of digits.
THEOREM AddExact ==
  ASSUME NEW v \in Longs, NEW w \in Longs
  PROVE  Normal(long_add(v, w)) /\ Number(long_add(v, w)) = Number(v) + Number(w)
<1> DEFINE a == long_normalize(v)
           b == long_normalize(w)
           p == ValueOf(a.dig)
           q == ValueOf(b.dig)
<1>1. Normal(a) /\ Number(a) = Number(v) /\ Normal(b) /\ Number(b) = Number(w)
  BY NormalizeIs
<1>2. long_add(v, w) = CASE a.neg /\ b.neg -> Negate(x_add(a, b))
                         [] a.neg /\ ~b.neg -> x_sub(b, a)
                         [] ~a.neg /\ b.neg -> x_sub(a, b)
                         [] OTHER -> x_add(a, b)
  BY DEF long_add
<1> HIDE DEF a, b
<1>3. Shape(a, Len(a.dig), p) /\ Shape(b, Len(b.dig), q)
  BY <1>1, NormalFacts
<1>4. /\ p \in Nat /\ q \in Nat /\ a.neg \in BOOLEAN /\ b.neg \in BOOLEAN
      /\ Number(v) = (IF a.neg THEN -p ELSE p) /\ Number(w) = (IF b.neg THEN -q ELSE q)
  BY <1>1, <1>3 DEF Shape
<1>5. /\ Normal(x_add(a, b)) /\ Number(x_add(a, b)) = p + q
      /\ Normal(Negate(x_add(a, b))) /\ Number(Negate(x_add(a, b))) = -(p + q)
      /\ Normal(x_sub(a, b)) /\ Number(x_sub(a, b)) = p - q
      /\ Normal(x_sub(b, a)) /\ Number(x_sub(b, a)) = q - p
  BY <1>1, Unsigned
<1> HIDE DEF p, q
<1>6. CASE a.neg /\ b.neg
  BY <1>2, <1>4, <1>5, <1>6
<1>7. CASE a.neg /\ ~b.neg
  BY <1>2, <1>4, <1>5, <1>7
<1>8. CASE ~a.neg /\ b.neg
  BY <1>2, <1>4, <1>5, <1>8
<1>9. CASE ~a.neg /\ ~b.neg
  BY <1>2, <1>4, <1>5, <1>9
<1> QED
  BY <1>4, <1>6, <1>7, <1>8, <1>9

\* long_sub returns the difference, normalised, of any two longs.
THEOREM SubExact ==
  ASSUME NEW v \in Longs, NEW w \in Longs
  PROVE  Normal(long_sub(v, w)) /\ Number(long_sub(v, w)) = Number(v) - Number(w)
<1> DEFINE a == long_normalize(v)
           b == long_normalize(w)
           p == ValueOf(a.dig)
           q == ValueOf(b.dig)
<1>1. Normal(a) /\ Number(a) = Number(v) /\ Normal(b) /\ Number(b) = Number(w)
  BY NormalizeIs
<1>2. long_sub(v, w) = CASE a.neg /\ b.neg -> Negate(x_sub(a, b))
                         [] a.neg /\ ~b.neg -> Negate(x_add(a, b))
                         [] ~a.neg /\ b.neg -> x_add(a, b)
                         [] OTHER -> x_sub(a, b)
  BY DEF long_sub
<1> HIDE DEF a, b
<1>3. Shape(a, Len(a.dig), p) /\ Shape(b, Len(b.dig), q)
  BY <1>1, NormalFacts
<1>4. /\ p \in Nat /\ q \in Nat /\ a.neg \in BOOLEAN /\ b.neg \in BOOLEAN
      /\ Number(v) = (IF a.neg THEN -p ELSE p) /\ Number(w) = (IF b.neg THEN -q ELSE q)
  BY <1>1, <1>3 DEF Shape
<1>5. /\ Normal(x_add(a, b)) /\ Number(x_add(a, b)) = p + q
      /\ Normal(Negate(x_add(a, b))) /\ Number(Negate(x_add(a, b))) = -(p + q)
      /\ Normal(x_sub(a, b)) /\ Number(x_sub(a, b)) = p - q
      /\ Normal(Negate(x_sub(a, b))) /\ Number(Negate(x_sub(a, b))) = -(p - q)
  BY <1>1, Unsigned
<1> HIDE DEF p, q
<1>6. CASE a.neg /\ b.neg
  BY <1>2, <1>4, <1>5, <1>6
<1>7. CASE a.neg /\ ~b.neg
  BY <1>2, <1>4, <1>5, <1>7
<1>8. CASE ~a.neg /\ b.neg
  BY <1>2, <1>4, <1>5, <1>8
<1>9. CASE ~a.neg /\ ~b.neg
  BY <1>2, <1>4, <1>5, <1>9
<1> QED
  BY <1>4, <1>6, <1>7, <1>8, <1>9
-----------------------------------------------------------------------------
(* Division by a digit *)

\* A remainder and the next digit, divided by a digit, give one digit of the quotient.
LEMMA QuotientIs ==
  ASSUME NEW n \in Nat \ {0}, NEW r \in 0 .. n - 1, NEW d \in Digit
  PROVE  LET y == r * BASE + d
         IN  y \div n \in Digit /\ y = (y \div n) * n + (y % n)
<1> DEFINE y == r * BASE + d
           q == y \div n
           p == r * BASE
<1>1. /\ n \in Int /\ r \in Int /\ 0 <= r /\ r <= n - 1 /\ d \in Int /\ 0 <= d /\ d <= BASE - 1
      /\ BASE \in Int /\ BASE \in Nat
  BY BaseFacts DEF Digit
<1>2. 0 <= p /\ p <= n * BASE - BASE /\ p \in Int /\ n * BASE \in Int
  <2>1. 0 * BASE <= r * BASE /\ r * BASE <= (n - 1) * BASE
    BY <1>1, TimesMonotonic
  <2>2. (n - 1) * BASE = n * BASE - BASE /\ 0 * BASE = 0 /\ r * BASE \in Int /\ n * BASE \in Int
    BY <1>1
  <2> QED
    BY <2>1, <2>2
<1> HIDE DEF p
<1>3. y \in Int /\ 0 <= y /\ y < n * BASE
  BY <1>1, <1>2 DEF p
<1> HIDE DEF y
<1>4. q \in Int /\ y = n * q + (y % n) /\ y % n \in 0 .. n - 1
  BY <1>3, DivMod, ModRange
<1>5. y % n \in Int /\ 0 <= y % n /\ y % n < n
  BY <1>1, <1>4
<1> HIDE DEF q
<1>6. y = q * n + (y % n) /\ q * n \in Int
  BY <1>1, <1>4
<1>7. ASSUME q < 0 PROVE FALSE
  <2>1. (q + 1) * n <= 0 * n
    BY <1>1, <1>4, <1>7, TimesMonotonic
  <2>2. (q + 1) * n = q * n + n /\ 0 * n = 0
    BY <1>1, <1>4
  <2> QED
    BY <1>1, <1>3, <1>5, <1>6, <2>1, <2>2
<1>8. ASSUME q >= BASE PROVE FALSE
  <2>1. BASE * n <= q * n
    BY <1>1, <1>4, <1>8, TimesMonotonic
  <2>2. BASE * n = n * BASE /\ BASE * n \in Int
    BY <1>1
  <2> QED
    BY <1>1, <1>3, <1>5, <1>6, <2>1, <2>2
<1>9. q \in Digit
  BY <1>1, <1>4, <1>7, <1>8 DEF Digit
<1> QED
  BY <1>6, <1>9 DEF q, y

\* One digit of a quotient, and the value of the digits so far.
StepOfQuotient(u, p, r, q, d, s, n) ==
  u = p * n + r /\ r * BASE + d = q * n + s => u * BASE + d = (p * BASE + q) * n + s
\* One step of a division by a digit keeps dividend = quotient * divisor + remainder.
LEMMA QuotientSteps == \A u, p, r, q, d, s, n \in Int : StepOfQuotient(u, p, r, q, d, s, n)
<1> TAKE u, p, r, q, d, s, n \in Int
<1>1. BASE \in Int
  BY BaseFacts
<1>2. ASSUME u = p * n + r, r * BASE + d = q * n + s PROVE u * BASE + d = (p * BASE + q) * n + s
  <2>1. u * BASE = (p * n) * BASE + r * BASE
    BY <1>1, <1>2, Times
  <2>2. (p * n) * BASE = (p * BASE) * n
    BY <1>1
  <2>3. (p * BASE + q) * n = (p * BASE) * n + q * n
    BY <1>1
  <2> DEFINE e == (p * BASE) * n
             f == r * BASE
             g == q * n
  <2>4. e \in Int /\ f \in Int /\ g \in Int
    BY <1>1
  <2>5. u * BASE = e + f /\ f + d = g + s /\ (p * BASE + q) * n = e + g
    BY <1>2, <2>1, <2>2, <2>3
  <2> HIDE DEF e, f, g
  <2> QED
    BY <2>4, <2>5
<1> QED
  BY <1>2 DEF StepOfQuotient

\* divrem1 divides the absolute value by a digit.
THEOREM DivRemExact ==
  ASSUME NEW a \in Longs, NEW n \in Digit \ {0}
  PROVE  LET r == divrem1(a, n)
         IN  /\ Normal(r.div) /\ ~r.div.neg /\ r.rem \in 0 .. n - 1
             /\ ValueOf(a.dig) = ValueOf(r.div.dig) * n + r.rem
<1> DEFINE d == a.dig
           m == Len(d)
           rem == Remainders(d, n)
           q == [i \in 1 .. m |-> (rem[m - i] * BASE + d[i]) \div n]
           s == Tops(d)
           p == Tops(q)
           z == long_normalize(Long(FALSE, q))
           S == {k \in 0 .. m : s[k] = p[k] * n + rem[k]}
<1>0. divrem1(a, n).div = z /\ divrem1(a, n).rem = rem[m]
  BY DEF divrem1, inplace_divrem1
<1>1. m \in Nat /\ d \in [1 .. m -> Digit]
  BY AsFunction DEF Longs, Digits
<1> HIDE DEF m, d
<1>2. n \in Nat \ {0} /\ n \in Int /\ d \in [1 .. m -> Nat] /\ d \in [1 .. m -> Int]
  BY <1>1, BaseFacts, DigitVector DEF Digit
<1>3. /\ rem \in [0 .. m -> 0 .. n - 1] /\ rem[0] = 0
      /\ \A k \in 1 .. m : rem[k] = (rem[k - 1] * BASE + d[m + 1 - k]) % n
  BY <1>1, <1>2, RemaindersIs
<1> HIDE DEF rem
<1>4. ASSUME NEW k \in 0 .. m - 1
      PROVE  LET i == m - k IN
             /\ i \in 1 .. m /\ q[i] \in Digit
             /\ rem[k] * BASE + d[i] = q[i] * n + rem[k + 1]
  <2> DEFINE i == m - k
             y == rem[k] * BASE + d[i]
  <2>1. i \in 1 .. m /\ m - i = k /\ k + 1 \in 1 .. m /\ (k + 1) - 1 = k /\ m + 1 - (k + 1) = i /\ k \in 0 .. m
    BY <1>1
  <2>2. q[i] = y \div n /\ rem[k + 1] = y % n
    BY <1>3, <2>1
  <2>3. rem[k] \in 0 .. n - 1 /\ d[i] \in Digit
    BY <1>1, <1>3, <2>1
  <2> HIDE DEF i, q
  <2>4. y \div n \in Digit /\ y = (y \div n) * n + (y % n)
    BY <1>2, <2>3, QuotientIs
  <2> QED
    BY <2>1, <2>2, <2>4 DEF i
<1>5. q \in [1 .. m -> Digit]
  <2>1. ASSUME NEW i \in 1 .. m PROVE q[i] \in Digit
    <3>1. m - i \in 0 .. m - 1 /\ m - (m - i) = i
      BY <1>1
    <3> HIDE DEF q
    <3> QED
      BY <1>4, <3>1
  <2>2. q = [i \in 1 .. m |-> q[i]]
    OBVIOUS
  <2> HIDE DEF q
  <2> QED
    BY <2>1, <2>2
<1> HIDE DEF q
<1>6. q \in [1 .. m -> Int] /\ q \in Digits
  BY <1>1, <1>5, DigitVector, AsSequence DEF Digits
<1>7. /\ s \in [0 .. m -> Int] /\ s[0] = 0 /\ ValueOf(d) = s[m]
      /\ \A k \in 1 .. m : s[k] = s[k - 1] * BASE + d[m + 1 - k]
  BY <1>1, <1>2, TopsIs
<1>8. /\ p \in [0 .. m -> Int] /\ p[0] = 0 /\ ValueOf(q) = p[m]
      /\ \A k \in 1 .. m : p[k] = p[k - 1] * BASE + q[m + 1 - k]
  BY <1>1, <1>6, TopsIs
<1> HIDE DEF s, p
<1>9. 0 \in S
  BY <1>1, <1>2, <1>3, <1>7, <1>8
<1>10. ASSUME NEW k \in 0 .. m - 1, k \in S PROVE k + 1 \in S
  <2> DEFINE i == m - k
  <2>1. k + 1 \in 1 .. m /\ (k + 1) - 1 = k /\ m + 1 - (k + 1) = i /\ i \in 1 .. m /\ k \in 0 .. m /\ k + 1 \in 0 .. m
    BY <1>1
  <2>2. rem[k] * BASE + d[i] = q[i] * n + rem[k + 1]
    BY <1>4
  <2> HIDE DEF i
  <2>3. s[k + 1] = s[k] * BASE + d[i] /\ p[k + 1] = p[k] * BASE + q[i] /\ s[k] = p[k] * n + rem[k]
    BY <1>7, <1>8, <1>10, <2>1
  <2>4. /\ s[k] \in Int /\ p[k] \in Int /\ rem[k] \in Int /\ q[i] \in Int /\ d[i] \in Int
        /\ rem[k + 1] \in Int
    <3>1. rem[k] \in 0 .. n - 1 /\ rem[k + 1] \in 0 .. n - 1
      BY <1>3, <2>1
    <3>2. rem[k] \in Int /\ rem[k + 1] \in Int
      BY <1>2, <3>1
    <3>3. s[k] \in Int /\ p[k] \in Int
      BY <1>7, <1>8, <2>1
    <3>4. q[i] \in Int /\ d[i] \in Int
      BY <1>2, <1>6, <2>1
    <3> QED
      BY <3>2, <3>3, <3>4
  <2>5. StepOfQuotient(s[k], p[k], rem[k], q[i], d[i], rem[k + 1], n)
    BY <1>2, <2>4, QuotientSteps
  <2>6. s[k + 1] = p[k + 1] * n + rem[k + 1]
    BY <2>2, <2>3, <2>5 DEF StepOfQuotient
  <2> QED
    BY <2>1, <2>6
<1> HIDE DEF S
<1>11. 0 .. m \subseteq S
  BY <1>1, <1>9, <1>10, UpTo
<1>12. ValueOf(d) = ValueOf(q) * n + rem[m] /\ rem[m] \in 0 .. n - 1
  BY <1>1, <1>3, <1>7, <1>8, <1>11 DEF S
<1>13. Long(FALSE, q) \in Longs /\ Long(FALSE, q).dig = q /\ Long(FALSE, q).neg = FALSE
  BY <1>6 DEF Long, Longs
<1>14. ~z.neg
  BY <1>13 DEF long_normalize, Long
<1>15. Normal(z) /\ ValueOf(z.dig) = ValueOf(q)
  BY <1>13, NormalizeIs
<1> HIDE DEF z
<1> QED
  BY <1>0, <1>12, <1>14, <1>15 DEF d
-----------------------------------------------------------------------------
(* Multiplication *)

\* The most significant digits of a vector are a vector of their own.
LEMMA TopSlice ==
  ASSUME NEW N \in Nat, NEW n \in 0 .. N, NEW x \in [1 .. N -> Int], NEW s \in [1 .. n -> Int],
         \A j \in 1 .. n : s[j] = x[(N - n) + j]
  PROVE  Tops(x)[n] = ValueOf(s)
<1> DEFINE p == Tops(x)
           q == Tops(s)
           S == {k \in 0 .. n : p[k] = q[k]}
<1>0. n \in Nat
  OBVIOUS
<1>1. p[0] = 0 /\ \A k \in 1 .. N : p[k] = p[k - 1] * BASE + x[N + 1 - k]
  BY TopsIs
<1>2. /\ q[0] = 0 /\ ValueOf(s) = q[n]
      /\ \A k \in 1 .. n : q[k] = q[k - 1] * BASE + s[n + 1 - k]
  BY <1>0, TopsIs
<1> HIDE DEF p, q
<1>3. 0 \in S
  BY <1>0, <1>1, <1>2
<1>4. ASSUME NEW k \in 0 .. n - 1, k \in S PROVE k + 1 \in S
  <2> DEFINE j == n - k
  <2>1. /\ k + 1 \in 1 .. n /\ k + 1 \in 1 .. N /\ (k + 1) - 1 = k /\ n + 1 - (k + 1) = j
        /\ N + 1 - (k + 1) = (N - n) + j /\ j \in 1 .. n
    OBVIOUS
  <2> HIDE DEF j
  <2>2. /\ p[k + 1] = p[k] * BASE + x[(N - n) + j] /\ q[k + 1] = q[k] * BASE + s[j]
        /\ p[k] = q[k] /\ s[j] = x[(N - n) + j]
    BY <1>1, <1>2, <1>4, <2>1
  <2>3. p[k + 1] = q[k + 1]
    BY <2>2
  <2> QED
    BY <2>1, <2>3
<1> HIDE DEF S
<1>5. 0 .. n \subseteq S
  BY <1>0, <1>3, <1>4, UpTo
<1> QED
  BY <1>0, <1>2, <1>5 DEF S, p

\* The digits are worth the terms when no carry is left.
LEMMA RippleExact ==
  ASSUME NEW m \in Nat, NEW t \in [1 .. m -> Int], Carries(t, 0)[m] = 0
  PROVE  ValueOf(Ripple(t, 0).dig) = ValueOf(t)
<1> DEFINE d == Ripple(t, 0).dig
           e == Ripple(t, 0).carry
           n == m + 1
           z == [i \in 1 .. n |-> IF i = n THEN e ELSE d[i]]
<1>1. d \in [1 .. m -> Digit] /\ e = 0
  BY RippleIs DEF Digested
<1>2. d \in [1 .. m -> Int]
  BY <1>1, DigitVector
<1>3. /\ n \in Nat /\ m \in 0 .. n /\ (\A i \in 1 .. m : i # n /\ i \in 1 .. n)
      /\ (\A i \in 1 .. n : i # n => i \in 1 .. m) /\ (\A i \in m + 1 .. n : i = n) /\ n \in 1 .. n
  OBVIOUS
<1>4. z \in [1 .. n -> Int] /\ z[n] = e /\ z[n] = 0 /\ \A i \in 1 .. m : z[i] = d[i]
  <2> HIDE DEF d, e, n
  <2> QED
    BY <1>1, <1>2, <1>3
<1> HIDE DEF z
<1>5. Rippled(m, t, 0, z)
  BY <1>4 DEF Rippled
<1> HIDE DEF d, e
<1>6. ValueOf(z) = ValueOf(t) + 0
  BY <1>5, RippleValue
<1>7. ValueOf(t) \in Int
  BY TopsIs
<1> HIDE DEF n
<1>8. /\ n \in Nat /\ m \in 0 .. n /\ z \in [1 .. n -> Int]
      /\ (\A i \in 1 .. m : z[i] = d[i]) /\ (\A i \in m + 1 .. n : z[i] = 0)
  BY <1>3, <1>4
<1>9. ValueOf(z) = ValueOf(d)
  <2>1. Extended(n, m, z, d)
    BY <1>2, <1>8 DEF Extended
  <2> QED
    BY <2>1, Aligned
<1> QED
  BY <1>6, <1>7, <1>9 DEF d

\* The terms of the row i, and a vector y that has the row in it.
RowTerms(N, z, a, b, i) == [j \in 1 .. N - i + 1 |-> z[i + j - 1] + a[i] * At(b, j)]
HasRow(N, n, t, z, i, y) ==
  /\ n \in Nat /\ t \in [1 .. n -> Int] /\ Ripple(t, 0).dig \in [1 .. n -> Digit]
  /\ y \in [1 .. N -> Digit]
  /\ \A k \in 1 .. i - 1 : y[k] = z[k]
  /\ \A k \in i .. N : y[k] = Ripple(t, 0).dig[k - i + 1]

\* AddRow changes no digit below its row, and keeps the length.
LEMMA AddRowKeeps ==
  ASSUME NEW N \in Nat, NEW z \in [1 .. N -> Digit], NEW a, NEW b, NEW i \in 1 .. N,
         a[i] \in Digit, b \in Digits
  PROVE  HasRow(N, N - i + 1, RowTerms(N, z, a, b, i), z, i, AddRow(z, a, b, i))
<1> DEFINE n == N - i + 1
           t == [j \in 1 .. n |-> z[i + j - 1] + a[i] * At(b, j)]
           row == Ripple(t, 0).dig
           y == AddRow(z, a, b, i)
<1>1. z \in Seq(Digit) /\ Len(z) = N
  BY AsSequence
<1>2. y = [k \in 1 .. N |-> IF k < i THEN z[k] ELSE row[k - i + 1]]
  BY <1>1 DEF AddRow
<1>3. n \in Nat /\ (\A j \in 1 .. n : i + j - 1 \in 1 .. N) /\ (\A k \in i .. N : k - i + 1 \in 1 .. n)
  OBVIOUS
<1>4. \A j \in 1 .. n : At(b, j) \in Digit
  <2>1. b \in [1 .. Len(b) -> Digit] /\ DOMAIN b = 1 .. Len(b)
    BY AsFunction DEF Digits
  <2>2. 0 \in Digit
    BY BaseFacts DEF Digit
  <2> QED
    BY <2>1, <2>2 DEF At
<1>5. ASSUME NEW j \in 1 .. n PROVE z[i + j - 1] + a[i] * At(b, j) \in Int
  <2>1. z[i + j - 1] \in Digit /\ At(b, j) \in Digit
    BY <1>3, <1>4
  <2>2. z[i + j - 1] \in Int /\ At(b, j) \in Int /\ a[i] \in Int
    BY <2>1, BaseFacts DEF Digit
  <2> QED
    BY <2>2
<1>6. t \in [1 .. n -> Int]
  BY <1>5
<1> HIDE DEF t, n
<1>7. row \in [1 .. n -> Digit]
  BY <1>3, <1>6, RippleIs DEF Digested
<1> HIDE DEF row, y
<1>8. \A k \in 1 .. N : (IF k < i THEN z[k] ELSE row[k - i + 1]) \in Digit
  <2> TAKE k \in 1 .. N
  <2>1. CASE k < i
    BY <2>1
  <2>2. CASE ~ (k < i)
    <3>1. k \in i .. N
      BY <2>2
    <3> QED
      BY <1>3, <1>7, <2>2, <3>1
  <2> QED
    BY <2>1, <2>2
<1>9. y \in [1 .. N -> Digit]
  BY <1>2, <1>8
<1>10. (\A k \in 1 .. i - 1 : y[k] = z[k]) /\ (\A k \in i .. N : y[k] = row[k - i + 1])
  <2>1. \A k \in 1 .. i - 1 : k \in 1 .. N /\ k < i
    OBVIOUS
  <2>2. \A k \in i .. N : k \in 1 .. N /\ ~ (k < i)
    OBVIOUS
  <2> QED
    BY <1>2, <2>1, <2>2
<1> QED
  BY <1>3, <1>6, <1>7, <1>9, <1>10 DEF t, n, row, y, HasRow, RowTerms

\* The row i of a product is in the vector; its carry ended, and fitted into two digits.
RowAdded(N, z, a, b, i) ==
  LET y == AddRow(z, a, b, i)
      t == RowTerms(N, z, a, b, i)
      c == Carries(t, 0)
  IN  /\ \A k \in i + Len(b) + 1 .. N : y[k] = 0
      /\ Tops(y)[N - i + 1] = Tops(z)[N - i + 1] + a[i] * ValueOf(b)
      /\ \A k \in Len(b) + 1 .. N - i + 1 : c[k] = 0
      /\ \A k \in 1 .. N - i + 1 : c[k - 1] + t[k] \in 0 .. BASE * BASE - 1
\* What a row of the product adds: the value from its place on grows by a multiple of b, and the
\* carry ends in the first digit that is still zero.
LEMMA AddRowIs ==
  ASSUME NEW N \in Nat, NEW z \in [1 .. N -> Digit], NEW a, NEW b, NEW i \in 1 .. N,
         a[i] \in Digit, b \in Digits, i + Len(b) <= N,
         \A k \in i + Len(b) .. N : z[k] = 0
  PROVE  RowAdded(N, z, a, b, i)
<1> DEFINE n == N - i + 1
           h == Len(b)
           e == a[i]
           t == [j \in 1 .. n |-> z[i + j - 1] + a[i] * At(b, j)]
           row == Ripple(t, 0).dig
           y == AddRow(z, a, b, i)
           x == [j \in 1 .. n |-> z[i + j - 1]]
           q == Padded(b, n)
           c == Carries(t, 0)
<1>0. HasRow(N, n, t, z, i, y)
  <2>1. t = RowTerms(N, z, a, b, i)
    BY DEF RowTerms
  <2> HIDE DEF t
  <2>2. HasRow(N, N - i + 1, RowTerms(N, z, a, b, i), z, i, AddRow(z, a, b, i))
    BY AddRowKeeps
  <2> QED
    BY <2>1, <2>2
<1>1. /\ n \in Nat /\ t \in [1 .. n -> Int] /\ row \in [1 .. n -> Digit]
      /\ y \in [1 .. N -> Digit]
      /\ \A k \in i .. N : y[k] = row[k - i + 1]
  BY <1>0 DEF HasRow
<1>2. /\ h \in Nat /\ h + 1 <= n /\ h <= n /\ n \in 0 .. N /\ (\A j \in 1 .. n : i + j - 1 \in 1 .. N)
      /\ \A j \in 1 .. n : (N - n) + j = i + j - 1
  <2>1. h \in Nat
    BY AsFunction DEF Digits
  <2> QED
    BY <2>1
<1>3. /\ x \in [1 .. n -> Digit]
      /\ \A j \in 1 .. n : x[j] = z[i + j - 1]
  BY <1>2
<1>4. /\ q \in [1 .. n -> Digit] /\ q \in [1 .. n -> Int] /\ ValueOf(q) = ValueOf(b)
      /\ \A j \in 1 .. n : q[j] = At(b, j)
      /\ \A j \in h + 1 .. n : At(b, j) = 0
  <2>1. n \in Nat /\ Len(b) <= n
    BY <1>1, <1>2
  <2> HIDE DEF n
  <2> QED
    BY <2>1, PaddedIs
<1>5. e \in Digit /\ e \in Int /\ \A j \in 1 .. n : t[j] = x[j] + e * q[j]
  <2>1. e \in Digit /\ e \in Int
    BY BaseFacts DEF Digit
  <2> QED
    BY <1>3, <1>4, <2>1
<1>6. x \in [1 .. n -> Int]
  BY <1>1, <1>3, DigitVector
<1> HIDE DEF n, h, e, t, x, q, y
<1>b. n \in Nat /\ t \in [1 .. n -> Int] /\ 0 \in Int
  BY <1>1
<1>7. /\ c \in [0 .. n -> Int] /\ c[0] = 0
      /\ \A k \in 1 .. n : c[k] = (c[k - 1] + t[k]) \div BASE
  BY <1>b, CarriesIs
<1>8. \A k \in 1 .. n : c[k - 1] + t[k] = c[k] * BASE + row[k]
  <2>1. Digested(n, t, 0)
    BY <1>b, RippleIs
  <2> QED
    BY <2>1 DEF Digested
<1> HIDE DEF row, c
<1>9. \A k \in 0 .. n : c[k] \in Digit
  <2>1. ASSUME NEW k \in 1 .. n, NEW g \in Digit PROVE (g + t[k]) \div BASE \in Digit
    <3>1. x[k] \in Digit /\ q[k] \in Digit /\ t[k] = x[k] + e * q[k]
      BY <1>3, <1>4, <1>5
    <3> QED
      BY <1>5, <3>1, DivDigit
  <2>2. 0 \in Digit /\ 0 \in Int
    BY BaseFacts DEF Digit
  <2> QED
    BY <1>1, <2>1, <2>2, CarriesIn DEF c
<1>10. ASSUME NEW k \in h + 1 .. n
       PROVE  t[k] = 0 /\ c[k] = 0 /\ k \in 1 .. n /\ k - 1 \in 0 .. n /\ c[k - 1] \in Digit
  <2>1. k \in 1 .. n /\ k - 1 \in 0 .. n /\ i + k - 1 \in i + h .. N
    BY <1>2 DEF n
  <2>2. x[k] = 0
    BY <1>3, <2>1 DEF h
  <2>3. q[k] = 0
    BY <1>4, <2>1
  <2>4. t[k] = 0
    BY <1>5, <2>1, <2>2, <2>3
  <2>5. c[k - 1] \in Digit
    BY <1>9, <2>1
  <2>6. c[k] = (c[k - 1] + 0) \div BASE
    BY <1>7, <2>1, <2>4
  <2>7. c[k] = 0
    <3> DEFINE g == c[k - 1]
    <3>1. g \in Int /\ 0 <= g /\ g < BASE /\ g + 0 = g
      BY <2>5, BaseFacts DEF Digit
    <3> HIDE DEF g
    <3>2. 0 * BASE <= g /\ g < (0 + 1) * BASE /\ 0 \in Int
      BY <3>1, BaseFacts
    <3>3. g \div BASE \in 0 .. 0
      BY <3>1, <3>2, DivBetween
    <3>4. c[k] = g \div BASE
      BY <2>6, <3>1 DEF g
    <3> QED
      BY <3>3, <3>4
  <2> QED
    BY <2>1, <2>4, <2>5, <2>7
<1>11. c[n] = 0
  <2>1. n \in h + 1 .. n
    BY <1>1, <1>2
  <2> QED
    BY <1>10, <2>1
<1>12. ASSUME NEW k \in i + h + 1 .. N PROVE y[k] = 0
  <2> DEFINE j == k - i + 1
  <2>1. j \in h + 1 .. n /\ j \in 1 .. n /\ j - 1 \in h + 1 .. n /\ k \in i .. N
    BY <1>2 DEF n
  <2>2. y[k] = row[j]
    BY <1>1, <2>1
  <2> HIDE DEF j
  <2>3. c[j - 1] = 0 /\ t[j] = 0 /\ c[j] = 0
    BY <1>10, <2>1
  <2>4. c[j - 1] + t[j] = c[j] * BASE + row[j]
    BY <1>8, <2>1
  <2>5. row[j] \in Int
    <3>1. row[j] \in Digit
      BY <1>1, <2>1
    <3> QED
      BY <3>1, BaseFacts DEF Digit
  <2>6. row[j] = 0
    BY <2>3, <2>4, <2>5, BaseFacts
  <2> QED
    BY <2>2, <2>6
<1>13. ValueOf(row) = ValueOf(t)
  BY <1>1, <1>11, RippleExact DEF c, row
<1>14. ValueOf(t) = ValueOf(x) + e * ValueOf(q)
  <2>1. \A k \in 0 .. n : Tops(t)[k] = Tops(x)[k] + e * Tops(q)[k]
    BY <1>1, <1>4, <1>5, <1>6, Linear
  <2>2. ValueOf(t) = Tops(t)[n] /\ ValueOf(x) = Tops(x)[n] /\ ValueOf(q) = Tops(q)[n]
    BY <1>1, <1>4, <1>6, TopsIs
  <2> QED
    BY <1>1, <2>1, <2>2
<1>15. Tops(z)[n] = ValueOf(x)
  <2>1. z \in [1 .. N -> Int]
    BY DigitVector
  <2>2. \A j \in 1 .. n : x[j] = z[(N - n) + j]
    BY <1>2, <1>3
  <2> QED
    BY <1>2, <1>6, <2>1, <2>2, TopSlice
<1>16. Tops(y)[n] = ValueOf(row)
  <2>1. y \in [1 .. N -> Int] /\ row \in [1 .. n -> Int]
    BY <1>1, DigitVector
  <2>2. \A j \in 1 .. n : row[j] = y[(N - n) + j]
    <3> TAKE j \in 1 .. n
    <3>1. (N - n) + j \in i .. N /\ ((N - n) + j) - i + 1 = j
      BY <1>2 DEF n
    <3> QED
      BY <1>1, <3>1
  <2> QED
    BY <1>2, <2>1, <2>2, TopSlice
<1>17. Tops(y)[n] = Tops(z)[n] + e * ValueOf(b)
  BY <1>4, <1>13, <1>14, <1>15, <1>16
<1>18. ASSUME NEW k \in 1 .. n PROVE c[k - 1] + t[k] \in 0 .. BASE * BASE - 1
  <2>1. k - 1 \in 0 .. n
    BY <1>1
  <2>2. c[k - 1] \in Digit /\ x[k] \in Digit /\ q[k] \in Digit /\ e \in Digit
    BY <1>3, <1>4, <1>5, <1>9, <2>1
  <2>3. c[k - 1] + (x[k] + e * q[k]) \in 0 .. BASE * BASE - 1
    BY <2>2, DivDigit
  <2> QED
    BY <1>5, <2>3
<1>19. t = RowTerms(N, z, a, b, i)
  BY DEF t, n, RowTerms
<1>20. \A k \in h + 1 .. n : c[k] = 0
  BY <1>10
<1>21. /\ \A k \in h + 1 .. n : Carries(RowTerms(N, z, a, b, i), 0)[k] = 0
       /\ \A k \in 1 .. n : Carries(RowTerms(N, z, a, b, i), 0)[k - 1]
                            + RowTerms(N, z, a, b, i)[k] \in 0 .. BASE * BASE - 1
  BY <1>18, <1>19, <1>20 DEF c
<1> QED
  BY <1>12, <1>17, <1>21 DEF n, h, e, y, RowAdded
Vectors(N) == [1 .. N -> Digit]

\* The rows of a product, one after the other.
RowsOf(a, b, m, N, z) ==
  /\ z \in [0 .. m -> Vectors(N)]
  /\ \A k \in 1 .. N : z[0][k] = 0
  /\ \A i \in 1 .. m : z[i] = AddRow(z[i - 1], a, b, i)
\* Rows is the function its equation describes: z after each turn of x_mul.
LEMMA RowsIs ==
  ASSUME NEW a \in Digits, NEW b \in Digits
  PROVE  RowsOf(a, b, Len(a), Len(a) + Len(b), Rows(a, b))
<1> DEFINE m == Len(a)
           N == Len(a) + Len(b)
           V == Vectors(N)
           o == Zeros(N)
           G == [i \in 1 .. m |-> [x \in V |-> AddRow(x, a, b, i)]]
           All(f) == f = [i \in 0 .. m |-> IF i = 0 THEN o ELSE AddRow(f[i - 1], a, b, i)]
<1>1. m \in Nat /\ N \in Nat /\ m <= N /\ a \in [1 .. m -> Digit]
  <2>1. m \in Nat /\ a \in [1 .. m -> Digit] /\ Len(b) \in Nat
    BY AsFunction DEF Digits
  <2> QED
    BY <2>1
<1>2. o \in V /\ \A k \in 1 .. N : o[k] = 0
  <2>1. 0 \in Digit
    BY BaseFacts DEF Digit
  <2> QED
    BY <2>1 DEF Vectors, Zeros
<1>3. Rows(a, b) = CHOOSE f : All(f)
  BY DEF Rows
<1> HIDE DEF m, N, o
<1>4. \A i \in 1 .. m, x \in V : AddRow(x, a, b, i) \in V
  <2> TAKE i \in 1 .. m, x \in V
  <2>1. i \in 1 .. N /\ a[i] \in Digit /\ x \in [1 .. N -> Digit]
    BY <1>1 DEF Vectors
  <2>2. HasRow(N, N - i + 1, RowTerms(N, x, a, b, i), x, i, AddRow(x, a, b, i))
    BY <1>1, <2>1, AddRowKeeps
  <2> QED
    BY <2>2 DEF HasRow, Vectors
<1> HIDE DEF V
<1>5. G \in Steps(V, m) /\ \A i \in 1 .. m, x \in V : G[i][x] = AddRow(x, a, b, i)
  BY <1>4 DEF Steps
<1> HIDE DEF G
<1>6. Iterates(V, o, m, G)
  BY <1>1, <1>2, <1>5, Iterated
<1>7. PICK f \in [0 .. m -> V] : f[0] = o /\ \A i \in 1 .. m : f[i] = G[i][f[i - 1]]
  BY <1>6 DEF Iterates
<1>8. \A i \in 1 .. m : f[i] = AddRow(f[i - 1], a, b, i)
  <2>1. \A i \in 1 .. m : f[i - 1] \in V
    BY <1>1
  <2> QED
    BY <1>5, <1>7, <2>1
<1>9. All(f)
  BY <1>7, <1>8
<1> DEFINE g == Rows(a, b)
<1>10. All(g)
  BY <1>3, <1>9
<1> HIDE DEF g
<1>11. g = [i \in 0 .. m |-> IF i = 0 THEN o ELSE AddRow(g[i - 1], a, b, i)]
  BY <1>10
<1> HIDE DEF All
<1>12. g[0] = o /\ \A i \in 1 .. m : g[i] = AddRow(g[i - 1], a, b, i)
  <2>1. 0 \in 0 .. m /\ \A i \in 1 .. m : i \in 0 .. m /\ i # 0
    BY <1>1
  <2> QED
    BY <1>11, <2>1
<1>13. Alike(m, f, g)
  BY <1>7, <1>8, <1>11, <1>12 DEF Alike
<1>14. g = f
  BY <1>1, <1>13, SameIteration
<1> QED
  BY <1>2, <1>12, <1>14 DEF RowsOf, V, m, N, g

\* One more digit of the product of the upper digits.
StepOfProduct(u, w, s, t, e, d, v) ==
  u = w + t * v /\ w * BASE + d = s + e * v => u * BASE + d = s + (t * BASE + e) * v
\* One row of the product and what the rows above it make of the upper digits.
LEMMA ProductSteps == \A u, w, s, t, e, d, v \in Int : StepOfProduct(u, w, s, t, e, d, v)
<1> TAKE u, w, s, t, e, d, v \in Int
<1>1. BASE \in Int
  BY BaseFacts
<1>2. ASSUME u = w + t * v, w * BASE + d = s + e * v PROVE u * BASE + d = s + (t * BASE + e) * v
  <2>1. u * BASE = w * BASE + (t * v) * BASE
    BY <1>1, <1>2, Times
  <2>2. (t * v) * BASE = (t * BASE) * v
    BY <1>1
  <2>3. (t * BASE + e) * v = (t * BASE) * v + e * v
    BY <1>1
  <2> DEFINE p == w * BASE
             f == (t * BASE) * v
             g == e * v
  <2>4. p \in Int /\ f \in Int /\ g \in Int
    BY <1>1
  <2>5. u * BASE = p + f /\ p + d = s + g /\ (t * BASE + e) * v = f + g
    BY <1>2, <2>1, <2>2, <2>3
  <2> HIDE DEF p, f, g
  <2> QED
    BY <2>4, <2>5
<1> QED
  BY <1>2 DEF StepOfProduct

\* Row after row, the carry ends where the product is still zero, and each row leaves the digits
\* below it alone.
LEMMA RowsAdded ==
  ASSUME NEW a \in Digits, NEW b \in Digits, NEW i \in 1 .. Len(a)
  PROVE  LET z == Rows(a, b)
         IN  /\ RowAdded(Len(a) + Len(b), z[i - 1], a, b, i) /\ z[i] = AddRow(z[i - 1], a, b, i)
             /\ \A k \in 1 .. i - 1 : z[i][k] = z[i - 1][k]
<1> DEFINE m == Len(a)
           h == Len(b)
           N == Len(a) + Len(b)
           z == Rows(a, b)
           Zero(l) == \A k \in l + h + 1 .. N : z[l][k] = 0
           P == {l \in 0 .. m : Zero(l)}
<1>1. m \in Nat /\ h \in Nat /\ N \in Nat /\ N = m + h /\ a \in [1 .. m -> Digit] /\ i \in 1 .. m
  <2>1. m \in Nat /\ a \in [1 .. m -> Digit] /\ h \in Nat
    BY AsFunction DEF Digits
  <2> QED
    BY <2>1
<1>2. RowsOf(a, b, m, N, z)
  BY RowsIs
<1>3. h = Len(b)
  OBVIOUS
<1> HIDE DEF m, N, z, h
<1>4. /\ \A l \in 0 .. m : z[l] \in [1 .. N -> Digit]
      /\ \A k \in 1 .. N : z[0][k] = 0
      /\ \A l \in 1 .. m : z[l] = AddRow(z[l - 1], a, b, l)
  BY <1>2 DEF RowsOf, Vectors
<1>5. ASSUME NEW l \in 1 .. m, Zero(l - 1)
      PROVE  RowAdded(N, z[l - 1], a, b, l) /\ Zero(l)
  <2> DEFINE x == z[l - 1]
             y == z[l]
  <2>1. l - 1 \in 0 .. m /\ l \in 1 .. N /\ a[l] \in Digit /\ l + h <= N
    BY <1>1
  <2>2. x \in [1 .. N -> Digit] /\ y = AddRow(x, a, b, l)
    BY <1>4, <2>1
  <2>3. \A k \in l + h .. N : x[k] = 0
    <3>1. (l - 1) + h + 1 = l + h
      BY <1>1
    <3> QED
      BY <1>5, <3>1
  <2> HIDE DEF x, y
  <2>4. RowAdded(N, x, a, b, l)
    BY <1>1, <1>3, <2>1, <2>2, <2>3, AddRowIs
  <2>5. \A k \in l + h + 1 .. N : y[k] = 0
    BY <1>3, <2>2, <2>4 DEF RowAdded
  <2> QED
    BY <2>4, <2>5 DEF x, y
<1>6. 0 \in P
  <2>1. 0 \in 0 .. m /\ \A k \in 0 + h + 1 .. N : k \in 1 .. N
    BY <1>1
  <2> QED
    BY <1>4, <2>1
<1>7. ASSUME NEW l \in 0 .. m - 1, l \in P PROVE l + 1 \in P
  <2>1. l + 1 \in 1 .. m /\ (l + 1) - 1 = l /\ l + 1 \in 0 .. m
    BY <1>1
  <2> HIDE DEF Zero
  <2>2. Zero((l + 1) - 1)
    BY <1>7, <2>1
  <2>3. Zero(l + 1)
    BY <1>5, <2>1, <2>2
  <2> QED
    BY <2>1, <2>3
<1> HIDE DEF Zero, P
<1>8. 0 .. m \subseteq P
  BY <1>1, <1>6, <1>7, UpTo
<1>9. i - 1 \in 0 .. m /\ i \in 1 .. N /\ a[i] \in Digit
  BY <1>1
<1>10. RowAdded(N, z[i - 1], a, b, i)
  <2>1. Zero(i - 1)
    BY <1>8, <1>9 DEF P
  <2> QED
    BY <1>1, <1>5, <2>1
<1> DEFINE x == z[i - 1]
           y == z[i]
<1>11. x \in [1 .. N -> Digit] /\ y = AddRow(x, a, b, i)
  BY <1>1, <1>4, <1>9
<1> HIDE DEF x, y
<1>12. HasRow(N, N - i + 1, RowTerms(N, x, a, b, i), x, i, AddRow(x, a, b, i))
  BY <1>1, <1>9, <1>11, AddRowKeeps
<1>13. \A k \in 1 .. i - 1 : y[k] = x[k]
  BY <1>11, <1>12 DEF HasRow
<1> QED
  BY <1>10, <1>11, <1>13 DEF x, y, z, N

\* In x_mul the accumulator, two digits wide, never overflows, and the carry of a row is gone
\* before the place that the assertion of the loop forbids.
THEOREM RowsFit ==
  ASSUME NEW a \in Digits, NEW b \in Digits, NEW i \in 1 .. Len(a)
  PROVE  LET n == Len(a) + Len(b) - i + 1
             t == RowTerms(Len(a) + Len(b), Rows(a, b)[i - 1], a, b, i)
             c == Carries(t, 0)
         IN  /\ \A k \in 1 .. n : c[k - 1] + t[k] \in 0 .. BASE * BASE - 1
             /\ \A k \in Len(b) + 1 .. n : c[k] = 0
<1>1. RowAdded(Len(a) + Len(b), Rows(a, b)[i - 1], a, b, i)
  BY RowsAdded
<1> QED
  BY <1>1 DEF RowAdded

\* The rows of a and b end in the product of their values.
LEMMA RowsExact ==
  ASSUME NEW a \in Digits, NEW b \in Digits
  PROVE  LET z == Rows(a, b)[Len(a)]
         IN  z \in Digits /\ ValueOf(z) = ValueOf(a) * ValueOf(b)
<1> DEFINE m == Len(a)
           h == Len(b)
           N == Len(a) + Len(b)
           z == Rows(a, b)
           v == ValueOf(b)
           Q == {k \in 0 .. m : Tops(z[m])[h + k] = Tops(z[m - k])[h + k] + Tops(a)[k] * v}
<1>1. m \in Nat /\ h \in Nat /\ N \in Nat /\ N = m + h /\ a \in [1 .. m -> Digit] /\ a \in [1 .. m -> Int]
  <2>1. m \in Nat /\ a \in [1 .. m -> Digit] /\ h \in Nat
    BY AsFunction DEF Digits
  <2> QED
    BY <2>1, DigitVector
<1>2. RowsOf(a, b, m, N, z)
  BY RowsIs
<1>3. v \in Int
  BY ValueNat
<1>5. ASSUME NEW i \in 1 .. m
      PROVE  /\ RowAdded(N, z[i - 1], a, b, i) /\ z[i] = AddRow(z[i - 1], a, b, i)
             /\ \A k \in 1 .. i - 1 : z[i][k] = z[i - 1][k]
  BY RowsAdded
<1> HIDE DEF m, h, N, z
<1>4. /\ \A i \in 0 .. m : z[i] \in [1 .. N -> Digit] /\ z[i] \in [1 .. N -> Int]
      /\ \A k \in 1 .. N : z[0][k] = 0
  <2>1. \A i \in 0 .. m : z[i] \in [1 .. N -> Digit]
    BY <1>2 DEF RowsOf, Vectors
  <2>2. \A i \in 0 .. m : z[i] \in [1 .. N -> Int]
    BY <1>1, <2>1, DigitVector
  <2> QED
    BY <1>2, <2>1, <2>2 DEF RowsOf
<1>9. ASSUME NEW i \in 1 .. m
      PROVE  Tops(z[i])[N - i + 1] = Tops(z[i - 1])[N - i + 1] + a[i] * v
  BY <1>5 DEF RowAdded
<1> HIDE DEF v
<1>10. ASSUME NEW i \in 1 .. m PROVE z[m][i] = z[i][i]
  <2> DEFINE R == {l \in 0 .. m - i : z[i + l][i] = z[i][i]}
  <2>1. 0 \in R
    <3>1. i + 0 = i /\ 0 \in 0 .. m - i
      BY <1>1
    <3> QED
      BY <3>1
  <2>2. ASSUME NEW l \in 0 .. (m - i) - 1, l \in R PROVE l + 1 \in R
    <3>1. /\ i + (l + 1) \in 1 .. m /\ (i + (l + 1)) - 1 = i + l /\ i \in 1 .. (i + (l + 1)) - 1
          /\ l + 1 \in 0 .. m - i
      BY <1>1
    <3>2. z[i + (l + 1)][i] = z[i + l][i]
      <4> DEFINE j == i + (l + 1)
      <4>1. j \in 1 .. m /\ j - 1 = i + l /\ i \in 1 .. j - 1
        BY <3>1
      <4> HIDE DEF j
      <4>2. z[j][i] = z[j - 1][i]
        BY <1>5, <4>1
      <4> QED
        BY <4>1, <4>2 DEF j
    <3> QED
      BY <2>2, <3>1, <3>2
  <2>3. m - i \in Nat /\ m - i \in 0 .. m - i /\ i + (m - i) = m
    BY <1>1
  <2> HIDE DEF R
  <2>4. 0 .. (m - i) \subseteq R
    BY <2>1, <2>2, <2>3, UpTo
  <2> QED
    BY <2>3, <2>4 DEF R
<1>11. /\ Tops(a) \in [0 .. m -> Int] /\ Tops(a)[0] = 0 /\ ValueOf(a) = Tops(a)[m]
       /\ \A k \in 1 .. m : Tops(a)[k] = Tops(a)[k - 1] * BASE + a[m + 1 - k]
  BY <1>1, TopsIs
<1>12. ASSUME NEW i \in 0 .. m
       PROVE  /\ Tops(z[i]) \in [0 .. N -> Int] /\ ValueOf(z[i]) = Tops(z[i])[N]
              /\ \A k \in 1 .. N : Tops(z[i])[k] = Tops(z[i])[k - 1] * BASE + z[i][N + 1 - k]
  <2> DEFINE x == z[i]
  <2>1. x \in [1 .. N -> Int]
    BY <1>4
  <2> HIDE DEF x
  <2>2. /\ Tops(x) \in [0 .. N -> Int] /\ ValueOf(x) = Tops(x)[N]
        /\ \A k \in 1 .. N : Tops(x)[k] = Tops(x)[k - 1] * BASE + x[N + 1 - k]
    BY <1>1, <2>1, TopsIs
  <2> QED
    BY <2>2 DEF x
<1>13. 0 \in Q
  <2>1. 0 \in 0 .. m /\ m - 0 = m /\ m \in 0 .. m /\ h + 0 \in 0 .. N
    BY <1>1
  <2> DEFINE s == Tops(z[m])[h + 0]
  <2>2. s \in Int
    BY <1>12, <2>1
  <2> HIDE DEF s
  <2>3. s = s + 0 * v
    BY <1>3, <2>2
  <2> QED
    BY <1>11, <2>1, <2>3 DEF s
<1>14. ASSUME NEW k \in 0 .. m - 1, k \in Q PROVE k + 1 \in Q
  <2> DEFINE i == m - k
             j == h + k
             y == z[m]
             x == z[i]
             w == z[i - 1]
  <2>1. /\ k \in 0 .. m /\ k + 1 \in 0 .. m /\ k + 1 \in 1 .. m /\ (k + 1) - 1 = k /\ i \in 1 .. m
        /\ i \in 0 .. m /\ m \in 0 .. m /\ m + 1 - (k + 1) = i /\ m - (k + 1) = i - 1 /\ i - 1 \in 0 .. m
    BY <1>1
  <2>2. /\ j + 1 \in 1 .. N /\ (j + 1) - 1 = j /\ j \in 0 .. N /\ j + 1 \in 0 .. N /\ h + (k + 1) = j + 1
        /\ N + 1 - (j + 1) = i /\ N - i + 1 = j + 1 /\ i \in 1 .. N
    BY <1>1
  <2>3. Tops(y)[j] = Tops(x)[j] + Tops(a)[k] * v
    BY <1>14
  <2>4. Tops(x)[j + 1] = Tops(w)[j + 1] + a[i] * v
    BY <1>9, <2>1, <2>2
  <2>5. y[i] = x[i]
    BY <1>10, <2>1
  <2> HIDE DEF i, j
  <2>6. /\ Tops(y)[j + 1] = Tops(y)[j] * BASE + y[i] /\ Tops(y)[j] \in Int
        /\ Tops(x)[j + 1] = Tops(x)[j] * BASE + x[i] /\ Tops(x)[j] \in Int
        /\ Tops(w)[j + 1] \in Int
    BY <1>12, <2>1, <2>2
  <2>7. x[i] \in Int /\ a[i] \in Int /\ Tops(a)[k] \in Int
    BY <1>1, <1>4, <1>11, <2>1, <2>2
  <2>8. Tops(a)[k + 1] = Tops(a)[k] * BASE + a[i]
    BY <1>11, <2>1
  <2> HIDE DEF x, y, w
  <2>9. StepOfProduct(Tops(y)[j], Tops(x)[j], Tops(w)[j + 1], Tops(a)[k], a[i], x[i], v)
    BY <1>3, <2>6, <2>7, ProductSteps
  <2>10. Tops(y)[j + 1] = Tops(w)[j + 1] + Tops(a)[k + 1] * v
    BY <2>3, <2>4, <2>5, <2>6, <2>8, <2>9 DEF StepOfProduct
  <2> QED
    BY <2>1, <2>2, <2>10 DEF w, y
<1> HIDE DEF Q
<1>15. 0 .. m \subseteq Q
  BY <1>1, <1>13, <1>14, UpTo
<1>16. ValueOf(z[m]) = ValueOf(a) * v
  <2>1. m \in 0 .. m /\ 0 \in 0 .. m /\ h + m = N /\ m - m = 0
    BY <1>1
  <2>2. Tops(z[m])[N] = Tops(z[0])[N] + Tops(a)[m] * v
    BY <1>15, <2>1 DEF Q
  <2> DEFINE o == z[0]
  <2>3. o \in [1 .. N -> Int] /\ \A k \in 1 .. N : o[k] = 0
    BY <1>4, <2>1
  <2>4. ValueOf(o) = Tops(o)[N]
    BY <1>12, <2>1
  <2> HIDE DEF o
  <2>7. ValueOf(o) = 0
    BY <1>1, <2>3, ZerosIs
  <2>8. Tops(z[0])[N] = 0
    BY <2>4, <2>7 DEF o
  <2>9. Tops(a)[m] \in Int /\ ValueOf(a) = Tops(a)[m]
    BY <1>11, <2>1
  <2>10. ValueOf(z[m]) = Tops(z[m])[N]
    BY <1>12, <2>1
  <2>11. ValueOf(a) * v \in Int
    BY <1>3, <2>9
  <2>12. ValueOf(z[m]) = 0 + ValueOf(a) * v
    BY <2>2, <2>8, <2>9, <2>10
  <2> QED
    BY <2>11, <2>12
<1>17. z[m] \in Digits
  <2>1. z[m] \in [1 .. N -> Digit]
    BY <1>1, <1>4
  <2> QED
    BY <1>1, <2>1, AsSequence DEF Digits
<1> QED
  BY <1>16, <1>17 DEF z, m, v

\* School multiplication multiplies the absolute values of any two longs, whatever the width of a
\* digit and the number of digits.
THEOREM XMulExact ==
  ASSUME NEW a \in Longs, NEW b \in Longs
  PROVE  /\ Normal(x_mul(a, b)) /\ ~x_mul(a, b).neg
         /\ ValueOf(x_mul(a, b).dig) = ValueOf(a.dig) * ValueOf(b.dig)
<1> DEFINE d == Rows(a.dig, b.dig)[Len(a.dig)]
           z == long_normalize(Long(FALSE, d))
<1>1. a.dig \in Digits /\ b.dig \in Digits
  BY DEF Longs
<1>2. d \in Digits /\ ValueOf(d) = ValueOf(a.dig) * ValueOf(b.dig)
  BY <1>1, RowsExact
<1>3. x_mul(a, b) = z
  BY DEF x_mul
<1> HIDE DEF d
<1>4. Long(FALSE, d) \in Longs /\ Long(FALSE, d).dig = d /\ Long(FALSE, d).neg = FALSE
  BY <1>2 DEF Long, Longs
<1>5. ~z.neg
  BY <1>4 DEF long_normalize, Long
<1>6. Normal(z) /\ ValueOf(z.dig) = ValueOf(d)
  BY <1>4, NormalizeIs
<1> HIDE DEF z
<1> QED
  BY <1>2, <1>3, <1>5, <1>6
=============================================================================
