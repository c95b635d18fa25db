-------------------------- MODULE NameCodecProofs ---------------------------
(***************************************************************************)
(* The theorems of NameCodec, for every number of slots and of bits.       *)
(*                                                                         *)
(* What a loop computes is shown by induction over its iterations, stated  *)
(* with sets of numbers: the least-number principle and the induction that *)
(* follows from it come from the well-foundedness of < on the naturals.    *)
(* The rest is about the chunks of a number, counted from the highest as   *)
(* the characters of a string are: they determine the number, they order   *)
(* it, and the chunks of an encoding are the symbols of the characters.    *)
(***************************************************************************)
EXTENDS NameCodec, WellFoundedInduction, TLAPS

-----------------------------------------------------------------------------
(* A set of naturals that is not empty has a least element. *)
LEMMA LeastNat ==
    ASSUME NEW T \in SUBSET Nat, T # {}
    PROVE  \E n \in T : \A m \in T : n <= m
<1> DEFINE R == OpToRel(<, Nat)
<1>1. IsWellFoundedOn(R, Nat)
  BY NatLessThanWellFounded
<1>2. \A x, y \in Nat : <<y, x>> \in R <=> y < x
  BY DEF OpToRel
<1> HIDE DEF R
<1>3. PICK n \in T : \A y \in T : ~ (<<y, n>> \in R)
  BY <1>1, WFMin
<1>4. n \in Nat /\ \A m \in T : m \in Nat
  OBVIOUS
<1>5. ASSUME NEW m \in T PROVE n <= m
  <2>1. ~ (m < n)
    BY <1>2, <1>3, <1>4
  <2> QED BY <2>1, <1>4
<1> QED BY <1>5

(* A set of naturals with zero and every successor has them all. *)
LEMMA NatSetInduction ==
    ASSUME NEW S \in SUBSET Nat, 0 \in S, \A n \in S : n + 1 \in S
    PROVE  S = Nat
<1>1. ASSUME Nat \ S # {} PROVE FALSE
  <2>1. PICK n \in Nat \ S : \A m \in Nat \ S : n <= m
    BY <1>1, LeastNat
  <2>2. n # 0 /\ n - 1 \in Nat /\ n - 1 \in S
    BY <2>1
  <2> QED BY <2>1, <2>2
<1> QED BY <1>1

(* h is a run of n steps from c. *)
IsRun(h, c, step, n) ==
    h[0] = c /\ \A i \in 0 .. n - 1 : h[i + 1] = step[i][h[i]]

(* Primitive recursion up to a bound. *)
LEMMA FiniteRecursion ==
    ASSUME NEW S, NEW c \in S, NEW step \in [Nat -> [S -> S]], NEW N \in Nat
    PROVE  \E h \in [0 .. N -> S] : IsRun(h, c, step, N)
<1> DEFINE T == {n \in Nat : \E h \in [0 .. n -> S] : IsRun(h, c, step, n)}
<1>1. 0 \in T
  <2>1. [i \in 0 .. 0 |-> c] \in [0 .. 0 -> S] /\ IsRun([i \in 0 .. 0 |-> c], c, step, 0)
    BY DEF IsRun
  <2> QED BY <2>1
<1>2. ASSUME NEW n \in T PROVE n + 1 \in T
  <2>1. n \in Nat
    OBVIOUS
  <2>2. PICK h \in [0 .. n -> S] : IsRun(h, c, step, n)
    OBVIOUS
  <2> DEFINE g == [i \in 0 .. n + 1 |-> IF i = n + 1 THEN step[n][h[n]] ELSE h[i]]
  <2>3. g \in [0 .. n + 1 -> S]
    BY <2>1, <2>2
  <2>4. g[0] = c
    BY <2>1, <2>2 DEF IsRun
  <2>5. ASSUME NEW i \in 0 .. n PROVE g[i + 1] = step[i][g[i]]
    <3>1. g[i] = h[i]
      BY <2>1
    <3>2. CASE i = n
      BY <3>1, <3>2, <2>1
    <3>3. CASE i < n
      <4>1. i \in 0 .. n - 1 /\ i + 1 \in 0 .. n + 1 /\ i + 1 # n + 1
        BY <3>3, <2>1
      <4>2. g[i + 1] = h[i + 1] /\ h[i + 1] = step[i][h[i]]
        BY <4>1, <2>2 DEF IsRun
      <4> QED BY <4>2, <3>1
    <3> QED BY <3>2, <3>3, <2>1
  <2> HIDE DEF g
  <2>6. IsRun(g, c, step, n + 1)
    <3>1. 0 .. (n + 1) - 1 = 0 .. n
      BY <2>1
    <3>2. \A i \in 0 .. (n + 1) - 1 : g[i + 1] = step[i][g[i]]
      BY <2>5, <3>1
    <3> QED BY <2>4, <3>2 DEF IsRun
  <2> QED BY <2>1, <2>3, <2>6
<1> HIDE DEF T
<1>3. T = Nat
  <2>1. T \in SUBSET Nat
    BY DEF T
  <2> QED BY <2>1, <1>1, <1>2, NatSetInduction
<1> QED BY <1>3 DEF T

(* g is a run that never ends. *)
IsEndlessRun(g, c, step) ==
    g[0] = c /\ \A n \in Nat : g[n + 1] = step[n][g[n]]

(* Primitive recursion over all naturals. *)
LEMMA NatRecursion ==
    ASSUME NEW S, NEW c \in S, NEW step \in [Nat -> [S -> S]]
    PROVE  \E g \in [Nat -> S] : IsEndlessRun(g, c, step)
<1> DEFINE H(n) == CHOOSE h \in [0 .. n -> S] : IsRun(h, c, step, n)
           g == [n \in Nat |-> H(n)[n]]
<1>1. ASSUME NEW n \in Nat PROVE H(n) \in [0 .. n -> S] /\ IsRun(H(n), c, step, n)
  <2>1. \E h \in [0 .. n -> S] : IsRun(h, c, step, n)
    BY FiniteRecursion
  <2> QED BY <2>1
<1>2. ASSUME NEW h, NEW k, NEW n \in Nat, IsRun(h, c, step, n), IsRun(k, c, step, n)
      PROVE  h[n] = k[n]
  <2> DEFINE T == {i \in Nat : i <= n => h[i] = k[i]}
  <2>1. 0 \in T
    BY <1>2 DEF IsRun
  <2>2. ASSUME NEW i \in T PROVE i + 1 \in T
    <3>1. i \in Nat /\ i + 1 \in Nat
      OBVIOUS
    <3>2. ASSUME i + 1 <= n PROVE h[i + 1] = k[i + 1]
      <4>1. i \in 0 .. n - 1 /\ i <= n
        BY <3>1, <3>2
      <4>2. h[i] = k[i]
        BY <4>1
      <4> QED BY <4>1, <4>2, <1>2 DEF IsRun
    <3> QED BY <3>1, <3>2
  <2> HIDE DEF T
  <2>3. T = Nat
    <3>1. T \in SUBSET Nat
      BY DEF T
    <3> QED BY <3>1, <2>1, <2>2, NatSetInduction
  <2> QED BY <2>3 DEF T
<1> HIDE DEF H
<1>3. \A n \in Nat : H(n)[n] \in S
  BY <1>1
<1>4. H(0)[0] = c
  BY <1>1 DEF IsRun
<1>5. ASSUME NEW n \in Nat PROVE H(n + 1)[n + 1] = step[n][H(n)[n]]
  <2>1. IsRun(H(n + 1), c, step, n + 1) /\ IsRun(H(n), c, step, n)
    BY <1>1
  <2>2. IsRun(H(n + 1), c, step, n) /\ H(n + 1)[n + 1] = step[n][H(n + 1)[n]]
    BY <2>1 DEF IsRun
  <2>3. H(n + 1)[n] = H(n)[n]
    BY <2>1, <2>2, <1>2
  <2> QED BY <2>2, <2>3
<1>6. g \in [Nat -> S] /\ g[0] = c /\ \A n \in Nat : g[n + 1] = step[n][g[n]]
  BY <1>3, <1>4, <1>5
<1> HIDE DEF g
<1>7. IsEndlessRun(g, c, step)
  BY <1>6 DEF IsEndlessRun
<1> QED BY <1>6, <1>7

-----------------------------------------------------------------------------
(* Powers of two are what their recursion says. *)
LEMMA Pow2Recursion ==
    /\ pow2 \in [Nat -> Nat]
    /\ pow2[0] = 1
    /\ \A n \in Nat : pow2[n + 1] = 2 * pow2[n]
<1> DEFINE step == [n \in Nat |-> [x \in Nat |-> 2 * x]]
           Def(g) == [n \in Nat |-> IF n = 0 THEN 1 ELSE 2 * g[n - 1]]
<1>1. PICK g \in [Nat -> Nat] : IsEndlessRun(g, 1, step)
  <2>1. step \in [Nat -> [Nat -> Nat]] /\ 1 \in Nat
    OBVIOUS
  <2> HIDE DEF step
  <2> QED BY <2>1, NatRecursion
<1>2. g = Def(g)
  <2>1. ASSUME NEW n \in Nat PROVE g[n] = Def(g)[n]
    <3>1. CASE n = 0
      BY <3>1, <1>1 DEF IsEndlessRun
    <3>2. CASE n # 0
      <4>1. n - 1 \in Nat /\ n = (n - 1) + 1
        BY <3>2
      <4>2. g[(n - 1) + 1] = 2 * g[n - 1]
        BY <4>1, <1>1 DEF IsEndlessRun
      <4> QED BY <4>1, <4>2, <3>2
    <3> QED BY <3>1, <3>2
  <2> QED BY <2>1
<1>3. pow2 = CHOOSE f : f = Def(f)
  BY DEF pow2
<1> HIDE DEF Def
<1>4. pow2 = Def(pow2)
  BY <1>2, <1>3
<1> DEFINE T == {n \in Nat : pow2[n] \in Nat}
<1>5. pow2[0] = 1 /\ \A n \in Nat : pow2[n + 1] = 2 * pow2[n]
  BY <1>4 DEF Def
<1>6. T = Nat
  <2>1. T \in SUBSET Nat /\ 0 \in T /\ \A n \in T : n + 1 \in T
    BY <1>5
  <2> HIDE DEF T
  <2> QED BY <2>1, NatSetInduction
<1>7. pow2 \in [Nat -> Nat]
  <2>1. \A n \in Nat : pow2[n] \in Nat
    BY <1>6
  <2>2. pow2 = [n \in Nat |-> pow2[n]]
    BY <1>4 DEF Def
  <2> QED BY <2>1, <2>2
<1> QED BY <1>5, <1>7

(* The facts about powers of two that the rest uses. *)
LEMMA Pow2Positive == \A n \in Nat : pow2[n] \in Nat \ {0}
<1> DEFINE T == {n \in Nat : pow2[n] \in Nat \ {0}}
<1>1. T \in SUBSET Nat /\ 0 \in T /\ \A n \in T : n + 1 \in T
  BY Pow2Recursion
<1> HIDE DEF T
<1>2. T = Nat
  BY <1>1, NatSetInduction
<1> QED BY <1>2 DEF T

LEMMA Pow2Sum ==
    ASSUME NEW a \in Nat, NEW b \in Nat
    PROVE  pow2[a + b] = pow2[a] * pow2[b]
<1> DEFINE T == {n \in Nat : pow2[a + n] = pow2[a] * pow2[n]}
<1>1. T \in SUBSET Nat
  OBVIOUS
<1>2. 0 \in T
  BY Pow2Recursion, Pow2Positive
<1>3. ASSUME NEW n \in T PROVE n + 1 \in T
  <2>1. n \in Nat /\ pow2[a + n] = pow2[a] * pow2[n]
    OBVIOUS
  <2>2. a + (n + 1) = (a + n) + 1 /\ a + n \in Nat
    BY <2>1
  <2>3. pow2[a + (n + 1)] = 2 * (pow2[a] * pow2[n]) /\ pow2[n + 1] = 2 * pow2[n]
    BY <2>1, <2>2, Pow2Recursion
  <2>4. pow2[a] \in Nat /\ pow2[n] \in Nat
    BY <2>1, Pow2Positive
  <2>5. 2 * (pow2[a] * pow2[n]) = pow2[a] * (2 * pow2[n])
    BY <2>4
  <2> QED BY <2>1, <2>3, <2>5
<1> HIDE DEF T
<1>4. T = Nat
  BY <1>1, <1>2, <1>3, NatSetInduction
<1> QED BY <1>4 DEF T

(* Division with remainder. *)
LEMMA Division ==
    ASSUME NEW a \in Nat, NEW d \in Nat \ {0}
    PROVE  /\ a = d * (a \div d) + (a % d)
           /\ a \div d \in Nat
           /\ a % d \in 0 .. d - 1
OBVIOUS

LEMMA DivisionUnique ==
    ASSUME NEW d \in Nat \ {0}, NEW q \in Nat, NEW r \in 0 .. d - 1
    PROVE  (d * q + r) \div d = q /\ (d * q + r) % d = r
OBVIOUS

LEMMA DivisionTwice ==
    ASSUME NEW a \in Nat, NEW b \in Nat \ {0}, NEW c \in Nat \ {0}
    PROVE  (a \div b) \div c = a \div (b * c)
<1> DEFINE q == a \div b
           r == a % b
           s == q \div c
           t == q % c
<1>1. a = b * q + r /\ q \in Nat /\ r \in 0 .. b - 1
  BY Division
<1>2. q = c * s + t /\ s \in Nat /\ t \in 0 .. c - 1
  BY <1>1, Division
<1> HIDE DEF q, r, s, t
<1>3. b * c \in Nat \ {0}
  OBVIOUS
<1>4. b * t + r \in Nat
  BY <1>1, <1>2
<1>5. b * (t + 1) <= b * c
  BY <1>2
<1>6. b * t + r < b * c
  BY <1>1, <1>2, <1>5
<1>7. a = (b * c) * s + (b * t + r)
  BY <1>1, <1>2
<1>8. b * t + r \in 0 .. b * c - 1
  BY <1>3, <1>4, <1>6
<1>9. a \div (b * c) = s
  BY <1>2, <1>3, <1>7, <1>8, DivisionUnique
<1> QED BY <1>9 DEF s, q

LEMMA DivisionMonotone ==
    ASSUME NEW a \in Nat, NEW b \in Nat, a <= b, NEW d \in Nat \ {0}
    PROVE  a \div d <= b \div d
OBVIOUS

LEMMA BelowPower ==
    ASSUME NEW a \in Nat, NEW d \in Nat \ {0}, a < d
    PROVE  a \div d = 0
OBVIOUS

-----------------------------------------------------------------------------
(* The numbers that a name can be. *)
Values == 0 .. pow2[Width] - 1

(* The bits to the right of the first k slots. *)
Rest(k) == Width - Bits * k

(* Chunk k of a number, counted from the highest as characters are. *)
Digit(v, k) == Chunk(v, Slots + 1 - k)

(* How many values chunk k has. *)
Base(k) == IF k = Slots + 1 THEN pow2[Bits - 1] ELSE pow2[Bits]

(* The first k chunks of a number, read as a number. *)
Prefix(v, k) == IF k = Slots + 1 THEN v ELSE v \div pow2[Rest(k)]

(* Where the slots are. *)
LEMMA RestFacts ==
    /\ Width \in Nat /\ Bits \in Nat /\ Bits - 1 \in Nat /\ Slots \in Nat
    /\ Rest(0) = Width
    /\ Rest(Slots) = Bits - 1
    /\ \A k \in 0 .. Slots : Rest(k) \in Nat
    /\ \A k \in 0 .. Slots - 1 : Shift(k) = Rest(k + 1) /\ Rest(k) = Rest(k + 1) + Bits
    /\ \A k \in 1 .. Slots : Bits * (Slots + 1 - k) - 1 = Rest(k)
<1>1. Bits \in Nat /\ Bits - 1 \in Nat /\ Slots \in Nat /\ Slots * Bits \in Nat
  BY SlotsAssumption
<1>2. Width \in Nat
  BY <1>1 DEF Width
<1>3. Rest(0) = Width
  BY <1>1, <1>2 DEF Rest
<1>4. Rest(Slots) = Bits - 1
  BY <1>1 DEF Rest, Width
<1>5. ASSUME NEW k \in 0 .. Slots PROVE Rest(k) = Bits * (Slots - k) + (Bits - 1)
  BY <1>1 DEF Rest, Width
<1>6. ASSUME NEW k \in 0 .. Slots PROVE Rest(k) \in Nat
  <2>1. Slots - k \in Nat
    BY <1>1
  <2>2. Bits * (Slots - k) \in Nat
    BY <1>1, <2>1
  <2> QED BY <1>1, <1>5, <2>2
<1>7. ASSUME NEW k \in 0 .. Slots - 1
      PROVE  Shift(k) = Rest(k + 1) /\ Rest(k) = Rest(k + 1) + Bits
  <2>1. k \in Nat /\ Bits * (k + 1) = Bits * k + Bits /\ Bits * k \in Nat
    BY <1>1
  <2> QED BY <1>1, <1>2, <2>1 DEF Shift, Rest
<1>8. ASSUME NEW k \in 1 .. Slots PROVE Bits * (Slots + 1 - k) - 1 = Rest(k)
  BY <1>1 DEF Rest, Width
<1> QED BY <1>1, <1>2, <1>3, <1>4, <1>6, <1>7, <1>8

(* A chunk of full width is a symbol. *)
LEMMA BaseFacts ==
    /\ \A k \in 1 .. Slots + 1 : Base(k) \in Nat \ {0}
    /\ \A k \in 1 .. Slots : Base(k) = pow2[Bits]
    /\ Base(Slots + 1) = pow2[Bits - 1]
    /\ pow2[Bits] = 1 + Digits + Letters
    /\ \A k \in 1 .. Slots + 1 : Base(k) <= pow2[Bits]
<1>1. Bits - 1 \in Nat /\ Bits = (Bits - 1) + 1
  BY RestFacts
<1>2. pow2[Bits] = 2 * pow2[Bits - 1]
  BY <1>1, Pow2Recursion
<1> QED BY <1>1, <1>2, Pow2Positive, RestFacts, AlphabetAssumption DEF Base

(* The numbers that fit. *)
LEMMA ValuesFacts == Values \subseteq Nat /\ \A v \in Values : v < pow2[Width]
BY RestFacts, Pow2Positive DEF Values

(* A number by its chunks. *)
LEMMA PrefixStart == \A v \in Values : Prefix(v, 0) = 0
<1> SUFFICES ASSUME NEW v \in Values PROVE Prefix(v, 0) = 0
  OBVIOUS
<1>1. v \in Nat /\ v < pow2[Width] /\ pow2[Width] \in Nat \ {0}
  BY ValuesFacts, RestFacts, Pow2Positive
<1> QED BY <1>1, RestFacts, BelowPower DEF Prefix

(* The first k chunks of a number are a number. *)
LEMMA PrefixNat ==
    ASSUME NEW v \in Values, NEW k \in 0 .. Slots + 1
    PROVE  Prefix(v, k) \in Nat
<1>1. v \in Nat
  BY ValuesFacts
<1>2. CASE k = Slots + 1
  BY <1>1, <1>2 DEF Prefix
<1>3. CASE k # Slots + 1
  <2>1. k \in 0 .. Slots
    BY <1>3, RestFacts
  <2>2. Rest(k) \in Nat /\ pow2[Rest(k)] \in Nat \ {0}
    BY <2>1, RestFacts, Pow2Positive
  <2> QED BY <1>1, <1>3, <2>2, Division DEF Prefix
<1> QED BY <1>2, <1>3

LEMMA PrefixStep ==
    ASSUME NEW v \in Values, NEW k \in 0 .. Slots
    PROVE  /\ Prefix(v, k + 1) = Base(k + 1) * Prefix(v, k) + Digit(v, k + 1)
           /\ Digit(v, k + 1) \in 0 .. Base(k + 1) - 1
<1>1. v \in Nat /\ Slots \in Nat /\ k \in Nat
  BY ValuesFacts, RestFacts
<1>2. CASE k = Slots
  <2>1. Digit(v, k + 1) = v % pow2[Bits - 1]
    BY <1>1, <1>2 DEF Digit, Chunk
  <2>2. Prefix(v, k + 1) = v /\ Prefix(v, k) = v \div pow2[Bits - 1]
    BY <1>1, <1>2, RestFacts DEF Prefix
  <2>3. Base(k + 1) = pow2[Bits - 1] /\ pow2[Bits - 1] \in Nat \ {0}
    BY <1>2, RestFacts, Pow2Positive DEF Base
  <2>4. /\ v = pow2[Bits - 1] * (v \div pow2[Bits - 1]) + (v % pow2[Bits - 1])
        /\ v % pow2[Bits - 1] \in 0 .. pow2[Bits - 1] - 1
    BY <2>3, <1>1, Division
  <2> QED BY <2>1, <2>2, <2>3, <2>4
<1>3. CASE k # Slots
  <2>1. k \in 0 .. Slots - 1 /\ k + 1 \in 1 .. Slots
    BY <1>1, <1>3
  <2> DEFINE d == pow2[Rest(k + 1)]
             q == v \div d
  <2>2. d \in Nat \ {0} /\ pow2[Bits] \in Nat \ {0}
    BY <2>1, RestFacts, Pow2Positive
  <2>3. Prefix(v, k + 1) = q
    BY <2>1, <1>1 DEF Prefix
  <2>4. Digit(v, k + 1) = q % pow2[Bits]
    <3>1. Slots + 1 - (k + 1) # 0
      BY <1>1, <2>1
    <3>2. Bits * (Slots + 1 - (k + 1)) - 1 = Rest(k + 1)
      BY <2>1, RestFacts
    <3> QED BY <3>1, <3>2 DEF Digit, Chunk
  <2>5. Prefix(v, k) = q \div pow2[Bits]
    <3>1. pow2[Rest(k)] = d * pow2[Bits]
      <4>1. Rest(k) = Rest(k + 1) + Bits /\ Rest(k + 1) \in Nat /\ Bits \in Nat
        BY <2>1, RestFacts
      <4> QED BY <4>1, Pow2Sum
    <3>2. Prefix(v, k) = v \div (d * pow2[Bits])
      BY <3>1, <2>1, <1>1 DEF Prefix
    <3> HIDE DEF d
    <3> QED BY <3>2, <2>2, <1>1, DivisionTwice
  <2>6. q \in Nat
    BY <1>1, <2>2, Division
  <2>7. Base(k + 1) = pow2[Bits]
    BY <2>1, <1>1 DEF Base
  <2> HIDE DEF q
  <2> QED BY <2>2, <2>3, <2>4, <2>5, <2>6, <2>7, Division
<1> QED BY <1>2, <1>3

(* Of two different numbers the lower has the lower chunk where they differ  *)
(* first.                                                                    *)
LEMMA FirstDifference ==
    ASSUME NEW v \in Values, NEW w \in Values, v < w
    PROVE  \E k \in 1 .. Slots + 1 :
             /\ \A j \in 1 .. k - 1 : Digit(v, j) = Digit(w, j)
             /\ Digit(v, k) < Digit(w, k)
<1> DEFINE T == {k \in 0 .. Slots + 1 : Prefix(v, k) # Prefix(w, k)}
<1>1. Slots \in Nat /\ v \in Nat /\ w \in Nat
  BY RestFacts, ValuesFacts
<1>2. T \in SUBSET Nat
  OBVIOUS
<1>3. Slots + 1 \in T
  BY <1>1 DEF Prefix
<1>4. PICK k \in T : \A m \in T : k <= m
  <2> HIDE DEF T
  <2> QED BY <1>2, <1>3, LeastNat
<1>5. k \in 0 .. Slots + 1 /\ Prefix(v, k) # Prefix(w, k)
  BY <1>4
<1>6. k # 0
  BY <1>5, PrefixStart
<1>7. k \in 1 .. Slots + 1 /\ k - 1 \in 0 .. Slots
  BY <1>1, <1>5, <1>6
<1>8. ASSUME NEW j \in 0 .. k - 1 PROVE Prefix(v, j) = Prefix(w, j)
  <2>1. j \in 0 .. Slots + 1 /\ ~ (k <= j)
    BY <1>1, <1>7
  <2> QED BY <2>1, <1>4
<1> HIDE DEF T
<1>9. ASSUME NEW j \in 1 .. k - 1 PROVE Digit(v, j) = Digit(w, j)
  <2>1. j - 1 \in 0 .. Slots /\ j \in 0 .. k - 1 /\ j - 1 \in 0 .. k - 1
    BY <1>7, <1>1
  <2>2. Prefix(v, j) = Prefix(w, j) /\ Prefix(v, j - 1) = Prefix(w, j - 1)
    BY <2>1, <1>8
  <2> DEFINE b == Base((j - 1) + 1)
             p == Prefix(v, j - 1)
  <2>3. (j - 1) + 1 = j
    BY <2>1
  <2>4. /\ Prefix(v, j) = b * p + Digit(v, j)
        /\ Prefix(w, j) = b * Prefix(w, j - 1) + Digit(w, j)
        /\ Digit(v, j) \in 0 .. b - 1 /\ Digit(w, j) \in 0 .. b - 1
    BY <2>1, <2>3, PrefixStep
  <2>5. b \in Nat /\ p \in Nat
    BY <2>1, <2>3, <1>7, BaseFacts, PrefixNat, RestFacts
  <2> HIDE DEF b
  <2>6. b * p \in Nat
    BY <2>5
  <2>7. b * p + Digit(v, j) = b * p + Digit(w, j)
    BY <2>2, <2>4
  <2> HIDE DEF p
  <2> QED BY <2>4, <2>5, <2>6, <2>7
<1>10. Prefix(v, k) < Prefix(w, k)
  <2>1. CASE k = Slots + 1
    BY <2>1 DEF Prefix
  <2>2. CASE k # Slots + 1
    <3>1. k \in 0 .. Slots
      BY <1>7, <1>1, <2>2
    <3>2. pow2[Rest(k)] \in Nat \ {0}
      BY <3>1, RestFacts, Pow2Positive
    <3>3. v \div pow2[Rest(k)] <= w \div pow2[Rest(k)]
      BY <3>2, <1>1, DivisionMonotone
    <3>4. Prefix(v, k) <= Prefix(w, k)
      BY <3>3, <2>2 DEF Prefix
    <3> QED BY <3>4, <1>5, PrefixNat
  <2> QED BY <2>1, <2>2
<1>11. Digit(v, k) < Digit(w, k)
  <2> DEFINE b == Base((k - 1) + 1)
             p == Prefix(v, k - 1)
  <2>1. (k - 1) + 1 = k /\ k - 1 \in 0 .. k - 1
    BY <1>7
  <2>2. /\ Prefix(v, k) = b * p + Digit(v, k)
        /\ Prefix(w, k) = b * Prefix(w, k - 1) + Digit(w, k)
        /\ Digit(v, k) \in 0 .. b - 1 /\ Digit(w, k) \in 0 .. b - 1
    BY <2>1, <1>7, PrefixStep
  <2>3. b \in Nat /\ p \in Nat
    BY <2>1, <1>7, BaseFacts, PrefixNat, RestFacts
  <2>4. Prefix(w, k - 1) = p
    BY <2>1, <1>8
  <2> HIDE DEF b, p
  <2>5. b * p \in Nat
    BY <2>3
  <2> QED BY <2>2, <2>3, <2>4, <2>5, <1>10
<1> QED BY <1>7, <1>9, <1>11

(* The chunks determine the number. *)
LEMMA DigitsDetermine ==
    ASSUME NEW v \in Values, NEW w \in Values,
           \A k \in 1 .. Slots + 1 : Digit(v, k) = Digit(w, k)
    PROVE  v = w
<1>1. v \in Nat /\ w \in Nat
  BY ValuesFacts
<1>2. \A k \in 1 .. Slots + 1 : Digit(v, k) \in Nat /\ Digit(w, k) \in Nat
  <2> SUFFICES ASSUME NEW k \in 1 .. Slots + 1
               PROVE  Digit(v, k) \in Nat /\ Digit(w, k) \in Nat
    OBVIOUS
  <2>1. k - 1 \in 0 .. Slots /\ (k - 1) + 1 = k
    BY RestFacts
  <2>2. Base(k) \in Nat
    BY BaseFacts
  <2> QED BY <2>1, <2>2, PrefixStep
<1>3. ~ (v < w)
  BY <1>2, FirstDifference
<1>4. ~ (w < v)
  BY <1>2, FirstDifference
<1> QED BY <1>1, <1>3, <1>4

-----------------------------------------------------------------------------
(* What is encoded of character i, zero from the NUL on. *)
SymbolAt(memory, i) == char_to_symbol(CharAt(memory, i))

(* What the loop has encoded after i iterations, without the zeros. *)
Encoded(memory, i) == Looped(memory)[i] \div pow2[Rest(i)]

(* A symbol fits the bits of a slot. *)
LEMMA SymbolRange ==
    ASSUME NEW c
    PROVE  char_to_symbol(c) \in 0 .. pow2[Bits] - 1
BY AlphabetAssumption DEF char_to_symbol, LetterCodes, DigitCodes

(* So does the symbol of any character in memory. *)
LEMMA SymbolAtRange ==
    ASSUME NEW memory, NEW i
    PROVE  SymbolAt(memory, i) \in 0 .. pow2[Bits] - 1 /\ SymbolAt(memory, i) \in Nat
<1>1. pow2[Bits] \in Nat
  BY RestFacts, Pow2Positive
<1> QED BY <1>1, SymbolRange DEF SymbolAt

(* The loop of string_to_uint64_t, one iteration at a time. *)
LEMMA LoopedRecursion ==
    ASSUME NEW memory
    PROVE  /\ Looped(memory) \in [0 .. Slots -> Nat]
           /\ Looped(memory)[0] = 0
           /\ \A i \in 0 .. Slots - 1 : Looped(memory)[i + 1] =
                Looped(memory)[i] + SymbolAt(memory, i) * pow2[Rest(i + 1)]
<1> DEFINE Add(i) == IF i < Slots THEN SymbolAt(memory, i) * pow2[Rest(i + 1)] ELSE 0
           step == [i \in Nat |-> [x \in Nat |-> x + Add(i)]]
           Def(n) == [i \in 0 .. Slots |->
                        IF i = 0 THEN 0
                        ELSE n[i - 1] + char_to_symbol(CharAt(memory, i - 1)) * pow2[Shift(i - 1)]]
<1>1. Slots \in Nat
  BY RestFacts
<1>2. \A i \in Nat : Add(i) \in Nat
  <2> SUFFICES ASSUME NEW i \in Nat, i < Slots
               PROVE  SymbolAt(memory, i) * pow2[Rest(i + 1)] \in Nat
    OBVIOUS
  <2>1. i + 1 \in 0 .. Slots
    BY <1>1
  <2>2. pow2[Rest(i + 1)] \in Nat
    BY <2>1, RestFacts, Pow2Positive
  <2> QED BY <2>2, SymbolAtRange
<1>3. PICK h \in [0 .. Slots -> Nat] : IsRun(h, 0, step, Slots)
  <2> HIDE DEF Add
  <2>1. step \in [Nat -> [Nat -> Nat]] /\ 0 \in Nat
    BY <1>2
  <2> HIDE DEF step
  <2> QED BY <2>1, <1>1, FiniteRecursion
<1>4. h[0] = 0 /\ \A i \in 0 .. Slots - 1 : h[i + 1] = h[i] + Add(i)
  <2> HIDE DEF Add
  <2>1. h[0] = 0
    BY <1>3 DEF IsRun
  <2>2. ASSUME NEW i \in 0 .. Slots - 1 PROVE h[i + 1] = h[i] + Add(i)
    <3>1. h[i] \in Nat /\ i \in Nat
      BY <1>1
    <3>2. h[i + 1] = step[i][h[i]]
      BY <1>3 DEF IsRun
    <3> QED BY <3>1, <3>2
  <2> QED BY <2>1, <2>2
<1>5. \A i \in 0 .. Slots - 1 :
        Add(i) = char_to_symbol(CharAt(memory, i)) * pow2[Shift(i)]
  <2> SUFFICES ASSUME NEW i \in 0 .. Slots - 1
               PROVE  Add(i) = char_to_symbol(CharAt(memory, i)) * pow2[Shift(i)]
    OBVIOUS
  <2>1. i < Slots /\ Shift(i) = Rest(i + 1)
    BY <1>1, RestFacts
  <2> QED BY <2>1 DEF SymbolAt
<1> HIDE DEF Add
<1>6. h = Def(h)
  <2>1. ASSUME NEW i \in 0 .. Slots PROVE h[i] = Def(h)[i]
    <3>1. CASE i = 0
      BY <3>1, <1>4
    <3>2. CASE i # 0
      <4>1. i - 1 \in 0 .. Slots - 1 /\ (i - 1) + 1 = i
        BY <3>2, <1>1
      <4>2. h[i] = h[i - 1] + Add(i - 1)
        BY <4>1, <1>4
      <4> QED BY <3>2, <4>1, <4>2, <1>5
    <3> QED BY <3>1, <3>2
  <2> QED BY <2>1
<1>7. Looped(memory) = CHOOSE n : n = Def(n)
  BY DEF Looped
<1> HIDE DEF Def
<1> DEFINE n == Looped(memory)
<1>8. n = Def(n)
  BY <1>6, <1>7
<1> HIDE DEF n
<1>9. n[0] = 0
  BY <1>1, <1>8 DEF Def
<1>10. ASSUME NEW i \in 0 .. Slots - 1 PROVE n[i + 1] = n[i] + Add(i)
  <2>1. i + 1 \in 0 .. Slots /\ i + 1 # 0 /\ (i + 1) - 1 = i
    BY <1>1
  <2>2. Def(n)[i + 1] = n[i] + char_to_symbol(CharAt(memory, i)) * pow2[Shift(i)]
    BY <2>1 DEF Def
  <2> QED BY <2>2, <1>5, <1>8
<1>11. \A i \in 0 .. Slots : n[i] \in Nat
  <2> DEFINE T == {i \in Nat : i <= Slots => n[i] \in Nat}
  <2>1. T \in SUBSET Nat /\ 0 \in T
    BY <1>9
  <2>2. ASSUME NEW i \in T PROVE i + 1 \in T
    <3>1. i \in Nat
      OBVIOUS
    <3>2. ASSUME i + 1 <= Slots PROVE n[i + 1] \in Nat
      <4>1. i \in 0 .. Slots - 1 /\ i <= Slots
        BY <3>1, <3>2, <1>1
      <4>2. n[i] \in Nat
        BY <4>1
      <4>3. n[i + 1] = n[i] + Add(i) /\ Add(i) \in Nat
        BY <4>1, <3>1, <1>2, <1>10
      <4> QED BY <4>2, <4>3
    <3> QED BY <3>1, <3>2
  <2> HIDE DEF T
  <2>3. T = Nat
    BY <2>1, <2>2, NatSetInduction
  <2> QED BY <2>3, <1>1 DEF T
<1>12. n \in [0 .. Slots -> Nat]
  <2>1. n = [i \in 0 .. Slots |-> n[i]]
    BY <1>8 DEF Def
  <2> QED BY <2>1, <1>11
<1>13. \A i \in 0 .. Slots - 1 : Add(i) = SymbolAt(memory, i) * pow2[Rest(i + 1)]
  BY <1>1 DEF Add
<1> QED BY <1>9, <1>10, <1>12, <1>13 DEF n

(* An iteration appends a symbol, and what is encoded fits to the left of    *)
(* the slots that are still free.                                            *)
LEMMA EncodedStep ==
    ASSUME NEW memory, NEW i \in 0 .. Slots
    PROVE  /\ Encoded(memory, i) \in Nat
           /\ Looped(memory)[i] = pow2[Rest(i)] * Encoded(memory, i)
           /\ Looped(memory)[i] + pow2[Rest(i)] <= pow2[Width]
           /\ i < Slots => Encoded(memory, i + 1) =
                             pow2[Bits] * Encoded(memory, i) + SymbolAt(memory, i)
<1> DEFINE n == Looped(memory)
           d(k) == pow2[Rest(k)]
           Fits(k) == n[k] = d(k) * Encoded(memory, k) /\ n[k] + d(k) <= pow2[Width]
           Appends(k) == Encoded(memory, k + 1) =
                           pow2[Bits] * Encoded(memory, k) + SymbolAt(memory, k)
           T == {k \in Nat : k <= Slots => Fits(k)}
<1>1. Slots \in Nat /\ pow2[Bits] \in Nat \ {0} /\ pow2[Width] \in Nat
  BY RestFacts, Pow2Positive
<1>2. \A k \in 0 .. Slots : n[k] \in Nat /\ d(k) \in Nat \ {0}
  BY LoopedRecursion, RestFacts, Pow2Positive
<1>3. \A k \in 0 .. Slots : Encoded(memory, k) \in Nat
  <2> SUFFICES ASSUME NEW k \in 0 .. Slots PROVE n[k] \div d(k) \in Nat
    BY DEF Encoded
  <2>1. n[k] \in Nat /\ d(k) \in Nat \ {0}
    BY <1>2
  <2> HIDE DEF n, d
  <2> QED BY <2>1, Division
<1>4. Fits(0)
  <2>1. n[0] = 0 /\ d(0) = pow2[Width] /\ 0 \in 0 .. Slots
    BY <1>1, LoopedRecursion, RestFacts
  <2>2. Encoded(memory, 0) = 0 \div pow2[Width]
    BY <2>1 DEF Encoded
  <2>3. d(0) \in Nat \ {0}
    BY <1>2, <2>1
  <2>4. Encoded(memory, 0) = 0
    BY <2>1, <2>2, <2>3
  <2> HIDE DEF n, d
  <2> QED BY <1>1, <2>1, <2>3, <2>4
<1>5. ASSUME NEW k \in 0 .. Slots - 1, Fits(k) PROVE Fits(k + 1) /\ Appends(k)
  <2> DEFINE e == Encoded(memory, k)
             x == d(k + 1)
             b == pow2[Bits]
             c == SymbolAt(memory, k)
  <2>1. k \in 0 .. Slots /\ k + 1 \in 0 .. Slots
    BY <1>1
  <2>2. d(k) = x * b
    <3>1. Rest(k) = Rest(k + 1) + Bits /\ Rest(k + 1) \in Nat /\ Bits \in Nat
      BY <2>1, RestFacts
    <3> QED BY <3>1, Pow2Sum
  <2>3. n[k + 1] = n[k] + c * x
    BY LoopedRecursion
  <2>4. n[k] = (x * b) * e /\ n[k] + x * b <= pow2[Width]
    BY <1>5, <2>2
  <2>5. x \in Nat \ {0} /\ e \in Nat /\ b \in Nat \ {0} /\ c \in Nat /\ c + 1 <= b /\ n[k] \in Nat
    BY <1>1, <1>2, <1>3, <2>1, SymbolAtRange
  <2>6. Encoded(memory, k + 1) = n[k + 1] \div x
    BY DEF Encoded
  <2> DEFINE f == b * e + c
  <2> HIDE DEF n, e, x, b, c, d
  <2>7. n[k + 1] = x * f /\ f \in Nat
    <3>1. f \in Nat
      BY <2>5
    <3>2. (x * b) * e + c * x = x * (b * e + c)
      BY <2>5
    <3> QED BY <3>1, <3>2, <2>3, <2>4
  <2> HIDE DEF f
  <2>8. n[k + 1] \div x = f
    <3>1. x * f = x * f + 0 /\ 0 \in 0 .. x - 1
      BY <2>5, <2>7
    <3>2. (x * f + 0) \div x = f
      BY <3>1, <2>5, <2>7, DivisionUnique
    <3> QED BY <3>1, <3>2, <2>7
  <2>9. n[k + 1] + x <= pow2[Width]
    <3>1. (c + 1) * x <= x * b
      BY <2>5
    <3>2. c * x + x = (c + 1) * x /\ c * x \in Nat /\ x * b \in Nat
      BY <2>5
    <3> QED BY <3>1, <3>2, <2>3, <2>4, <2>5, <1>1
  <2>10. Fits(k + 1)
    BY <2>6, <2>7, <2>8, <2>9 DEF x
  <2>11. Appends(k)
    BY <2>6, <2>8 DEF f, b, e, c
  <2> QED BY <2>10, <2>11
<1>6. T = Nat
  <2>1. T \in SUBSET Nat
    OBVIOUS
  <2> HIDE DEF Fits
  <2>2. 0 \in T
    BY <1>4
  <2>3. ASSUME NEW k \in T PROVE k + 1 \in T
    <3>1. ASSUME k + 1 <= Slots PROVE Fits(k + 1)
      <4>1. k \in 0 .. Slots - 1 /\ k <= Slots
        BY <3>1, <1>1
      <4> QED BY <4>1, <1>5
    <3> QED BY <3>1
  <2> HIDE DEF T
  <2> QED BY <2>1, <2>2, <2>3, NatSetInduction
<1>7. Fits(i)
  <2> HIDE DEF Fits
  <2>1. i \in Nat /\ i <= Slots
    BY <1>1
  <2> QED BY <2>1, <1>6
<1>8. i < Slots => Appends(i)
  <2> HIDE DEF Fits, Appends, T
  <2>1. i < Slots => i \in 0 .. Slots - 1
    BY <1>1
  <2> QED BY <2>1, <1>5, <1>7
<1> QED BY <1>3, <1>7, <1>8

(* A NUL and what follows it are encoded as zeros. *)
LEMMA SymbolPastEnd ==
    ASSUME NEW memory, Len(memory) \in Nat, NEW i \in Nat, i >= Len(memory)
    PROVE  SymbolAt(memory, i) = 0
<1>1. CharAt(memory, i) = Nul
  BY DEF CharAt
<1> QED BY <1>1, AlphabetAssumption, CodesAssumption
        DEF SymbolAt, char_to_symbol, Nul, LetterCodes, DigitCodes

(* The loop may as well go on through the NUL: it adds nothing then. *)
LEMMA LoopToTheEnd ==
    ASSUME NEW memory, Len(memory) \in Nat
    PROVE  string_to_uint64_t(memory) =
             Looped(memory)[Slots] + (SymbolAt(memory, Slots) % pow2[Bits - 1])
<1> DEFINE m == Min({Len(memory), Slots})
           n == Looped(memory)
           low == SymbolAt(memory, Slots) % pow2[Bits - 1]
<1>1. Slots \in Nat /\ pow2[Bits - 1] \in Nat \ {0}
  BY RestFacts, Pow2Positive
<1>2. m = IF Len(memory) <= Slots THEN Len(memory) ELSE Slots
  BY <1>1 DEF Min
<1>3. ASSUME NEW i \in Nat, i >= Len(memory) PROVE SymbolAt(memory, i) = 0
  BY <1>3, SymbolPastEnd
<1>4. string_to_uint64_t(memory) = n[m] + LowBits(memory, m)
  BY DEF string_to_uint64_t
<1>5. CASE Len(memory) >= Slots
  <2>1. m = Slots
    BY <1>1, <1>2, <1>5
  <2> HIDE DEF m
  <2> QED BY <1>4, <2>1 DEF LowBits, SymbolAt
<1>6. CASE Len(memory) < Slots
  <2>1. m = Len(memory)
    BY <1>1, <1>2, <1>6
  <2> HIDE DEF m
  <2>2. LowBits(memory, m) = 0
    BY <2>1, <1>1, <1>6 DEF LowBits
  <2>3. SymbolAt(memory, Slots) = 0
    BY <1>1, <1>3, <1>6
  <2>4. low = 0
    BY <2>3, <1>1
  <2> HIDE DEF low
  <2> DEFINE T == {k \in Nat : m + k <= Slots => n[m + k] = n[m]}
  <2>5. T \in SUBSET Nat /\ 0 \in T
    BY <2>1
  <2>6. ASSUME NEW k \in T PROVE k + 1 \in T
    <3>1. k \in Nat
      OBVIOUS
    <3>2. ASSUME m + (k + 1) <= Slots PROVE n[m + (k + 1)] = n[m]
      <4>1. m + k \in 0 .. Slots - 1 /\ m + k <= Slots /\ m + (k + 1) = (m + k) + 1
        BY <3>1, <3>2, <2>1, <1>1
      <4>2. n[m + k] = n[m]
        BY <4>1
      <4>3. n[(m + k) + 1] = n[m + k] + SymbolAt(memory, m + k) * pow2[Rest((m + k) + 1)]
        BY <4>1, LoopedRecursion
      <4>4. SymbolAt(memory, m + k) = 0
        BY <4>1, <3>1, <2>1, <1>3
      <4>5. (m + k) + 1 \in 0 .. Slots
        BY <4>1, <1>1
      <4>6. pow2[Rest((m + k) + 1)] \in Nat
        BY <4>5, RestFacts, Pow2Positive
      <4>7. n[m + k] \in Nat
        BY <4>1, <1>1, LoopedRecursion
      <4> QED BY <4>1, <4>2, <4>3, <4>4, <4>6, <4>7
    <3> QED BY <3>1, <3>2
  <2> HIDE DEF T
  <2>7. T = Nat
    BY <2>5, <2>6, NatSetInduction
  <2>8. Slots - m \in Nat /\ m + (Slots - m) = Slots
    BY <2>1, <1>1, <1>6
  <2>9. n[Slots] = n[m]
    BY <2>7, <2>8, <1>1 DEF T
  <2> QED BY <1>4, <2>2, <2>4, <2>9 DEF low
<1> QED BY <1>1, <1>5, <1>6

(* The number that characters are encoded to, whatever they are and however  *)
(* many: its chunks are their symbols.                                       *)
LEMMA EncodedDigits ==
    ASSUME NEW memory, Len(memory) \in Nat
    PROVE  LET v == string_to_uint64_t(memory) IN
             /\ v \in Values
             /\ \A k \in 1 .. Slots : Digit(v, k) = SymbolAt(memory, k - 1)
             /\ Digit(v, Slots + 1) = SymbolAt(memory, Slots) % pow2[Bits - 1]
<1> DEFINE v == string_to_uint64_t(memory)
           low == SymbolAt(memory, Slots) % pow2[Bits - 1]
           n == Looped(memory)[Slots]
           e(i) == Encoded(memory, i)
           T == {k \in Nat : k <= Slots => Prefix(v, Slots - k) = e(Slots - k)}
<1>1. Slots \in Nat /\ pow2[Bits - 1] \in Nat \ {0} /\ pow2[Bits] \in Nat \ {0} /\ pow2[Width] \in Nat
  BY RestFacts, Pow2Positive
<1>2. v = n + low
  BY LoopToTheEnd
<1>3. low \in 0 .. pow2[Bits - 1] - 1 /\ low \in Nat
  <2>1. SymbolAt(memory, Slots) \in Nat
    BY SymbolAtRange
  <2>2. low \in 0 .. pow2[Bits - 1] - 1
    BY <2>1, <1>1, Division
  <2> HIDE DEF low
  <2> QED BY <2>2, <1>1
<1>4. n = pow2[Bits - 1] * e(Slots) /\ e(Slots) \in Nat /\ n + pow2[Bits - 1] <= pow2[Width]
  <2>1. Slots \in 0 .. Slots /\ Rest(Slots) = Bits - 1
    BY <1>1, RestFacts
  <2> QED BY <2>1, EncodedStep
<1>5. n \in Nat
  BY <1>1, LoopedRecursion
<1> HIDE DEF v, low, n, e
<1>6. v \in Values
  <2>1. n + pow2[Bits - 1] <= pow2[Width]
    BY <1>4
  <2>2. low < pow2[Bits - 1] /\ low \in Nat
    BY <1>1, <1>3
  <2>3. v \in Nat /\ v < pow2[Width]
    BY <2>1, <2>2, <1>1, <1>2, <1>5
  <2> QED BY <2>3, <1>1 DEF Values
<1>7. v \div pow2[Bits - 1] = e(Slots) /\ v % pow2[Bits - 1] = low
  BY <1>1, <1>2, <1>3, <1>4, DivisionUnique
<1>8. Digit(v, Slots + 1) = low
  BY <1>1, <1>7 DEF Digit, Chunk
<1>9. Prefix(v, Slots) = e(Slots)
  BY <1>1, <1>7, RestFacts DEF Prefix
<1>10. ASSUME NEW j \in 0 .. Slots - 1, Prefix(v, j + 1) = e(j + 1)
       PROVE  Prefix(v, j) = e(j) /\ Digit(v, j + 1) = SymbolAt(memory, j)
  <2> DEFINE b == pow2[Bits]
             p == Prefix(v, j)
             s == SymbolAt(memory, j)
             t == Digit(v, j + 1)
  <2>1. j \in 0 .. Slots /\ j < Slots /\ j + 1 \in 1 .. Slots
    BY <1>1
  <2>2. Base(j + 1) = b
    BY <2>1, BaseFacts
  <2>3. Prefix(v, j + 1) = b * p + t /\ t \in 0 .. b - 1
    BY <2>1, <2>2, <1>6, PrefixStep
  <2>4. e(j + 1) = b * e(j) + s /\ e(j) \in Nat
    BY <2>1, EncodedStep DEF e
  <2>5. p \in Nat
    BY <1>1, <2>1, <1>6, PrefixNat
  <2>6. s \in 0 .. b - 1
    BY SymbolAtRange
  <2> HIDE DEF b, p, s, t
  <2>7. b \in Nat \ {0}
    BY <1>1 DEF b
  <2>8. (b * p + t) \div b = p /\ (b * p + t) % b = t
    BY <2>3, <2>5, <2>7, DivisionUnique
  <2>9. (b * e(j) + s) \div b = e(j) /\ (b * e(j) + s) % b = s
    BY <2>4, <2>6, <2>7, DivisionUnique
  <2>10. b * p + t = b * e(j) + s
    BY <1>10, <2>3, <2>4
  <2>11. p = e(j) /\ t = s
    BY <2>8, <2>9, <2>10
  <2> QED BY <2>11 DEF p, t, s
<1>11. T = Nat
  <2>1. T \in SUBSET Nat
    OBVIOUS
  <2>2. 0 \in T
    BY <1>1, <1>9
  <2>3. ASSUME NEW k \in T PROVE k + 1 \in T
    <3>1. ASSUME k + 1 <= Slots PROVE Prefix(v, Slots - (k + 1)) = e(Slots - (k + 1))
      <4>1. Slots - (k + 1) \in 0 .. Slots - 1 /\ (Slots - (k + 1)) + 1 = Slots - k /\ k <= Slots
        BY <3>1, <1>1
      <4>2. Prefix(v, Slots - k) = e(Slots - k)
        BY <4>1
      <4> QED BY <4>1, <4>2, <1>10
    <3> QED BY <3>1
  <2> HIDE DEF T
  <2> QED BY <2>1, <2>2, <2>3, NatSetInduction
<1>12. ASSUME NEW k \in 1 .. Slots PROVE Digit(v, k) = SymbolAt(memory, k - 1)
  <2>1. Slots - k \in Nat /\ Slots - (Slots - k) = k /\ Slots - k <= Slots
    BY <1>1
  <2>2. Prefix(v, Slots - (Slots - k)) = e(Slots - (Slots - k))
    BY <2>1, <1>11
  <2>3. Prefix(v, k) = e(k)
    BY <2>1, <2>2
  <2>4. k - 1 \in 0 .. Slots - 1 /\ (k - 1) + 1 = k
    BY <1>1
  <2> QED BY <2>3, <2>4, <1>10
<1> QED BY <1>6, <1>8, <1>12 DEF v, low

-----------------------------------------------------------------------------
(* The characters of the symbols. *)
LEMMA CharmapFacts ==
    ASSUME NEW s \in 0 .. pow2[Bits] - 1
    PROVE  /\ charmap(s) \in Nat
           /\ charmap(s) \in Chars
           /\ char_to_symbol(charmap(s)) = s
           /\ charmap(s) = Dot <=> s = 0
           /\ charmap(s) >= Dot
<1>1. s \in 0 .. Digits + Letters /\ Digits \in Nat /\ Letters \in Nat /\ Digits < 49
  BY AlphabetAssumption, CodesAssumption
<1>2. CASE s = 0
  BY <1>1, <1>2 DEF charmap, char_to_symbol, Dot, LetterCodes, DigitCodes, Chars
<1>3. CASE s \in 1 .. Digits
  BY <1>1, <1>3 DEF charmap, char_to_symbol, Dot, LetterCodes, DigitCodes, Chars
<1>4. CASE s \in Digits + 1 .. Digits + Letters
  BY <1>1, <1>4 DEF charmap, char_to_symbol, Dot, LetterCodes, DigitCodes, Chars
<1> QED BY <1>1, <1>2, <1>3, <1>4

(* The characters of the alphabet ascend as their symbols do. *)
LEMMA CharmapIncreasing ==
    ASSUME NEW s \in 0 .. pow2[Bits] - 1, NEW t \in 0 .. pow2[Bits] - 1, s < t
    PROVE  charmap(s) < charmap(t)
<1>1. /\ s \in 0 .. Digits + Letters /\ t \in 0 .. Digits + Letters
      /\ Digits \in Nat /\ Letters \in Nat /\ Digits < 49
  BY AlphabetAssumption, CodesAssumption
<1> QED BY <1>1 DEF charmap, Dot

LEMMA SymbolFacts ==
    ASSUME NEW c \in Chars \ Others
    PROVE  charmap(char_to_symbol(c)) = c
<1>1. Digits \in Nat /\ Letters \in Nat /\ Digits < 49
  BY AlphabetAssumption, CodesAssumption
<1>2. CASE c = Dot
  BY <1>1, <1>2 DEF charmap, char_to_symbol, Dot, LetterCodes, DigitCodes
<1>3. CASE c \in DigitCodes
  BY <1>1, <1>3 DEF charmap, char_to_symbol, Dot, LetterCodes, DigitCodes
<1>4. CASE c \in LetterCodes
  BY <1>1, <1>4 DEF charmap, char_to_symbol, Dot, LetterCodes, DigitCodes
<1> QED BY <1>2, <1>3, <1>4 DEF Chars

(* Characters are their codes. *)
LEMMA CharsNat == Chars \subseteq Nat
BY AlphabetAssumption, OthersAssumption DEF Chars, Dot, DigitCodes, LetterCodes

(* The greatest element of a bounded set of naturals. *)
LEMMA MaxFacts ==
    ASSUME NEW N \in Nat, NEW S \in SUBSET (0 .. N), S # {}
    PROVE  Max(S) \in S /\ \A y \in S : y <= Max(S)
<1> DEFINE T == {m \in 0 .. N : N - m \in S}
<1>1. T \in SUBSET Nat
  OBVIOUS
<1>2. T # {}
  <2>1. PICK x \in S : TRUE
    OBVIOUS
  <2>2. N - x \in 0 .. N /\ N - (N - x) = x
    OBVIOUS
  <2>3. N - x \in T
    BY <2>2
  <2> QED BY <2>3
<1>3. PICK m \in T : \A l \in T : m <= l
  <2> HIDE DEF T
  <2> QED BY <1>1, <1>2, LeastNat
<1>4. N - m \in S /\ m \in 0 .. N
  BY <1>3
<1>5. ASSUME NEW y \in S PROVE N - m >= y
  <2>1. N - y \in 0 .. N /\ N - (N - y) = y
    OBVIOUS
  <2>2. N - y \in T
    BY <2>1
  <2>3. m <= N - y
    BY <2>2, <1>3
  <2> QED BY <2>3, <1>4
<1>6. \E x \in S : \A y \in S : x >= y
  BY <1>4, <1>5
<1>7. Max(S) = CHOOSE x \in S : \A y \in S : x >= y
  BY DEF Max
<1>8. Max(S) \in S /\ \A y \in S : Max(S) >= y
  BY <1>6, <1>7
<1> QED BY <1>8

(* What trim_right_if leaves. *)
LEMMA TrimmedFacts ==
    ASSUME NEW N \in Nat, NEW f \in [1 .. N -> Chars]
    PROVE  LET s == Trimmed(f) IN
             /\ s \in Seq(Chars)
             /\ Len(s) \in 0 .. N
             /\ \A k \in 1 .. Len(s) : s[k] = f[k]
             /\ \A k \in 1 .. N : k > Len(s) => f[k] = Dot
             /\ Len(s) # 0 => f[Len(s)] # Dot
<1> DEFINE S == {0} \cup {k \in 1 .. N : f[k] # Dot}
           m == Max(S)
<1>1. Trimmed(f) = SubSeq(f, 1, m)
  BY DEF Trimmed
<1>2. m \in S /\ \A y \in S : y <= m
  <2>1. S \in SUBSET (0 .. N) /\ S # {}
    OBVIOUS
  <2> HIDE DEF S
  <2> QED BY <2>1, MaxFacts
<1> HIDE DEF m
<1>3. m \in 0 .. N /\ (m # 0 => f[m] # Dot)
  BY <1>2
<1>4. \A k \in 1 .. N : k > m => f[k] = Dot
  BY <1>2, <1>3
<1>5. f \in Seq(Chars) /\ Len(f) = N
  OBVIOUS
<1>6. /\ SubSeq(f, 1, m) \in Seq(Chars)
      /\ Len(SubSeq(f, 1, m)) = m
      /\ \A k \in 1 .. m : SubSeq(f, 1, m)[k] = f[k]
  BY <1>3, <1>5
<1> QED BY <1>1, <1>3, <1>4, <1>6

(* The text of a number. *)
LEMMA TextFacts ==
    ASSUME NEW v \in Values
    PROVE  LET s == to_string(v) IN
             /\ s \in Seq(Chars)
             /\ Len(s) \in 0 .. Slots + 1
             /\ \A k \in 1 .. Len(s) : s[k] = charmap(Digit(v, k))
             /\ \A k \in 1 .. Slots + 1 : k > Len(s) => Digit(v, k) = 0
             /\ Len(s) # 0 => s[Len(s)] # Dot
             /\ \A k \in 1 .. Slots + 1 : Digit(v, k) \in 0 .. pow2[Bits] - 1
             /\ Digit(v, Slots + 1) \in 0 .. pow2[Bits - 1] - 1
<1> DEFINE f == [k \in 1 .. Slots + 1 |-> charmap(Digit(v, k))]
           s == Trimmed(f)
<1>1. to_string(v) = s
  BY DEF to_string, Digit
<1>2. Slots \in Nat /\ Slots + 1 \in Nat
  BY RestFacts
<1>3. ASSUME NEW k \in 1 .. Slots + 1
      PROVE  Digit(v, k) \in 0 .. Base(k) - 1 /\ Digit(v, k) \in 0 .. pow2[Bits] - 1
  <2>1. k - 1 \in 0 .. Slots /\ (k - 1) + 1 = k
    BY RestFacts
  <2>2. Digit(v, k) \in 0 .. Base(k) - 1
    BY <2>1, PrefixStep
  <2>3. Base(k) <= pow2[Bits] /\ Base(k) \in Nat /\ pow2[Bits] \in Nat
    BY BaseFacts, RestFacts, Pow2Positive
  <2> QED BY <2>2, <2>3
<1>4. Digit(v, Slots + 1) \in 0 .. pow2[Bits - 1] - 1
  <2>1. Slots + 1 \in 1 .. Slots + 1
    BY <1>2
  <2> QED BY <2>1, <1>3, BaseFacts
<1>5. f \in [1 .. Slots + 1 -> Chars]
  BY <1>3, CharmapFacts
<1>6. /\ s \in Seq(Chars)
      /\ Len(s) \in 0 .. Slots + 1
      /\ \A k \in 1 .. Len(s) : s[k] = f[k]
      /\ \A k \in 1 .. Slots + 1 : k > Len(s) => f[k] = Dot
      /\ Len(s) # 0 => f[Len(s)] # Dot
  <2> HIDE DEF f
  <2> QED BY <1>2, <1>5, TrimmedFacts
<1> HIDE DEF s
<1>7. ASSUME NEW k \in 1 .. Len(s) PROVE s[k] = charmap(Digit(v, k))
  <2>1. k \in 1 .. Slots + 1
    BY <1>2, <1>6
  <2> QED BY <2>1, <1>6
<1>8. \A k \in 1 .. Slots + 1 : k > Len(s) => Digit(v, k) = 0
  BY <1>3, <1>6, CharmapFacts
<1>9. Len(s) # 0 => s[Len(s)] # Dot
  <2>1. Len(s) # 0 => Len(s) \in 1 .. Len(s)
    BY <1>6
  <2> HIDE DEF f
  <2> QED BY <2>1, <1>6
<1> QED BY <1>1, <1>3, <1>4, <1>6, <1>7, <1>8, <1>9

(* The text of a number is encoded to its chunks. *)
LEMMA SymbolOfText ==
    ASSUME NEW v \in Values, NEW k \in 1 .. Slots + 1
    PROVE  SymbolAt(to_string(v), k - 1) = Digit(v, k)
<1> DEFINE s == to_string(v)
<1>1. Slots \in Nat /\ k \in Nat /\ k - 1 \in Nat
  BY RestFacts
<1>2. /\ s \in Seq(Chars) /\ Len(s) \in 0 .. Slots + 1
      /\ \A j \in 1 .. Len(s) : s[j] = charmap(Digit(v, j))
      /\ \A j \in 1 .. Slots + 1 : j > Len(s) => Digit(v, j) = 0
      /\ Digit(v, k) \in 0 .. pow2[Bits] - 1
  BY TextFacts
<1> HIDE DEF s
<1>3. Len(s) \in Nat
  BY <1>2, <1>1
<1>4. CASE k > Len(s)
  BY <1>1, <1>2, <1>3, <1>4, SymbolPastEnd DEF s
<1>5. CASE k <= Len(s)
  <2>1. k \in 1 .. Len(s) /\ k - 1 < Len(s) /\ (k - 1) + 1 = k
    BY <1>1, <1>3, <1>5
  <2>2. CharAt(s, k - 1) = charmap(Digit(v, k))
    BY <2>1, <1>2 DEF CharAt
  <2> QED BY <2>2, <1>2, CharmapFacts DEF SymbolAt, s
<1> QED BY <1>1, <1>3, <1>4, <1>5

(* Encoding the text of a number gives the number back. *)
LEMMA TextRoundTrip ==
    ASSUME NEW v \in Values
    PROVE  string_to_uint64_t(to_string(v)) = v
<1> DEFINE s == to_string(v)
           u == string_to_uint64_t(s)
<1>1. Slots \in Nat /\ pow2[Bits - 1] \in Nat \ {0}
  BY RestFacts, Pow2Positive
<1>2. Len(s) \in Nat
  BY <1>1, TextFacts
<1> HIDE DEF s
<1>3. /\ u \in Values
      /\ \A k \in 1 .. Slots : Digit(u, k) = SymbolAt(s, k - 1)
      /\ Digit(u, Slots + 1) = SymbolAt(s, Slots) % pow2[Bits - 1]
  BY <1>2, EncodedDigits
<1> HIDE DEF u
<1>4. ASSUME NEW k \in 1 .. Slots + 1 PROVE Digit(u, k) = Digit(v, k)
  <2>1. SymbolAt(s, k - 1) = Digit(v, k)
    BY SymbolOfText DEF s
  <2>2. CASE k \in 1 .. Slots
    BY <2>1, <2>2, <1>3
  <2>3. CASE k = Slots + 1
    <3>1. k - 1 = Slots
      BY <2>3, <1>1
    <3>2. Digit(v, k) \in 0 .. pow2[Bits - 1] - 1
      BY <2>3, TextFacts
    <3>3. Digit(v, k) % pow2[Bits - 1] = Digit(v, k)
      BY <3>2, <1>1
    <3> QED BY <3>1, <3>3, <2>1, <2>3, <1>3
  <2> QED BY <2>2, <2>3, <1>1
<1>5. u = v
  BY <1>3, <1>4, DigitsDetermine
<1> QED BY <1>5 DEF u, s

(* A proper name that a NUL follows is the text of its encoding. *)
LEMMA NameIsText ==
    ASSUME NEW str \in Seq(Chars), IsName(str)
    PROVE  to_string(string_to_uint64_t(str)) = str
<1> DEFINE v == string_to_uint64_t(str)
           t == to_string(v)
           n == Len(str)
<1>1. Slots \in Nat /\ pow2[Bits - 1] \in Nat \ {0} /\ n \in Nat /\ n <= Slots + 1
  BY RestFacts, Pow2Positive DEF IsName
<1>2. /\ \A k \in 1 .. n : str[k] \in Chars \ Others
      /\ n # 0 => str[n] # Dot
      /\ n = Slots + 1 => char_to_symbol(str[n]) < pow2[Bits - 1]
  <2>1. n # 0 => str # <<>> /\ Last(str) = str[n]
    BY <1>1 DEF Last
  <2> QED BY <2>1, <1>1 DEF IsName
<1>3. /\ v \in Values
      /\ \A k \in 1 .. Slots : Digit(v, k) = SymbolAt(str, k - 1)
      /\ Digit(v, Slots + 1) = SymbolAt(str, Slots) % pow2[Bits - 1]
  BY <1>1, EncodedDigits
<1> HIDE DEF v
<1>4. ASSUME NEW k \in 1 .. n PROVE SymbolAt(str, k - 1) = char_to_symbol(str[k])
  <2>1. k - 1 < n /\ (k - 1) + 1 = k
    BY <1>1
  <2> QED BY <2>1 DEF SymbolAt, CharAt
<1>5. ASSUME NEW k \in 1 .. Slots + 1 PROVE Digit(v, k) = SymbolAt(str, k - 1)
  <2>1. CASE k \in 1 .. Slots
    BY <2>1, <1>3
  <2>2. CASE k = Slots + 1
    <3>1. SymbolAt(str, Slots) \in Nat /\ k - 1 = Slots
      BY <2>2, <1>1, SymbolAtRange
    <3>2. SymbolAt(str, Slots) < pow2[Bits - 1]
      <4>1. CASE n = Slots + 1
        BY <4>1, <3>1, <1>1, <1>2, <1>4, <2>2
      <4>2. CASE n # Slots + 1
        <5>1. Slots >= n
          BY <4>2, <1>1
        <5>2. SymbolAt(str, Slots) = 0
          BY <5>1, <1>1, SymbolPastEnd
        <5> QED BY <5>2, <1>1
      <4> QED BY <4>1, <4>2
    <3>3. SymbolAt(str, Slots) % pow2[Bits - 1] = SymbolAt(str, Slots)
      BY <3>1, <3>2, <1>1
    <3> QED BY <3>1, <3>3, <2>2, <1>3
  <2> QED BY <2>1, <2>2, <1>1
<1>6. ASSUME NEW k \in 1 .. n PROVE charmap(Digit(v, k)) = str[k]
  <2>1. k \in 1 .. Slots + 1
    BY <1>1
  <2> QED BY <2>1, <1>2, <1>4, <1>5, SymbolFacts
<1>7. /\ t \in Seq(Chars) /\ Len(t) \in 0 .. Slots + 1
      /\ \A k \in 1 .. Len(t) : t[k] = charmap(Digit(v, k))
      /\ \A k \in 1 .. Slots + 1 : k > Len(t) => Digit(v, k) = 0
      /\ Len(t) # 0 => t[Len(t)] # Dot
  BY <1>3, TextFacts
<1> HIDE DEF t, n
<1>8. Len(t) \in Nat
  BY <1>7, <1>1
<1>9. charmap(0) = Dot
  BY DEF charmap
<1>10. ~ (Len(t) < n)
  <2> SUFFICES ASSUME Len(t) < n PROVE FALSE
    OBVIOUS
  <2>1. n \in 1 .. n /\ n \in 1 .. Slots + 1 /\ n > Len(t)
    BY <1>1, <1>8
  <2>2. Digit(v, n) = 0
    BY <2>1, <1>7
  <2>3. str[n] = Dot
    BY <2>1, <2>2, <1>6, <1>9
  <2> QED BY <2>1, <2>3, <1>2
<1>11. ~ (n < Len(t))
  <2> SUFFICES ASSUME n < Len(t) PROVE FALSE
    OBVIOUS
  <2> DEFINE m == Len(t)
  <2>1. m \in 1 .. m /\ m \in 1 .. Slots + 1 /\ m - 1 \in Nat /\ m - 1 >= n /\ m # 0
    BY <1>1, <1>7, <1>8
  <2>2. SymbolAt(str, m - 1) = 0
    BY <2>1, <1>1, SymbolPastEnd DEF n
  <2>3. Digit(v, m) = 0
    BY <2>1, <2>2, <1>5
  <2>4. t[m] = Dot
    BY <2>1, <2>3, <1>7, <1>9
  <2> QED BY <2>1, <2>4, <1>7
<1>12. Len(t) = n
  BY <1>1, <1>8, <1>10, <1>11
<1>13. \A k \in 1 .. n : t[k] = str[k]
  BY <1>6, <1>7, <1>12
<1>14. t = str
  BY <1>7, <1>12, <1>13 DEF n
<1> QED BY <1>14 DEF t, v

-----------------------------------------------------------------------------
LEMMA SeqMonotone ==
    ASSUME NEW S, NEW T, S \subseteq T, NEW s \in Seq(S)
    PROVE  s \in Seq(T)
<1>1. s = [i \in 1 .. Len(s) |-> s[i]] /\ Len(s) \in Nat
  OBVIOUS
<1>2. \A i \in 1 .. Len(s) : s[i] \in T
  OBVIOUS
<1>3. s \in [1 .. Len(s) -> T]
  BY <1>1, <1>2
<1> QED BY <1>1, <1>3

(* The order of strings is asymmetric. *)
LEMMA PrecedesAsymmetric ==
    ASSUME NEW s \in Seq(Nat), NEW t \in Seq(Nat), Precedes(s, t), Precedes(t, s)
    PROVE  FALSE
<1>1. PICK k \in 1 .. Len(t) :
        /\ \A j \in 1 .. k - 1 : j <= Len(s) /\ s[j] = t[j]
        /\ k > Len(s) \/ s[k] < t[k]
  BY DEF Precedes
<1>2. PICK l \in 1 .. Len(s) :
        /\ \A j \in 1 .. l - 1 : j <= Len(t) /\ t[j] = s[j]
        /\ l > Len(t) \/ t[l] < s[l]
  BY DEF Precedes
<1>3. Len(s) \in Nat /\ Len(t) \in Nat
  OBVIOUS
<1>4. CASE k < l
  <2>1. k \in 1 .. l - 1 /\ k \in 1 .. Len(s) /\ k \in 1 .. Len(t)
    BY <1>3, <1>4
  <2>2. t[k] = s[k] /\ s[k] < t[k] /\ s[k] \in Nat /\ t[k] \in Nat
    BY <2>1, <1>1, <1>2, <1>3
  <2> QED BY <2>2
<1>5. CASE l < k
  <2>1. l \in 1 .. k - 1 /\ l \in 1 .. Len(s) /\ l \in 1 .. Len(t)
    BY <1>3, <1>5
  <2>2. t[l] = s[l] /\ t[l] < s[l] /\ s[l] \in Nat /\ t[l] \in Nat
    BY <2>1, <1>1, <1>2, <1>3
  <2> QED BY <2>2
<1>6. CASE k = l
  <2>1. k \in 1 .. Len(s) /\ k \in 1 .. Len(t)
    BY <1>6
  <2>2. t[k] < s[k] /\ s[k] < t[k] /\ s[k] \in Nat /\ t[k] \in Nat
    BY <2>1, <1>1, <1>2, <1>3, <1>6
  <2> QED BY <2>2
<1> QED BY <1>3, <1>4, <1>5, <1>6

(* The text of a lower number comes first. *)
LEMMA LowerPrecedes ==
    ASSUME NEW v \in Values, NEW w \in Values, v < w
    PROVE  Precedes(to_string(v), to_string(w))
<1> DEFINE s == to_string(v)
           t == to_string(w)
<1>1. PICK k \in 1 .. Slots + 1 :
        /\ \A j \in 1 .. k - 1 : Digit(v, j) = Digit(w, j)
        /\ Digit(v, k) < Digit(w, k)
  BY FirstDifference
<1>2. /\ s \in Seq(Chars) /\ Len(s) \in 0 .. Slots + 1
      /\ \A j \in 1 .. Len(s) : s[j] = charmap(Digit(v, j))
      /\ \A j \in 1 .. Slots + 1 : Digit(v, j) \in 0 .. pow2[Bits] - 1
  BY TextFacts
<1>3. /\ t \in Seq(Chars) /\ Len(t) \in 0 .. Slots + 1
      /\ \A j \in 1 .. Len(t) : t[j] = charmap(Digit(w, j))
      /\ \A j \in 1 .. Slots + 1 : j > Len(t) => Digit(w, j) = 0
      /\ \A j \in 1 .. Slots + 1 : Digit(w, j) \in 0 .. pow2[Bits] - 1
  BY TextFacts
<1> HIDE DEF s, t
<1>4. Slots \in Nat /\ pow2[Bits] \in Nat /\ Len(s) \in Nat /\ Len(t) \in Nat
  BY <1>2, <1>3, RestFacts, Pow2Positive
<1>5. Digit(w, k) # 0
  BY <1>1, <1>2, <1>4
<1>6. k \in 1 .. Len(t)
  BY <1>3, <1>4, <1>5
<1>7. ASSUME NEW j \in 1 .. k - 1, j <= Len(s) PROVE s[j] = t[j]
  <2>1. j \in 1 .. Len(s) /\ j \in 1 .. Len(t)
    BY <1>4, <1>6, <1>7
  <2> QED BY <2>1, <1>1, <1>2, <1>3
<1>8. CASE k <= Len(s)
  <2>1. k \in 1 .. Len(s)
    BY <1>4, <1>8
  <2>2. s[k] < t[k]
    BY <2>1, <1>1, <1>2, <1>3, <1>6, CharmapIncreasing
  <2>3. \A j \in 1 .. k - 1 : j <= Len(s) /\ s[j] = t[j]
    <3> SUFFICES ASSUME NEW j \in 1 .. k - 1 PROVE j <= Len(s) /\ s[j] = t[j]
      OBVIOUS
    <3>1. j <= Len(s)
      BY <2>1, <1>4
    <3> QED BY <3>1, <1>7
  <2>4. Precedes(s, t)
    BY <1>6, <2>2, <2>3 DEF Precedes
  <2> QED BY <2>4 DEF s, t
<1>9. CASE k > Len(s)
  <2> DEFINE l == Len(s) + 1
  <2>1. l \in 1 .. Len(t) /\ l > Len(s)
    BY <1>4, <1>6, <1>9
  <2>2. \A j \in 1 .. l - 1 : j <= Len(s) /\ s[j] = t[j]
    <3> SUFFICES ASSUME NEW j \in 1 .. l - 1 PROVE j <= Len(s) /\ s[j] = t[j]
      OBVIOUS
    <3>1. j <= Len(s) /\ j \in 1 .. k - 1
      BY <1>4, <1>6, <1>9
    <3> QED BY <3>1, <1>7
  <2> HIDE DEF l
  <2>3. Precedes(s, t)
    BY <2>1, <2>2 DEF Precedes
  <2> QED BY <2>3 DEF s, t
<1> QED BY <1>4, <1>8, <1>9

(* Numbers are equal, and ordered, as their texts are. *)
LEMMA OrderOfTexts ==
    ASSUME NEW v \in Values, NEW w \in Values
    PROVE  /\ (v = w) <=> (to_string(v) = to_string(w))
           /\ (v < w) <=> Precedes(to_string(v), to_string(w))
<1>1. v \in Nat /\ w \in Nat
  BY ValuesFacts
<1>2. to_string(v) \in Seq(Nat) /\ to_string(w) \in Seq(Nat)
  <2>1. to_string(v) \in Seq(Chars) /\ to_string(w) \in Seq(Chars)
    BY TextFacts
  <2> QED BY <2>1, CharsNat, SeqMonotone
<1>3. v < w => Precedes(to_string(v), to_string(w))
  BY LowerPrecedes
<1>4. w < v => Precedes(to_string(w), to_string(v))
  BY LowerPrecedes
<1>5. ~ (Precedes(to_string(v), to_string(w)) /\ Precedes(to_string(w), to_string(v)))
  BY <1>2, PrecedesAsymmetric
<1>6. CASE v = w
  BY <1>1, <1>5, <1>6
<1>7. CASE v < w
  BY <1>1, <1>3, <1>5, <1>7
<1>8. CASE w < v
  BY <1>1, <1>4, <1>5, <1>8
<1> QED BY <1>1, <1>6, <1>7, <1>8

-----------------------------------------------------------------------------
(* The inductive invariant: the numbers are in range, the texts that set     *)
(* accepted are those of their numbers, and what it refused it had reason to *)
(* refuse.                                                                   *)
NameInv ==
    /\ names \in Seq([value : Values, text : Seq(Chars) \cup {Unknown}])
    /\ \A i \in DOMAIN names :
         names[i].text # Unknown => names[i].text = to_string(names[i].value)
    /\ refused # <<>> =>
         /\ refused[1] \in Seq(Chars)
         /\ refused[2] \in Seq(Chars)
         /\ ~Accepted(string_to_uint64_t(refused[1] \o refused[2]), refused[1])

(* The number of a name fits. *)
LEMMA InRange ==
    ASSUME NameInv, NEW i \in DOMAIN names
    PROVE  names[i].value \in Values
<1> DEFINE R == [value : Values, text : Seq(Chars) \cup {Unknown}]
<1>1. names \in Seq(R)
  BY DEF NameInv
<1> HIDE DEF R
<1>2. names[i] \in R
  BY <1>1
<1> QED BY <1>2 DEF R

(* A constructor that is given a number that fits, and a text of it, if any. *)
LEMMA MakesName ==
    ASSUME NameInv, NEW value \in Values, NEW text \in Seq(Chars) \cup {Unknown},
           text # Unknown => text = to_string(value), Constructed(value, text)
    PROVE  NameInv'
<1> DEFINE R == [value : Values, text : Seq(Chars) \cup {Unknown}]
           new == [value |-> value, text |-> text]
<1>1. names \in Seq(R) /\ new \in R /\ names' = Append(names, new) /\ refused' = refused
  BY DEF NameInv, Constructed
<1>2. new.text # Unknown => new.text = to_string(new.value)
  OBVIOUS
<1> HIDE DEF R, new
<1>3. names' \in Seq(R)
  BY <1>1
<1>4. ASSUME NEW i \in DOMAIN names', names'[i].text # Unknown
      PROVE  names'[i].text = to_string(names'[i].value)
  <2>1. CASE i \in DOMAIN names
    <3>1. names'[i] = names[i]
      BY <2>1, <1>1
    <3> QED BY <3>1, <2>1, <1>4 DEF NameInv
  <2>2. CASE i \notin DOMAIN names
    <3>1. names'[i] = new
      BY <2>2, <1>1
    <3> QED BY <3>1, <1>2, <1>4
  <2> QED BY <2>1, <2>2
<1>5. refused' # <<>> =>
        /\ refused'[1] \in Seq(Chars)
        /\ refused'[2] \in Seq(Chars)
        /\ ~Accepted(string_to_uint64_t(refused'[1] \o refused'[2]), refused'[1])
  BY <1>1 DEF NameInv
<1> QED BY <1>3, <1>4, <1>5 DEF NameInv, R

(* Every way to make a name, or to refuse one, keeps the invariant. *)
LEMMA NameInvStep == NameInv /\ [Next]_vars => NameInv'
<1> SUFFICES ASSUME NameInv, [Next]_vars PROVE NameInv'
  OBVIOUS
<1>1. ASSUME NEW str \in SeqOf(Chars, MaxLength), NEW tail \in SeqOf(Chars, MaxTail)
      PROVE  /\ str \in Seq(Chars) /\ tail \in Seq(Chars)
             /\ string_to_uint64_t(str \o tail) \in Values
  <2>1. str \in Seq(Chars) /\ tail \in Seq(Chars)
    BY NamesBoundAssumption DEF SeqOf
  <2>2. Len(str \o tail) \in Nat
    BY <2>1
  <2> QED BY <2>1, <2>2, EncodedDigits
<1>2. ASSUME NEW str \in SeqOf(Chars, MaxLength), NEW tail \in SeqOf(Chars, MaxTail),
             set(str, tail)
      PROVE  NameInv'
  <2> DEFINE value == string_to_uint64_t(str \o tail)
  <2>1. str \in Seq(Chars) /\ tail \in Seq(Chars) /\ value \in Values
    BY <1>1
  <2>2. CASE Accepted(value, str)
    <3>1. Constructed(value, str)
      BY <1>2, <2>2 DEF set
    <3>2. str = to_string(value)
      BY <2>2 DEF Accepted
    <3> HIDE DEF value
    <3> QED BY <2>1, <3>1, <3>2, MakesName
  <2>3. CASE ~Accepted(value, str)
    <3>1. refused' = <<str, tail>> /\ names' = <<>>
      BY <1>2, <2>3 DEF set
    <3>2. refused'[1] = str /\ refused'[2] = tail
      BY <3>1
    <3>3. names' \in Seq([value : Values, text : Seq(Chars) \cup {Unknown}]) /\ DOMAIN names' = {}
      BY <3>1
    <3>4. ~Accepted(string_to_uint64_t(refused'[1] \o refused'[2]), refused'[1])
      BY <3>2, <2>3
    <3> QED BY <3>2, <3>3, <3>4, <2>1 DEF NameInv
  <2> QED BY <2>2, <2>3
<1>3. ASSUME NEW str \in SeqOf(Chars, MaxLength), NEW tail \in SeqOf(Chars, MaxTail),
             string_to_name(str, tail)
      PROVE  NameInv'
  BY <1>1, <1>3, MakesName DEF string_to_name
<1>4. ASSUME NEW v \in Values, from_number(v) PROVE NameInv'
  BY <1>4, MakesName DEF from_number
<1>5. CASE UNCHANGED vars
  BY <1>5 DEF NameInv, vars
<1> QED BY <1>2, <1>3, <1>4, <1>5 DEF Next, Values

(* There are no names at first. *)
LEMMA NameInvInit == Init => NameInv
BY DEF Init, NameInv

(* The invariant holds throughout. *)
LEMMA NameInvAlways == Spec => []NameInv
BY NameInvInit, NameInvStep, PTL DEF Spec

(* Every name is a number of the width: nothing that string_to_uint64_t      *)
(* encodes is shifted out, whatever it reads and however far.                *)
THEOREM NamesTyped == Spec => []TypeOK
<1>1. NameInv => TypeOK
  <2> SUFFICES ASSUME NameInv, NEW i \in DOMAIN names PROVE names[i].value \in Values
    BY DEF TypeOK, Values
  <2> QED BY InRange
<1> QED BY <1>1, NameInvAlways, PTL

(* to_string gives every number a text that set would accept, and that       *)
(* string_to_uint64_t encodes to the same number.                            *)
THEOREM NamesRoundTrip == Spec => []RoundTrip
<1>1. NameInv => RoundTrip
  <2> SUFFICES ASSUME NameInv, NEW i \in DOMAIN names
               PROVE  LET text == to_string(names[i].value) IN
                        /\ string_to_uint64_t(text) = names[i].value
                        /\ Accepted(names[i].value, text)
    BY DEF RoundTrip
  <2>1. names[i].value \in Values
    BY InRange
  <2>2. Len(to_string(names[i].value)) <= Slots + 1
    BY <2>1, TextFacts, RestFacts
  <2> QED BY <2>1, <2>2, TextRoundTrip DEF Accepted
<1> QED BY <1>1, NameInvAlways, PTL

(* The assertions of name::set refuse no proper name that a NUL follows.     *)
THEOREM ProperNamesAccepted == Spec => []SetComplete
<1>1. NameInv => SetComplete
  <2> SUFFICES ASSUME NameInv, refused # <<>>, refused[2] = <<>>, IsName(refused[1])
               PROVE  FALSE
    BY DEF SetComplete
  <2> DEFINE str == refused[1]
  <2>1. str \in Seq(Chars) /\ ~Accepted(string_to_uint64_t(str \o <<>>), str)
    BY DEF NameInv
  <2> HIDE DEF str
  <2>2. str \o <<>> = str
    BY <2>1
  <2>3. IsName(str)
    BY DEF str
  <2>4. to_string(string_to_uint64_t(str)) = str /\ Len(str) <= Slots + 1
    BY <2>1, <2>3, NameIsText DEF IsName
  <2> QED BY <2>1, <2>2, <2>4 DEF Accepted
<1> QED BY <1>1, NameInvAlways, PTL

(* Names that name::set accepted compare, as numbers, as their texts do.     *)
THEOREM NamesOrdered == Spec => []Ordered
<1>1. NameInv => Ordered
  <2> SUFFICES ASSUME NameInv, NEW i \in DOMAIN names, NEW j \in DOMAIN names,
                      names[i].text # Unknown, names[j].text # Unknown
               PROVE  /\ (names[i].value = names[j].value) <=> (names[i].text = names[j].text)
                      /\ (names[i].value < names[j].value)
                           <=> Precedes(names[i].text, names[j].text)
    BY DEF Ordered
  <2>1. names[i].value \in Values /\ names[j].value \in Values
    BY InRange
  <2>2. names[i].text = to_string(names[i].value) /\ names[j].text = to_string(names[j].value)
    BY DEF NameInv
  <2> QED BY <2>1, <2>2, OrderOfTexts
<1> QED BY <1>1, NameInvAlways, PTL
=============================================================================
