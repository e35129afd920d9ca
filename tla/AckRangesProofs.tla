--------------------------- MODULE AckRangesProofs ---------------------------
(***************************************************************************)
(* Proofs about ranges and the bit streams they go through, for bytes,     *)
(* sequence numbers and ints of any width, any capacity and any number of  *)
(* ranges.                                                                 *)
(*                                                                         *)
(* A loop of the code is a recursive function of the model.  To the        *)
(* provers it is a choice among the functions that satisfy its equation,   *)
(* so each needs a lemma that there is one; what the loop has done after   *)
(* some rounds is then shown by induction on a set of numbers.             *)
(***************************************************************************)
EXTENDS AckRanges, FiniteSetTheorems, SequenceTheorems, WellFoundedInduction, TLAPS

-----------------------------------------------------------------------------
(* Induction.                                                              *)

\* A set of natural numbers that is not empty has a least element: among the
\* intervals from zero to its elements one contains no other.
LEMMA LeastElement ==
  ASSUME NEW T \in SUBSET Nat, T # {}
  PROVE  \E x \in T : \A y \in T : x <= y
<1> DEFINE Upto == {0..x : x \in T}
<1>1. Upto # {} /\ Upto \subseteq FiniteSubsetsOf(Nat)
  <2>1. \A x \in T : 0..x \in SUBSET Nat /\ IsFiniteSet(0..x)
    BY FS_Interval
  <2> QED BY <2>1 DEF FiniteSubsetsOf
<1>2. PICK u \in Upto : \A v \in Upto : ~ (<<v, u>> \in StrictSubsetOrdering(Nat))
  <2> HIDE DEF Upto
  <2> QED BY <1>1, FS_StrictSubsetOrderingWellFounded, WFMin
<1>3. PICK x \in T : u = 0..x
  OBVIOUS
<1>4. ASSUME NEW y \in T PROVE x <= y
  <2>1. SUFFICES ASSUME y < x PROVE FALSE
    OBVIOUS
  <2>2. 0..y \subseteq 0..x /\ 0..x \subseteq Nat /\ x \in 0..x /\ x \notin 0..y
    BY <2>1
  <2>3. <<0..y, u>> \in StrictSubsetOrdering(Nat)
    BY <1>3, <2>2 DEF StrictSubsetOrdering
  <2> QED BY <1>2, <2>3
<1> QED BY <1>4

\* Induction up to a bound, with the property as the set of numbers that have it.
LEMMA InductUpto ==
  ASSUME NEW m \in Nat, NEW T, 0 \in T, \A i \in 0..(m - 1) : i \in T => i + 1 \in T
  PROVE  \A i \in 0..m : i \in T
<1> DEFINE Bad == {i \in 0..m : i \notin T}
<1>1. SUFFICES ASSUME Bad # {} PROVE FALSE
  OBVIOUS
<1>2. Bad \in SUBSET Nat
  OBVIOUS
<1>3. PICK x \in Bad : \A y \in Bad : x <= y
  <2> HIDE DEF Bad
  <2> QED BY <1>1, <1>2, LeastElement
<1>4. x \in 0..m /\ x # 0 /\ x \notin T
  OBVIOUS
<1>5. x - 1 \in 0..(m - 1) /\ x - 1 \in 0..m /\ (x - 1) + 1 = x
  BY <1>4
<1>6. x - 1 \in T
  BY <1>3, <1>5
<1> QED BY <1>4, <1>5, <1>6

\* Two functions that begin alike and go on alike are alike.
Alike(f, g, m) == f[0] = g[0] /\ \A i \in 1..m : f[i - 1] = g[i - 1] => f[i] = g[i]

LEMMA AgreeUpto ==
  ASSUME NEW m \in Nat, NEW f, NEW g, Alike(f, g, m)
  PROVE  \A i \in 0..m : f[i] = g[i]
<1> USE DEF Alike
<1> DEFINE T == {i \in 0..m : f[i] = g[i]}
<1>1. 0 \in T
  OBVIOUS
<1>2. ASSUME NEW i \in 0..(m - 1), i \in T PROVE i + 1 \in T
  <2>1. i + 1 \in 1..m /\ i + 1 \in 0..m /\ (i + 1) - 1 = i
    OBVIOUS
  <2> QED BY <1>2, <2>1
<1>3. \A i \in 0..m : i \in T
  <2> HIDE DEF T
  <2> QED BY <1>1, <1>2, InductUpto
<1> QED BY <1>3

-----------------------------------------------------------------------------
(* Division.  The names keep the provers from unfolding it.                *)

Quotient(a, b) == a \div b
Remainder(a, b) == a % b

LEMMA DivMod ==
  ASSUME NEW a \in Nat, NEW b \in Nat \ {0}
  PROVE  /\ Quotient(a, b) \in Nat
         /\ Remainder(a, b) \in 0..(b - 1)
         /\ a = b * Quotient(a, b) + Remainder(a, b)
<1>1. a \div b \in Nat
  OBVIOUS
<1>2. a % b \in 0..(b - 1)
  OBVIOUS
<1>3. a % b = a - b * (a \div b)
  OBVIOUS
<1>4. /\ Quotient(a, b) \in Nat
      /\ Remainder(a, b) \in 0..(b - 1)
      /\ Remainder(a, b) = a - b * Quotient(a, b)
  BY <1>1, <1>2, <1>3 DEF Quotient, Remainder
<1>5. b * Quotient(a, b) \in Nat
  BY <1>4
<1> QED BY <1>4, <1>5

LEMMA Monotone ==
  ASSUME NEW a \in Nat, NEW b \in Nat, NEW c \in Nat, a <= b
  PROVE  c * a <= c * b
OBVIOUS

LEMMA Cancel ==
  ASSUME NEW a \in Nat, NEW b \in Nat, NEW c \in Nat \ {0}, NEW r \in Nat,
         c * a + r < c * b
  PROVE  a < b
<1>1. SUFFICES ASSUME b <= a PROVE FALSE
  OBVIOUS
<1>2. c * b <= c * a
  BY <1>1, Monotone
<1>3. c * a \in Nat /\ c * b \in Nat
  OBVIOUS
<1> QED BY <1>2, <1>3

\* The next multiple is one more of the same.
LEMMA NextMultiple ==
  ASSUME NEW a \in Nat, NEW c \in Nat
  PROVE  c * (a + 1) = c * a + c /\ c * a \in Nat
OBVIOUS

LEMMA DivUnique ==
  ASSUME NEW b \in Nat \ {0}, NEW q \in Nat, NEW r \in 0..(b - 1)
  PROVE  Quotient(b * q + r, b) = q /\ Remainder(b * q + r, b) = r
<1> DEFINE a == b * q + r
           p == Quotient(a, b)
           s == Remainder(a, b)
<1>1. a \in Nat /\ b * q \in Nat
  OBVIOUS
<1> HIDE DEF a
<1>2. p \in Nat /\ s \in 0..(b - 1) /\ a = b * p + s
  BY <1>1, DivMod
<1> HIDE DEF p, s
<1>3. a = b * q + r
  BY DEF a
<1>4. b * (q + 1) = b * q + b /\ b * (p + 1) = b * p + b /\ b * p \in Nat
  BY <1>2, NextMultiple
<1>5. b * p + s < b * (q + 1) /\ b * q + r < b * (p + 1)
  BY <1>1, <1>2, <1>3, <1>4
<1>6. p < q + 1 /\ q < p + 1
  <2>1. q + 1 \in Nat /\ p + 1 \in Nat /\ s \in Nat /\ r \in Nat
    BY <1>2
  <2> QED BY <1>2, <1>5, <2>1, Cancel
<1>7. p = q
  BY <1>2, <1>6
<1>8. s = r
  BY <1>1, <1>2, <1>3, <1>7
<1> QED BY <1>7, <1>8 DEF a, p, s

-----------------------------------------------------------------------------
(* Powers of two.                                                          *)

IsPow2Upto(g, n) == g = [i \in 0..n |-> IF i = 0 THEN 1 ELSE 2 * g[i - 1]]

LEMMA Pow2Upto == \A n \in Nat : \E g : IsPow2Upto(g, n)
<1> SUFFICES ASSUME NEW n \in Nat PROVE \E g : IsPow2Upto(g, n)
  OBVIOUS
<1> DEFINE T == {m \in 0..n : \E g : IsPow2Upto(g, m)}
<1>1. 0 \in T
  <2>1. IsPow2Upto([i \in 0..0 |-> 1], 0)
    BY DEF IsPow2Upto
  <2> QED BY <2>1
<1>2. ASSUME NEW m \in 0..(n - 1), m \in T PROVE m + 1 \in T
  <2>1. PICK g : IsPow2Upto(g, m)
    BY <1>2
  <2> DEFINE h == [i \in 0..(m + 1) |-> IF i <= m THEN g[i] ELSE 2 * g[m]]
  <2>2. ASSUME NEW i \in 0..(m + 1) PROVE h[i] = IF i = 0 THEN 1 ELSE 2 * h[i - 1]
    <3>1. \A j \in 0..m : g[j] = IF j = 0 THEN 1 ELSE 2 * g[j - 1]
      BY <2>1 DEF IsPow2Upto
    <3>2. i = 0 \/ i - 1 \in 0..m
      OBVIOUS
    <3> QED BY <3>1, <3>2
  <2>3. IsPow2Upto(h, m + 1)
    BY <2>2 DEF IsPow2Upto
  <2> HIDE DEF h
  <2>4. m + 1 \in 0..n
    OBVIOUS
  <2> QED BY <2>3, <2>4
<1>3. \A m \in 0..n : m \in T
  <2> HIDE DEF T
  <2> QED BY <1>1, <1>2, InductUpto
<1> QED BY <1>3

LEMMA Pow2Def == Pow2 = [n \in Nat |-> IF n = 0 THEN 1 ELSE 2 * Pow2[n - 1]]
<1> DEFINE G(n) == CHOOSE g : IsPow2Upto(g, n)
           h == [n \in Nat |-> G(n)[n]]
<1>1. \A n \in Nat : IsPow2Upto(G(n), n)
  BY Pow2Upto
<1> HIDE DEF G
<1>2. ASSUME NEW n \in Nat, n # 0 PROVE G(n)[n] = 2 * G(n - 1)[n - 1]
  <2>1. n - 1 \in Nat
    BY <1>2
  <2>2. /\ \A i \in 0..n : G(n)[i] = IF i = 0 THEN 1 ELSE 2 * G(n)[i - 1]
        /\ \A i \in 0..(n - 1) : G(n - 1)[i] = IF i = 0 THEN 1 ELSE 2 * G(n - 1)[i - 1]
    BY <1>1, <2>1 DEF IsPow2Upto
  <2>3. \A i \in 0..(n - 1) : G(n)[i] = G(n - 1)[i]
    <3>1. \A i \in 1..(n - 1) : i \in 0..n /\ i \in 0..(n - 1) /\ i # 0
      OBVIOUS
    <3>2. \A i \in 1..(n - 1) : G(n)[i - 1] = G(n - 1)[i - 1] => G(n)[i] = G(n - 1)[i]
      BY <2>2, <3>1
    <3>3. G(n)[0] = G(n - 1)[0]
      BY <2>1, <2>2
    <3>4. Alike(G(n), G(n - 1), n - 1)
      BY <3>2, <3>3 DEF Alike
    <3> QED BY <2>1, <3>4, AgreeUpto
  <2> QED BY <1>2, <2>1, <2>2, <2>3
<1>3. G(0)[0] = 1
  BY <1>1 DEF IsPow2Upto
<1>4. h = [n \in Nat |-> IF n = 0 THEN 1 ELSE 2 * h[n - 1]]
  <2>1. \A n \in Nat : n # 0 => n - 1 \in Nat
    OBVIOUS
  <2>2. \A n \in Nat : h[n] = IF n = 0 THEN 1 ELSE 2 * h[n - 1]
    BY <1>2, <1>3, <2>1
  <2> QED BY <2>2
<1> HIDE DEF h
<1> QED BY <1>4 DEF Pow2

LEMMA Pow2Facts ==
  /\ Pow2[0] = 1
  /\ \A n \in Nat : Pow2[n] \in Nat \ {0} /\ Pow2[n + 1] = 2 * Pow2[n]
<1>1. \A n \in Nat : Pow2[n] = IF n = 0 THEN 1 ELSE 2 * Pow2[n - 1]
  BY Pow2Def
<1>2. Pow2[0] = 1
  BY <1>1
<1>3. \A n \in Nat : Pow2[n + 1] = 2 * Pow2[n]
  <2>1. \A n \in Nat : n + 1 \in Nat /\ n + 1 # 0 /\ (n + 1) - 1 = n
    OBVIOUS
  <2> QED BY <1>1, <2>1
<1>4. ASSUME NEW n \in Nat PROVE Pow2[n] \in Nat \ {0}
  <2> DEFINE T == {i \in 0..n : Pow2[i] \in Nat \ {0}}
  <2>1. 0 \in T
    BY <1>2
  <2>2. \A i \in 0..(n - 1) : i \in T => i + 1 \in T
    BY <1>3
  <2>3. \A i \in 0..n : i \in T
    <3> HIDE DEF T
    <3> QED BY <2>1, <2>2, InductUpto
  <2> QED BY <2>3
<1> QED BY <1>2, <1>3, <1>4

LEMMA Pow2Grows ==
  ASSUME NEW m \in Nat, NEW n \in Nat, m <= n
  PROVE  Pow2[m] <= Pow2[n]
<1> DEFINE T == {i \in 0..(n - m) : Pow2[m] <= Pow2[m + i]}
<1>1. 0 \in T
  BY Pow2Facts
<1>2. ASSUME NEW i \in 0..((n - m) - 1), i \in T PROVE i + 1 \in T
  <2>1. m + i \in Nat /\ m + (i + 1) = (m + i) + 1 /\ i + 1 \in 0..(n - m)
    OBVIOUS
  <2>2. Pow2[m + (i + 1)] = 2 * Pow2[m + i] /\ Pow2[m + i] \in Nat /\ Pow2[m] \in Nat
    BY <2>1, Pow2Facts
  <2>3. Pow2[m] <= Pow2[m + i]
    BY <1>2
  <2>4. Pow2[m] <= Pow2[m + (i + 1)]
    BY <2>2, <2>3
  <2> QED BY <2>1, <2>4
<1>3. n - m \in Nat
  OBVIOUS
<1>4. \A i \in 0..(n - m) : i \in T
  <2> HIDE DEF T
  <2> QED BY <1>1, <1>2, <1>3, InductUpto
<1>5. n - m \in 0..(n - m) /\ m + (n - m) = n
  OBVIOUS
<1> QED BY <1>4, <1>5

-----------------------------------------------------------------------------
(* A loop of n rounds, as a function of the rounds done.                   *)

IsLoop(f, n, S, a, round) ==
  f \in [0..n -> S] /\ f[0] = a /\ \A i \in 1..n : f[i] = round[i][f[i - 1]]

Rounds(n, S) == [1..n -> [S -> S]]

LEMMA LoopExists ==
  ASSUME NEW n \in Nat, NEW S, NEW a \in S, NEW round \in Rounds(n, S)
  PROVE  \E f : IsLoop(f, n, S, a, round)
<1> USE DEF Rounds
<1> DEFINE Upto(m) ==
      \E f \in [0..m -> S] : f[0] = a /\ \A i \in 1..m : f[i] = round[i][f[i - 1]]
           T == {m \in 0..n : Upto(m)}
<1>1. 0 \in T
  <2> DEFINE h == [i \in 0..0 |-> a]
  <2>1. h \in [0..0 -> S] /\ h[0] = a /\ \A i \in 1..0 : FALSE
    OBVIOUS
  <2> HIDE DEF h
  <2>2. Upto(0)
    BY <2>1
  <2> HIDE DEF Upto
  <2> QED BY <2>2
<1>2. ASSUME NEW m \in 0..(n - 1), m \in T PROVE m + 1 \in T
  <2>1. PICK f \in [0..m -> S] : f[0] = a /\ \A i \in 1..m : f[i] = round[i][f[i - 1]]
    BY <1>2
  <2> DEFINE h == [i \in 0..(m + 1) |-> IF i <= m THEN f[i] ELSE round[m + 1][f[m]]]
  <2>2. m + 1 \in 1..n /\ m \in 0..m /\ m + 1 \in 0..n
    OBVIOUS
  <2>3. round[m + 1][f[m]] \in S
    BY <2>2
  <2>4. h \in [0..(m + 1) -> S] /\ h[0] = a
    BY <2>1, <2>3
  <2>5. ASSUME NEW i \in 1..(m + 1) PROVE h[i] = round[i][h[i - 1]]
    <3>1. i - 1 \in 0..m /\ i - 1 \in 0..(m + 1) /\ i \in 0..(m + 1)
      OBVIOUS
    <3>2. h[i - 1] = f[i - 1]
      BY <3>1
    <3>3. CASE i <= m
      BY <2>1, <3>1, <3>2, <3>3
    <3>4. CASE i = m + 1
      BY <3>1, <3>2, <3>4
    <3> QED BY <3>3, <3>4
  <2> HIDE DEF h
  <2> QED BY <2>2, <2>4, <2>5
<1>3. \A m \in 0..n : m \in T
  <2> HIDE DEF T
  <2> QED BY <1>1, <1>2, InductUpto
<1>4. Upto(n)
  BY <1>3
<1> QED BY <1>4 DEF IsLoop

-----------------------------------------------------------------------------
(* Numbers and their bits.                                                 *)

LEMMA FromBitsDef ==
  ASSUME NEW bits \in Seq(Bit)
  PROVE  \E f \in [0..Len(bits) -> Nat] :
           /\ f[0] = 0
           /\ \A i \in 1..Len(bits) : f[i] = f[i - 1] + bits[i] * Pow2[i - 1]
           /\ FromBits(bits) = f[Len(bits)]
<1> DEFINE n == Len(bits)
           round == [i \in 1..n |-> [x \in Nat |-> x + bits[i] * Pow2[i - 1]]]
           sum[i \in 0..n] == IF i = 0 THEN 0 ELSE sum[i - 1] + bits[i] * Pow2[i - 1]
<1>1. n \in Nat
  OBVIOUS
<1>2. ASSUME NEW i \in 1..n, NEW x \in Nat PROVE x + bits[i] * Pow2[i - 1] \in Nat
  <2>1. bits[i] \in Bit /\ i - 1 \in Nat
    OBVIOUS
  <2>2. (bits[i] = 0 \/ bits[i] = 1) /\ Pow2[i - 1] \in Nat
    BY <2>1, Pow2Facts DEF Bit
  <2> QED BY <2>2
<1>3. round \in [1..n -> [Nat -> Nat]]
  BY <1>2
<1>4. \A i \in 1..n, x \in Nat : round[i][x] = x + bits[i] * Pow2[i - 1]
  OBVIOUS
<1> HIDE DEF round
<1>5. PICK f : IsLoop(f, n, Nat, 0, round)
  <2>1. 0 \in Nat /\ round \in Rounds(n, Nat)
    BY <1>3 DEF Rounds
  <2> HIDE DEF n
  <2> QED BY <1>1, <2>1, LoopExists
<1>6. \A i \in 1..n : f[i] = f[i - 1] + bits[i] * Pow2[i - 1]
  <2>1. \A i \in 1..n : i - 1 \in 0..n
    OBVIOUS
  <2> QED BY <1>4, <1>5, <2>1 DEF IsLoop
<1>7. f = [i \in 0..n |-> IF i = 0 THEN 0 ELSE f[i - 1] + bits[i] * Pow2[i - 1]]
  <2>1. \A i \in 0..n : i = 0 \/ i \in 1..n
    OBVIOUS
  <2>2. \A i \in 0..n : f[i] = IF i = 0 THEN 0 ELSE f[i - 1] + bits[i] * Pow2[i - 1]
    BY <1>5, <1>6, <2>1 DEF IsLoop
  <2> HIDE DEF n
  <2> QED BY <1>5, <2>2 DEF IsLoop
<1>8. sum = [i \in 0..n |-> IF i = 0 THEN 0 ELSE sum[i - 1] + bits[i] * Pow2[i - 1]]
  BY <1>7
<1>9. FromBits(bits) = sum[n]
  BY DEF FromBits
<1> HIDE DEF sum
<1>10. \A i \in 0..n : f[i] = sum[i]
  <2>1. f[0] = sum[0]
    BY <1>1, <1>5, <1>8 DEF IsLoop
  <2>2. \A i \in 1..n : sum[i] = sum[i - 1] + bits[i] * Pow2[i - 1]
    <3>1. \A i \in 1..n : i \in 0..n /\ i # 0
      OBVIOUS
    <3> HIDE DEF n
    <3> QED BY <1>8, <3>1
  <2>3. \A i \in 1..n : f[i - 1] = sum[i - 1] => f[i] = sum[i]
    BY <1>6, <2>2
  <2> HIDE DEF n
  <2>4. Alike(f, sum, n)
    BY <2>1, <2>3 DEF Alike
  <2> QED BY <1>1, <2>4, AgreeUpto
<1>11. n \in 0..n
  BY <1>1
<1> QED BY <1>5, <1>6, <1>9, <1>10, <1>11 DEF IsLoop

\* A number whose bits from the k-th on are zero is below the k-th power of two.
LEMMA FromBitsBelow ==
  ASSUME NEW bits \in Seq(Bit), NEW k \in Nat, \A i \in 1..Len(bits) : i > k => bits[i] = 0
  PROVE  FromBits(bits) \in Nat /\ FromBits(bits) < Pow2[k]
<1> DEFINE n == Len(bits)
<1>1. n \in Nat
  OBVIOUS
<1>2. PICK f \in [0..n -> Nat] :
        /\ f[0] = 0
        /\ \A i \in 1..n : f[i] = f[i - 1] + bits[i] * Pow2[i - 1]
        /\ FromBits(bits) = f[n]
  BY FromBitsDef
<1>3. \A i \in 1..n : bits[i] = 0 \/ bits[i] = 1
  BY DEF Bit
<1>4. \A i \in 1..n : i > k => bits[i] = 0
  OBVIOUS
<1> HIDE DEF n
<1> DEFINE Below(i) == f[i] < Pow2[k] /\ (i <= k => f[i] < Pow2[i])
           T == {i \in 0..n : Below(i)}
<1>5. 0 \in T
  <2>1. Pow2[0] = 1 /\ Pow2[k] \in Nat \ {0}
    BY Pow2Facts
  <2> QED BY <1>1, <1>2, <2>1
<1>6. ASSUME NEW i \in 0..(n - 1), i \in T PROVE i + 1 \in T
  <2>1. i + 1 \in 1..n /\ (i + 1) - 1 = i /\ i \in Nat /\ i \in 0..n /\ i + 1 \in 0..n
    BY <1>1
  <2>2. f[i + 1] = f[i] + bits[i + 1] * Pow2[i]
    BY <1>2, <2>1
  <2>3. f[i] \in Nat /\ Pow2[i] \in Nat /\ Pow2[i + 1] = 2 * Pow2[i] /\ Pow2[k] \in Nat
    BY <2>1, Pow2Facts
  <2>4. Below(i)
    BY <1>6
  <2>5. CASE i + 1 <= k
    <3>1. bits[i + 1] * Pow2[i] <= Pow2[i] /\ bits[i + 1] * Pow2[i] \in Nat
      BY <1>3, <2>1, <2>3
    <3>2. f[i + 1] < Pow2[i + 1]
      BY <2>1, <2>2, <2>3, <2>4, <2>5, <3>1
    <3>3. Pow2[i + 1] <= Pow2[k]
      BY <2>1, <2>5, Pow2Grows
    <3>4. f[i + 1] \in Nat /\ Pow2[i + 1] \in Nat
      BY <2>1, <2>3
    <3> QED BY <2>1, <2>3, <3>2, <3>3, <3>4
  <2>6. CASE i + 1 > k
    <3>1. bits[i + 1] = 0
      BY <1>4, <2>1, <2>6
    <3>2. f[i + 1] = f[i]
      BY <2>2, <2>3, <3>1
    <3> QED BY <2>1, <2>4, <2>6, <3>2
  <2> QED BY <2>1, <2>5, <2>6
<1>7. \A i \in 0..n : i \in T
  <2> HIDE DEF T
  <2> QED BY <1>1, <1>5, <1>6, InductUpto
<1>8. n \in 0..n
  BY <1>1
<1> QED BY <1>2, <1>7, <1>8

LEMMA ToBitsType ==
  ASSUME NEW v \in Nat, NEW width \in Nat
  PROVE  /\ ToBits(v, width) \in Seq(Bit)
         /\ Len(ToBits(v, width)) = width
         /\ \A i \in 1..width :
              ToBits(v, width)[i] = Remainder(Quotient(v, Pow2[i - 1]), 2)
<1> DEFINE bit == [i \in 1..width |-> Remainder(Quotient(v, Pow2[i - 1]), 2)]
<1>1. ASSUME NEW i \in 1..width
      PROVE  Remainder(Quotient(v, Pow2[i - 1]), 2) \in Bit
  <2>1. i - 1 \in Nat
    OBVIOUS
  <2>2. Pow2[i - 1] \in Nat \ {0}
    BY <2>1, Pow2Facts
  <2>3. Quotient(v, Pow2[i - 1]) \in Nat
    BY <2>2, DivMod
  <2> DEFINE q == Quotient(v, Pow2[i - 1])
  <2>4. Remainder(q, 2) \in 0..(2 - 1)
    <3>1. q \in Nat /\ 2 \in Nat \ {0}
      BY <2>3
    <3> HIDE DEF q
    <3> QED BY <3>1, DivMod
  <2> QED BY <2>4 DEF Bit
<1>2. ToBits(v, width) = bit
  BY DEF ToBits, Quotient, Remainder
<1>3. bit \in Seq(Bit) /\ Len(bit) = width
  BY <1>1
<1>4. \A i \in 1..width : bit[i] = Remainder(Quotient(v, Pow2[i - 1]), 2)
  OBVIOUS
<1> HIDE DEF bit
<1> QED BY <1>2, <1>3, <1>4

\* The bits of a number that fits give the number back.
LEMMA FromToBits ==
  ASSUME NEW v \in Nat, NEW width \in Nat, v < Pow2[width]
  PROVE  FromBits(ToBits(v, width)) = v
<1> DEFINE bits == ToBits(v, width)
<1>1. bits \in Seq(Bit) /\ Len(bits) = width
      /\ \A i \in 1..width : bits[i] = Remainder(Quotient(v, Pow2[i - 1]), 2)
  BY ToBitsType
<1> HIDE DEF bits
<1>2. PICK f \in [0..width -> Nat] :
        /\ f[0] = 0
        /\ \A i \in 1..width : f[i] = f[i - 1] + bits[i] * Pow2[i - 1]
        /\ FromBits(bits) = f[width]
  BY <1>1, FromBitsDef
<1> DEFINE T == {i \in 0..width : f[i] = Remainder(v, Pow2[i])}
<1>3. 0 \in T
  <2>1. Pow2[0] = 1 /\ Remainder(v, 1) \in 0..(1 - 1)
    BY Pow2Facts, DivMod
  <2> QED BY <1>2, <2>1
<1>4. ASSUME NEW i \in 0..(width - 1), i \in T PROVE i + 1 \in T
  <2> DEFINE p == Pow2[i]
             q == Quotient(v, p)
             r == Remainder(v, p)
             h == Quotient(q, 2)
             b == Remainder(q, 2)
  <2>1. i + 1 \in 1..width /\ (i + 1) - 1 = i /\ i \in Nat /\ i + 1 \in 0..width
    OBVIOUS
  <2>2. p \in Nat \ {0} /\ Pow2[i + 1] = 2 * p
    BY <2>1, Pow2Facts
  <2>3. f[i + 1] = r + b * p
    BY <1>1, <1>2, <1>4, <2>1
  <2> HIDE DEF p
  <2>4. q \in Nat /\ r \in 0..(p - 1) /\ v = p * q + r
    BY <2>2, DivMod
  <2> HIDE DEF q, r
  <2>5. h \in Nat /\ b \in 0..(2 - 1) /\ q = 2 * h + b
    <3>1. 2 \in Nat \ {0}
      OBVIOUS
    <3> QED BY <2>4, <3>1, DivMod
  <2> HIDE DEF h, b
  <2> DEFINE s == r + b * p
  <2>6. s \in 0..(2 * p - 1)
    <3>1. b = 0 \/ b = 1
      BY <2>5
    <3> QED BY <2>2, <2>4, <3>1
  <2>7. v = (2 * p) * h + s
    <3>1. p * q = p * (2 * h + b)
      BY <2>5
    <3>2. p * (2 * h + b) = (2 * p) * h + b * p
      BY <2>2, <2>5
    <3> QED BY <2>2, <2>4, <2>5, <3>1, <3>2
  <2>8. Remainder(v, 2 * p) = s
    <3>1. 2 * p \in Nat \ {0}
      BY <2>2
    <3> HIDE DEF s
    <3> QED BY <2>5, <2>6, <2>7, <3>1, DivUnique
  <2> QED BY <2>1, <2>2, <2>3, <2>8
<1>5. \A i \in 0..width : i \in T
  <2> HIDE DEF T
  <2> QED BY <1>3, <1>4, InductUpto
<1>6. FromBits(bits) = Remainder(v, Pow2[width])
  BY <1>2, <1>5
<1>7. Remainder(v, Pow2[width]) = v
  <2>1. Pow2[width] \in Nat \ {0}
    BY Pow2Facts
  <2>2. v = Pow2[width] * 0 + v /\ v \in 0..(Pow2[width] - 1)
    BY <2>1
  <2>3. 0 \in Nat
    OBVIOUS
  <2> QED BY <2>1, <2>2, <2>3, DivUnique
<1> QED BY <1>6, <1>7 DEF bits

\* The first bits of a number are its bits when it is taken with less of them.
LEMMA ToBitsPrefix ==
  ASSUME NEW v \in Nat, NEW width \in Nat, NEW wide \in Nat, width <= wide
  PROVE  \A i \in 1..width : ToBits(v, wide)[i] = ToBits(v, width)[i]
<1>1. \A i \in 1..width : i \in 1..wide
  OBVIOUS
<1> QED BY <1>1, ToBitsType

-----------------------------------------------------------------------------
(* Bytes and the places of their bits.                                     *)

\* As many bytes as hold the bits, and no more.
LEMMA BytesForFacts ==
  ASSUME NEW c \in Nat
  PROVE  /\ BytesFor(c) \in Nat
         /\ c <= ByteBits * BytesFor(c)
         /\ \A i \in 1..BytesFor(c) : ByteBits * (i - 1) < c
<1> DEFINE a == c + ByteBits - 1
           q == Quotient(a, ByteBits)
           r == Remainder(a, ByteBits)
<1>1. ByteBits \in Nat \ {0} /\ a \in Nat
  BY ByteAssumption
<1>2. BytesFor(c) = q
  BY DEF BytesFor, Quotient
<1> HIDE DEF a
<1>3. q \in Nat /\ r \in 0..(ByteBits - 1) /\ a = ByteBits * q + r
  BY <1>1, DivMod
<1> HIDE DEF q, r
<1>4. a = c + ByteBits - 1
  BY DEF a
<1>5. ByteBits * q \in Nat
  BY <1>1, <1>3
<1>6. c <= ByteBits * q
  BY <1>1, <1>3, <1>4, <1>5
<1>7. ASSUME NEW i \in 1..q PROVE ByteBits * (i - 1) < c
  <2>1. i - 1 \in Nat /\ q - 1 \in Nat /\ i - 1 <= q - 1 /\ (q - 1) + 1 = q
    BY <1>3
  <2>2. ByteBits * (i - 1) <= ByteBits * (q - 1)
    BY <1>1, <2>1, Monotone
  <2>3. ByteBits * q = ByteBits * (q - 1) + ByteBits
    BY <1>1, <2>1, NextMultiple
  <2>4. ByteBits * (i - 1) \in Nat /\ ByteBits * (q - 1) \in Nat
    BY <1>1, <2>1
  <2> QED BY <1>1, <1>3, <1>4, <1>5, <2>2, <2>3, <2>4
<1> QED BY <1>2, <1>3, <1>6, <1>7

LEMMA BytesForGrows ==
  ASSUME NEW c \in Nat, NEW d \in Nat, c <= d
  PROVE  BytesFor(c) <= BytesFor(d)
<1> DEFINE m == BytesFor(c)
           n == BytesFor(d)
<1>1. /\ m \in Nat /\ n \in Nat
      /\ d <= ByteBits * n
      /\ \A i \in 1..m : ByteBits * (i - 1) < c
  BY BytesForFacts
<1> HIDE DEF m, n
<1>2. SUFFICES ASSUME n < m PROVE FALSE
  BY <1>1 DEF m, n
<1>3. n + 1 \in 1..m /\ (n + 1) - 1 = n
  BY <1>1, <1>2
<1>4. ByteBits * n < c
  BY <1>1, <1>3
<1>5. ByteBits * n \in Nat
  BY <1>1, ByteAssumption
<1> QED BY <1>1, <1>4, <1>5

LEMMA BytesForZero == BytesFor(0) = 0
<1>1. 0 \in Nat
  OBVIOUS
<1>2. BytesFor(0) \in Nat /\ \A i \in 1..BytesFor(0) : ByteBits * (i - 1) < 0
  BY <1>1, BytesForFacts
<1>3. ByteBits * 0 = 0
  BY ByteAssumption
<1>4. SUFFICES ASSUME BytesFor(0) >= 1 PROVE FALSE
  BY <1>2
<1>5. 1 \in 1..BytesFor(0) /\ 1 - 1 = 0
  BY <1>2, <1>4
<1> QED BY <1>2, <1>3, <1>5

\* The place of a bit counted from the beginning.
Place(q, r) == ByteBits * (q - 1) + r

LEMMA PlaceFacts ==
  ASSUME NEW q \in Nat \ {0}, NEW r \in 0..(ByteBits - 1)
  PROVE  /\ Place(q, r) \in Nat
         /\ Place(q, r) = Place(q, 0) + r
         /\ Place(q, 0) \in Nat
         /\ Place(q + 1, 0) = Place(q, 0) + ByteBits
         /\ Quotient(Place(q, r), ByteBits) = q - 1
         /\ Remainder(Place(q, r), ByteBits) = r
<1>1. ByteBits \in Nat \ {0} /\ q - 1 \in Nat /\ (q - 1) + 1 = q /\ (q + 1) - 1 = q
  BY ByteAssumption
<1>2. ByteBits * q = ByteBits * (q - 1) + ByteBits /\ ByteBits * (q - 1) \in Nat
  BY <1>1, NextMultiple
<1>3. /\ Quotient(ByteBits * (q - 1) + r, ByteBits) = q - 1
      /\ Remainder(ByteBits * (q - 1) + r, ByteBits) = r
  <2> DEFINE p == q - 1
  <2>1. p \in Nat
    BY <1>1
  <2> HIDE DEF p
  <2>2. Quotient(ByteBits * p + r, ByteBits) = p /\ Remainder(ByteBits * p + r, ByteBits) = r
    BY <1>1, <2>1, DivUnique
  <2> QED BY <2>2 DEF p
<1> QED BY <1>1, <1>2, <1>3 DEF Place

\* Places grow with the byte.
LEMMA PlaceOrder ==
  ASSUME NEW q \in Nat \ {0}, NEW p \in Nat \ {0}, NEW r \in 0..(ByteBits - 1), q < p
  PROVE  Place(q, r) < Place(p, 0)
<1>1. ByteBits \in Nat \ {0} /\ q - 1 \in Nat /\ p - 1 \in Nat /\ q \in Nat /\ q <= p - 1
      /\ (q - 1) + 1 = q
  BY ByteAssumption
<1>2. ByteBits * q <= ByteBits * (p - 1)
  BY <1>1, Monotone
<1>3. ByteBits * q = ByteBits * (q - 1) + ByteBits /\ ByteBits * (q - 1) \in Nat
      /\ ByteBits * (p - 1) \in Nat
  BY <1>1, NextMultiple
<1> QED BY <1>1, <1>2, <1>3 DEF Place

\* Every place has its byte and its bit; it is in the buffer when the buffer is
\* long enough.
IsPlaceOf(place, q, r) ==
  /\ place = Place(q, r)
  /\ q = (place \div ByteBits) + 1
  /\ r = place % ByteBits
  /\ \A n \in Nat : place < ByteBits * n => q <= n

LEMMA PlaceOf ==
  ASSUME NEW place \in Nat
  PROVE  \E q \in Nat \ {0}, r \in 0..(ByteBits - 1) : IsPlaceOf(place, q, r)
<1> DEFINE d == Quotient(place, ByteBits)
           r == Remainder(place, ByteBits)
           q == d + 1
<1>1. ByteBits \in Nat \ {0}
  BY ByteAssumption
<1>2. d \in Nat /\ r \in 0..(ByteBits - 1) /\ place = ByteBits * d + r
  BY <1>1, DivMod
<1>3. q = (place \div ByteBits) + 1 /\ r = place % ByteBits
  BY DEF Quotient, Remainder
<1> HIDE DEF d, r
<1>4. q \in Nat \ {0} /\ q - 1 = d
  BY <1>2
<1>5. place = Place(q, r)
  BY <1>2, <1>4 DEF Place
<1>6. ASSUME NEW n \in Nat, place < ByteBits * n PROVE q <= n
  <2>1. d < n
    <3>1. r \in Nat /\ ByteBits * d + r < ByteBits * n
      BY <1>2, <1>6
    <3> QED BY <1>1, <1>2, <3>1, Cancel
  <2> QED BY <1>2, <2>1
<1> HIDE DEF q
<1>7. IsPlaceOf(place, q, r)
  BY <1>3, <1>5, <1>6 DEF IsPlaceOf
<1> QED BY <1>2, <1>4, <1>7

-----------------------------------------------------------------------------
(* What an output stream holds.                                            *)

\* What stands at a place of a stream that holds the bits.
At(bits, place) == IF place < Len(bits) THEN bits[place + 1] ELSE 0

Cells(buffer, bits) ==
  \A q \in 1..Len(buffer), r \in 0..(ByteBits - 1) : buffer[q][r] = At(bits, Place(q, r))

Holds(stream, bits) ==
  /\ stream.head = Len(bits)
  /\ stream.head <= stream.capacity
  /\ Len(stream.buffer) = BytesFor(stream.capacity)
  /\ Cells(stream.buffer, bits)

LEMMA ZerosType ==
  ASSUME NEW n \in Nat
  PROVE  /\ Zeros(n) \in Seq(Byte)
         /\ Len(Zeros(n)) = n
         /\ \A q \in 1..n, r \in 0..(ByteBits - 1) : Zeros(n)[q][r] = 0
<1> DEFINE zero == [j \in 0..(ByteBits - 1) |-> 0]
<1>1. zero \in Byte
  BY DEF Byte, Bit
<1>2. \A r \in 0..(ByteBits - 1) : zero[r] = 0
  OBVIOUS
<1>3. Zeros(n) = [i \in 1..n |-> zero]
  BY DEF Zeros
<1> HIDE DEF zero
<1> QED BY <1>1, <1>2, <1>3

LEMMA StreamFields ==
  ASSUME NEW s \in Stream
  PROVE  s.head \in Nat /\ s.capacity \in Nat /\ s.buffer \in Seq(Byte) /\ Len(s.buffer) \in Nat
BY DEF Stream

LEMMA NewOutputHolds ==
  ASSUME NEW capacity \in Nat
  PROVE  NewOutput(capacity) \in Stream /\ Holds(NewOutput(capacity), << >>)
<1>1. BytesFor(capacity) \in Nat
  BY BytesForFacts
<1> DEFINE zeros == Zeros(BytesFor(capacity))
<1>2. /\ zeros \in Seq(Byte)
      /\ Len(zeros) = BytesFor(capacity)
      /\ \A q \in 1..BytesFor(capacity), r \in 0..(ByteBits - 1) : zeros[q][r] = 0
  BY <1>1, ZerosType
<1>3. NewOutput(capacity) = [head |-> 0, capacity |-> capacity, buffer |-> zeros]
  BY DEF NewOutput
<1> HIDE DEF zeros
<1>4. Cells(zeros, << >>)
  <2>1. SUFFICES ASSUME NEW q \in 1..Len(zeros), NEW r \in 0..(ByteBits - 1)
                 PROVE  zeros[q][r] = At(<< >>, Place(q, r))
    BY DEF Cells
  <2>2. q \in Nat \ {0}
    BY <1>1, <1>2
  <2>3. Place(q, r) \in Nat
    BY <2>2, PlaceFacts
  <2> QED BY <1>2, <2>1, <2>3 DEF At
<1> QED BY <1>2, <1>3, <1>4 DEF Stream, Holds

LEMMA RoomHolds ==
  ASSUME NEW s \in Stream, NEW bits \in Seq(Bit), Holds(s, bits), NEW n \in Nat
  PROVE  /\ Room(s, n) \in Stream
         /\ Holds(Room(s, n), bits)
         /\ s.head + n <= Room(s, n).capacity
<1> DEFINE c == Greatest(2 * s.capacity, s.head + n)
           more == BytesFor(c) - Len(s.buffer)
           buffer == s.buffer \o Zeros(more)
<1>1. s.head \in Nat /\ s.capacity \in Nat /\ s.buffer \in Seq(Byte) /\ Len(s.buffer) \in Nat
  BY StreamFields
<1>2. CASE s.head + n > s.capacity
  <2>1. c \in Nat /\ s.capacity <= c /\ s.head + n <= c
    BY <1>1, <1>2 DEF Greatest
  <2>2. Room(s, n) = [s EXCEPT !.capacity = c, !.buffer = buffer]
    BY <1>2 DEF Room, Realloc
  <2> HIDE DEF c
  <2>3. more \in Nat
    <3>1. BytesFor(s.capacity) <= BytesFor(c) /\ BytesFor(c) \in Nat
      BY <1>1, <2>1, BytesForGrows, BytesForFacts
    <3>2. Len(s.buffer) = BytesFor(s.capacity)
      BY DEF Holds
    <3> QED BY <1>1, <3>1, <3>2
  <2>4. BytesFor(c) = Len(s.buffer) + more /\ BytesFor(c) \in Nat
    <3>1. BytesFor(c) \in Nat
      BY <2>1, BytesForFacts
    <3> QED BY <1>1, <3>1
  <2> HIDE DEF more
  <2>5. /\ Zeros(more) \in Seq(Byte)
        /\ Len(Zeros(more)) = more
        /\ \A q \in 1..more, r \in 0..(ByteBits - 1) : Zeros(more)[q][r] = 0
    BY <2>3, ZerosType
  <2>6. /\ buffer \in Seq(Byte)
        /\ Len(buffer) = BytesFor(c)
        /\ \A q \in 1..Len(buffer) :
             buffer[q] = IF q <= Len(s.buffer) THEN s.buffer[q] ELSE Zeros(more)[q - Len(s.buffer)]
    <3> DEFINE zeros == Zeros(more)
               old == s.buffer
    <3>1. /\ buffer \in Seq(Byte)
          /\ Len(buffer) = Len(old) + Len(zeros)
          /\ \A q \in 1..(Len(old) + Len(zeros)) :
               buffer[q] = IF q <= Len(old) THEN old[q] ELSE zeros[q - Len(old)]
      <4>1. zeros \in Seq(Byte) /\ old \in Seq(Byte)
        BY <1>1, <2>5
      <4>2. buffer = old \o zeros
        OBVIOUS
      <4> HIDE DEF zeros, old, buffer
      <4> QED BY <4>1, <4>2, ConcatProperties
    <3> HIDE DEF buffer
    <3> QED BY <1>1, <2>4, <2>5, <3>1
  <2> HIDE DEF buffer
  <2>7. Cells(buffer, bits)
    <3>1. SUFFICES ASSUME NEW q \in 1..Len(buffer), NEW r \in 0..(ByteBits - 1)
                   PROVE  buffer[q][r] = At(bits, Place(q, r))
      BY DEF Cells
    <3>2. CASE q <= Len(s.buffer)
      <4>1. q \in 1..Len(s.buffer) /\ buffer[q] = s.buffer[q]
        BY <1>1, <2>6, <3>2
      <4>2. s.buffer[q][r] = At(bits, Place(q, r))
        BY <4>1 DEF Holds, Cells
      <4> QED BY <4>1, <4>2
    <3>3. CASE q > Len(s.buffer)
      <4>1. q - Len(s.buffer) \in 1..more /\ q \in Nat \ {0}
        BY <1>1, <2>3, <2>4, <2>6, <3>3
      <4>2. buffer[q][r] = 0
        BY <1>1, <2>5, <2>6, <3>3, <4>1
      <4>3. Place(q, r) >= Len(bits)
        <5> DEFINE m == Len(s.buffer)
        <5>1. Len(bits) <= ByteBits * m
          <6>1. Len(bits) <= s.capacity /\ m = BytesFor(s.capacity)
            BY <1>1 DEF Holds
          <6>2. s.capacity <= ByteBits * BytesFor(s.capacity)
            BY <1>1, BytesForFacts
          <6>3. ByteBits * m \in Nat /\ Len(bits) \in Nat
            BY <1>1, ByteAssumption
          <6> QED BY <1>1, <6>1, <6>2, <6>3
        <5>2. ByteBits * m <= ByteBits * (q - 1)
          <6>1. q - 1 \in Nat /\ m \in Nat /\ m <= q - 1 /\ ByteBits \in Nat
            BY <1>1, <3>3, <4>1, ByteAssumption
          <6> HIDE DEF m
          <6> QED BY <6>1, Monotone
        <5>3. ByteBits * m \in Nat /\ ByteBits * (q - 1) \in Nat /\ Len(bits) \in Nat
          BY <1>1, <4>1, ByteAssumption
        <5> HIDE DEF m
        <5> QED BY <5>1, <5>2, <5>3 DEF Place
      <4>4. At(bits, Place(q, r)) = 0
        <5>1. Place(q, r) \in Nat /\ Len(bits) \in Nat
          BY <4>1, PlaceFacts
        <5> QED BY <4>3, <5>1 DEF At
      <4> QED BY <4>2, <4>4
    <3> QED BY <1>1, <2>6, <3>2, <3>3
  <2>8. /\ Room(s, n).head = s.head /\ Room(s, n).capacity = c /\ Room(s, n).buffer = buffer
        /\ Room(s, n) \in Stream
    BY <1>1, <2>1, <2>2, <2>6 DEF Stream
  <2>9. s.head = Len(bits) /\ s.head <= c
    <3>1. s.head = Len(bits) /\ s.head <= s.capacity
      BY DEF Holds
    <3> QED BY <1>1, <2>1, <3>1
  <2> QED BY <2>1, <2>6, <2>7, <2>8, <2>9 DEF Holds
<1>3. CASE ~ (s.head + n > s.capacity)
  <2>1. Room(s, n) = s
    BY <1>3 DEF Room
  <2> QED BY <1>1, <1>3, <2>1
<1> QED BY <1>2, <1>3

LEMMA OverwriteFacts ==
  ASSUME NEW byte \in Byte, NEW place \in Nat, NEW b \in Seq(Bit)
  PROVE  /\ Overwrite(byte, place, b) \in Byte
         /\ \A j \in 0..(ByteBits - 1) :
              Overwrite(byte, place, b)[j] =
                IF place <= j /\ j < place + Len(b) THEN b[j - place + 1] ELSE byte[j]
<1> DEFINE over == [j \in 0..(ByteBits - 1) |->
                      IF j \in place..(place + Len(b) - 1) THEN b[j - place + 1] ELSE byte[j]]
<1>1. Overwrite(byte, place, b) = over
  BY DEF Overwrite
<1>2. ASSUME NEW j \in 0..(ByteBits - 1), j \in place..(place + Len(b) - 1)
      PROVE  j - place + 1 \in 1..Len(b)
  BY <1>2, ByteAssumption
<1>3. over \in Byte
  BY <1>2 DEF Byte
<1>4. \A j \in 0..(ByteBits - 1) :
        (place <= j /\ j < place + Len(b)) <=> j \in place..(place + Len(b) - 1)
  BY ByteAssumption
<1>5. \A j \in 0..(ByteBits - 1) :
        over[j] = IF place <= j /\ j < place + Len(b) THEN b[j - place + 1] ELSE byte[j]
  BY <1>4
<1> HIDE DEF over
<1> QED BY <1>1, <1>3, <1>5

\* Bits written into one byte of a buffer.
InByte(buffer, o, place, b) == [buffer EXCEPT ![o] = Overwrite(@, place, b)]

WrittenInByte(buffer, old, o, place, b) ==
  /\ buffer \in Seq(Byte)
  /\ Len(buffer) = Len(old)
  /\ \A q \in 1..Len(old), r \in 0..(ByteBits - 1) :
       buffer[q][r] = IF q = o /\ place <= r /\ r < place + Len(b)
                        THEN b[r - place + 1] ELSE old[q][r]

LEMMA ByteCells ==
  ASSUME NEW buffer \in Seq(Byte), NEW o \in 1..Len(buffer), NEW place \in Nat, NEW b \in Seq(Bit)
  PROVE  WrittenInByte(InByte(buffer, o, place, b), buffer, o, place, b)
<1> DEFINE byte == buffer[o]
           over == Overwrite(byte, place, b)
           new == InByte(buffer, o, place, b)
<1>1. byte \in Byte
  OBVIOUS
<1>2. new = [buffer EXCEPT ![o] = over]
  BY DEF InByte
<1> HIDE DEF new
<1>3. /\ over \in Byte
      /\ \A j \in 0..(ByteBits - 1) :
           over[j] = IF place <= j /\ j < place + Len(b) THEN b[j - place + 1] ELSE byte[j]
  <2> HIDE DEF byte
  <2> QED BY <1>1, OverwriteFacts
<1> HIDE DEF over
<1>4. /\ new \in Seq(Byte) /\ Len(new) = Len(buffer)
      /\ \A q \in 1..Len(buffer) : new[q] = IF q = o THEN over ELSE buffer[q]
  BY <1>2, <1>3, ExceptSeq
<1>5. \A q \in 1..Len(buffer), r \in 0..(ByteBits - 1) :
        new[q][r] = IF q = o /\ place <= r /\ r < place + Len(b)
                      THEN b[r - place + 1] ELSE buffer[q][r]
  BY <1>3, <1>4
<1> QED BY <1>4, <1>5 DEF new, WrittenInByte

\* The bits of a byte, the first of them in the byte of the head and the others,
\* if any, in the next.
InBytes(buffer, o, place, b, this) ==
  LET first == InByte(buffer, o, place, SubSeq(b, 1, this)) IN
  IF this = Len(b) THEN first
  ELSE InByte(first, o + 1, 0, SubSeq(b, this + 1, Len(b)))

\* What WriteByte leaves: the bits at the head and what was there elsewhere.
Written(buffer, old, head, b) ==
  \A q \in 1..Len(old), r \in 0..(ByteBits - 1) :
    buffer[q][r] = IF head <= Place(q, r) /\ Place(q, r) < head + Len(b)
                     THEN b[Place(q, r) - head + 1] ELSE old[q][r]

\* How many of the bits go into the byte of the head.
LEMMA ThisFacts ==
  ASSUME NEW L \in 1..ByteBits, NEW place \in 0..(ByteBits - 1)
  PROVE  /\ Least(L, ByteBits - place) \in 1..L
         /\ Least(L, ByteBits - place) <= ByteBits - place
         /\ Least(L, ByteBits - place) = L \/ Least(L, ByteBits - place) = ByteBits - place
<1>1. ByteBits \in Nat \ {0}
  BY ByteAssumption
<1> QED BY <1>1 DEF Least

\* The buffer is long enough for the bits.
Fits(buffer, head, b) == head + Len(b) <= ByteBits * Len(buffer)

\* Where a bit is that is written at a place of one byte: before that byte, in
\* it, in the next, or behind that.
LEMMA WhereWritten ==
  ASSUME NEW B \in Nat \ {0}, NEW place \in 0..(B - 1), NEW L \in 1..B, NEW this \in 1..L,
         this <= B - place, this = L \/ this = B - place,
         NEW r \in 0..(B - 1), NEW start \in Nat, NEW head, head = start + place, NEW at \in Nat
  PROVE  /\ at < start => ~ (head <= at)
         /\ at = start + r =>
              /\ head <= at <=> place <= r
              /\ at < head + L <=> r < place + this
              /\ at - head + 1 = r - place + 1
         /\ at = start + B + r =>
              /\ head <= at
              /\ at < head + L <=> r < L - this
              /\ r < L - this => at - head + 1 = this + r + 1
         /\ start + B + B <= at => ~ (at < head + L)
<1>1. at < start => ~ (head <= at)
  OBVIOUS
<1>2. ASSUME at = start + r
      PROVE  /\ head <= at <=> place <= r
             /\ at < head + L <=> r < place + this
             /\ at - head + 1 = r - place + 1
  BY <1>2
<1>3. ASSUME at = start + B + r
      PROVE  /\ head <= at
             /\ at < head + L <=> r < L - this
             /\ r < L - this => at - head + 1 = this + r + 1
  BY <1>3
<1>4. start + B + B <= at => ~ (at < head + L)
  OBVIOUS
<1> QED BY <1>1, <1>2, <1>3, <1>4

\* The bits that fit go into the byte o, the others into the next; together they
\* stand from the head on.
FirstPart(first, buffer, b, M, o, place, this) ==
  \A q \in 1..M, r \in 0..(ByteBits - 1) :
    first[q][r] = IF q = o /\ place <= r /\ r < place + this
                    THEN b[r - place + 1] ELSE buffer[q][r]

SecondPart(new, first, b, M, o, L, this) ==
  \A q \in 1..M, r \in 0..(ByteBits - 1) :
    new[q][r] = IF q = o + 1 /\ r < L - this THEN b[this + r + 1] ELSE first[q][r]

BothParts(new, buffer, b, M, head, L) ==
  \A q \in 1..M, r \in 0..(ByteBits - 1) :
    new[q][r] = IF head <= Place(q, r) /\ Place(q, r) < head + L
                  THEN b[Place(q, r) - head + 1] ELSE buffer[q][r]

LEMMA JoinedCells ==
  ASSUME NEW buffer, NEW first, NEW new, NEW b, NEW M \in Nat, NEW o \in Nat \ {0},
         NEW place \in 0..(ByteBits - 1), NEW L \in 1..ByteBits, NEW this \in 1..L,
         this <= ByteBits - place, this = L \/ this = ByteBits - place,
         NEW head, head = Place(o, 0) + place,
         FirstPart(first, buffer, b, M, o, place, this), SecondPart(new, first, b, M, o, L, this)
  PROVE  BothParts(new, buffer, b, M, head, L)
<1> SUFFICES ASSUME NEW q \in 1..M, NEW r \in 0..(ByteBits - 1)
             PROVE  new[q][r] = IF head <= Place(q, r) /\ Place(q, r) < head + L
                                  THEN b[Place(q, r) - head + 1] ELSE buffer[q][r]
  BY DEF BothParts
<1>0. /\ first[q][r] = IF q = o /\ place <= r /\ r < place + this
                          THEN b[r - place + 1] ELSE buffer[q][r]
      /\ new[q][r] = IF q = o + 1 /\ r < L - this THEN b[this + r + 1] ELSE first[q][r]
  BY DEF FirstPart, SecondPart
<1> DEFINE start == Place(o, 0)
           at == Place(q, r)
<1>1. /\ ByteBits \in Nat \ {0} /\ q \in Nat \ {0} /\ r \in Nat
      /\ Place(q, 0) \in Nat /\ at = Place(q, 0) + r /\ at \in Nat
      /\ start \in Nat /\ head = start + place /\ Place(o + 1, 0) = start + ByteBits
  <2>1. q \in Nat \ {0} /\ r \in Nat /\ ByteBits \in Nat \ {0} /\ 0 \in 0..(ByteBits - 1)
    BY ByteAssumption
  <2>2. Place(q, 0) \in Nat /\ Place(q, r) = Place(q, 0) + r /\ Place(q, r) \in Nat
    BY <2>1, PlaceFacts
  <2>3. Place(o, 0) \in Nat /\ Place(o + 1, 0) = Place(o, 0) + ByteBits
    BY <2>1, PlaceFacts
  <2> QED BY <2>1, <2>2, <2>3
<1>2. /\ at < start => ~ (head <= at)
      /\ at = start + r =>
           /\ head <= at <=> place <= r
           /\ at < head + L <=> r < place + this
           /\ at - head + 1 = r - place + 1
      /\ at = start + ByteBits + r =>
           /\ head <= at
           /\ at < head + L <=> r < L - this
           /\ r < L - this => at - head + 1 = this + r + 1
      /\ start + ByteBits + ByteBits <= at => ~ (at < head + L)
  <2> HIDE DEF start, at
  <2> QED BY <1>1, WhereWritten
<1>3. CASE q < o
  <2>1. at < start
    BY <1>1, <1>3, PlaceOrder
  <2>2. q # o /\ q # o + 1
    BY <1>1, <1>3
  <2> HIDE DEF start, at
  <2> QED BY <1>0, <1>2, <2>1, <2>2 DEF at
<1>4. CASE q = o
  <2>1. q # o + 1 /\ at = start + r
    BY <1>1, <1>4
  <2> HIDE DEF start, at
  <2>2. new[q][r] = IF place <= r /\ r < place + this THEN b[r - place + 1] ELSE buffer[q][r]
    BY <1>0, <1>4, <2>1
  <2>3. new[q][r] = IF head <= at /\ at < head + L THEN b[at - head + 1] ELSE buffer[q][r]
    BY <1>2, <2>1, <2>2
  <2> QED BY <2>3 DEF at
<1>5. CASE q = o + 1
  <2>1. q # o /\ at = start + ByteBits + r
    BY <1>1, <1>5
  <2> HIDE DEF start, at
  <2>2. new[q][r] = IF r < L - this THEN b[this + r + 1] ELSE buffer[q][r]
    BY <1>0, <1>5, <2>1
  <2>3. new[q][r] = IF head <= at /\ at < head + L THEN b[at - head + 1] ELSE buffer[q][r]
    BY <1>2, <2>1, <2>2
  <2> QED BY <2>3 DEF at
<1>6. CASE q > o + 1
  <2> DEFINE p == o + 1
             n == p + 1
  <2>1. /\ p \in Nat \ {0} /\ n \in Nat \ {0} /\ (n = q \/ n < q)
        /\ Place(p, 0) = start + ByteBits
    BY <1>1, <1>6
  <2> HIDE DEF p, start, at
  <2>2. Place(n, 0) = start + ByteBits + ByteBits
    BY <1>1, <2>1, PlaceFacts
  <2> HIDE DEF n
  <2>3. Place(n, 0) <= Place(q, 0)
    <3>1. Place(n, 0) \in Nat /\ 0 \in 0..(ByteBits - 1)
      BY <1>1, <2>2
    <3>2. CASE n < q
      <4>1. Place(n, 0) < Place(q, 0)
        BY <1>1, <2>1, <3>1, <3>2, PlaceOrder
      <4> QED BY <1>1, <3>1, <4>1
    <3> QED BY <1>1, <2>1, <3>1, <3>2
  <2>4. start + ByteBits + ByteBits <= at
    BY <1>1, <2>2, <2>3
  <2>5. q # o /\ q # o + 1
    BY <1>1, <1>6
  <2> QED BY <1>0, <1>2, <2>4, <2>5 DEF at
<1> QED BY <1>1, <1>3, <1>4, <1>5, <1>6

LEMMA WriteCells ==
  ASSUME NEW buffer \in Seq(Byte), NEW b \in Seq(Bit), Len(b) \in 1..ByteBits,
         NEW o \in Nat \ {0}, NEW place \in 0..(ByteBits - 1),
         Fits(buffer, Place(o, place), b)
  PROVE  LET new == InBytes(buffer, o, place, b, Least(Len(b), ByteBits - place)) IN
         /\ new \in Seq(Byte)
         /\ Len(new) = Len(buffer)
         /\ Written(new, buffer, Place(o, place), b)
<1> DEFINE L == Len(b)
           M == Len(buffer)
           head == Place(o, place)
           this == Least(L, ByteBits - place)
           part == SubSeq(b, 1, this)
           rest == SubSeq(b, this + 1, L)
           first == InByte(buffer, o, place, part)
           new == InBytes(buffer, o, place, b, this)
<1>1. ByteBits \in Nat \ {0} /\ M \in Nat /\ L \in 1..ByteBits /\ 0 \in 0..(ByteBits - 1)
  BY ByteAssumption
<1>2. new = IF this = L THEN first ELSE InByte(first, o + 1, 0, rest)
  BY DEF InBytes
<1> HIDE DEF new
<1>3. /\ this \in 1..L
      /\ this <= ByteBits - place
      /\ this = L \/ this = ByteBits - place
  <2> HIDE DEF L
  <2> QED BY <1>1, ThisFacts
<1> HIDE DEF this
<1>4. /\ Place(o, 0) \in Nat /\ head = Place(o, 0) + place /\ head \in Nat
      /\ Place(o + 1, 0) = Place(o, 0) + ByteBits
  BY PlaceFacts
<1> HIDE DEF head
<1>5. /\ part \in Seq(Bit) /\ Len(part) = this
      /\ \A i \in 1..this : part[i] = b[i]
  <2>1. \A i \in 1..this : b[i] \in Bit
    BY <1>1, <1>3
  <2>2. 1 \in Int /\ this \in Int
    BY <1>1, <1>3
  <2> HIDE DEF L
  <2>3. /\ SubSeq(b, 1, this) \in Seq(Bit)
        /\ Len(SubSeq(b, 1, this)) = IF 1 <= this THEN this - 1 + 1 ELSE 0
        /\ \A i \in 1..(this - 1 + 1) : SubSeq(b, 1, this)[i] = b[1 + i - 1]
    BY <2>1, <2>2, SubSeqProperties
  <2> QED BY <1>1, <1>3, <2>3
<1>6. /\ rest \in Seq(Bit) /\ Len(rest) = L - this
      /\ \A i \in 1..(L - this) : rest[i] = b[this + i]
  <2> DEFINE m == this + 1
  <2>1. m \in Int /\ L \in Int /\ m = this + 1
    BY <1>1, <1>3
  <2>2. \A i \in m..L : b[i] \in Bit
    BY <1>1, <1>3
  <2> HIDE DEF m, L
  <2>3. /\ SubSeq(b, m, L) \in Seq(Bit)
        /\ Len(SubSeq(b, m, L)) = IF m <= L THEN L - m + 1 ELSE 0
        /\ \A i \in 1..(L - m + 1) : SubSeq(b, m, L)[i] = b[m + i - 1]
    BY <2>1, <2>2, SubSeqProperties
  <2>4. rest = SubSeq(b, m, L)
    BY <2>1
  <2> HIDE DEF rest
  <2>5. \A i \in 1..(L - this) : i \in 1..(L - m + 1) /\ m + i - 1 = this + i
    BY <1>1, <1>3, <2>1
  <2>6. Len(rest) = L - this
    BY <1>1, <1>3, <2>1, <2>3, <2>4
  <2> QED BY <2>3, <2>4, <2>5, <2>6
<1> HIDE DEF part, rest
<1>7. o \in 1..M
  <2>1. o - 1 < M
    <3>0. head + L <= ByteBits * M
      BY DEF Fits, head
    <3>1. ByteBits * (o - 1) + place < ByteBits * M
      <4>1. head = ByteBits * (o - 1) + place
        BY DEF Place, head
      <4>2. ByteBits * M \in Nat
        BY <1>1
      <4> QED BY <1>1, <1>4, <3>0, <4>1, <4>2
    <3>2. o - 1 \in Nat /\ place \in Nat
      OBVIOUS
    <3> HIDE DEF M
    <3> QED BY <1>1, <3>1, <3>2, Cancel
  <2> QED BY <1>1, <2>1
<1>8. this # L => o + 1 \in 1..M
  <2>1. SUFFICES ASSUME this # L PROVE o < M
    BY <1>1
  <2>2. ByteBits * o + 0 < ByteBits * M
    <3>1. Place(o + 1, 0) = ByteBits * o + 0
      BY DEF Place
    <3>2. ByteBits * M \in Nat
      BY <1>1
    <3>3. this = ByteBits - place /\ this < L
      BY <1>1, <1>3, <2>1
    <3>4. head + L <= ByteBits * M
      BY DEF Fits, head
    <3> HIDE DEF M, L
    <3> DEFINE x == ByteBits * o + 0
               y == ByteBits * M
    <3>5. x = Place(o, 0) + ByteBits
      BY <1>4, <3>1
    <3>6. x < head + L /\ x \in Nat
      <4> DEFINE z == Place(o, 0)
      <4>1. z \in Nat /\ head = z + place /\ x = z + ByteBits
        BY <1>4, <3>5
      <4> HIDE DEF x, z
      <4> QED BY <1>1, <3>3, <4>1
    <3>7. head + L <= y /\ y \in Nat
      BY <3>2, <3>4
    <3> HIDE DEF x, y
    <3>8. x < y
      BY <1>1, <1>4, <3>6, <3>7
    <3> QED BY <3>8 DEF x, y
  <2>3. o \in Nat /\ 0 \in Nat
    OBVIOUS
  <2> HIDE DEF M
  <2> QED BY <1>1, <2>2, <2>3, Cancel
<1>9. /\ first \in Seq(Byte) /\ Len(first) = M
      /\ \A q \in 1..M, r \in 0..(ByteBits - 1) :
           first[q][r] = IF q = o /\ place <= r /\ r < place + this
                           THEN b[r - place + 1] ELSE buffer[q][r]
  <2>1. place \in Nat
    OBVIOUS
  <2>2. /\ first \in Seq(Byte) /\ Len(first) = M
        /\ \A q \in 1..M, r \in 0..(ByteBits - 1) :
             first[q][r] = IF q = o /\ place <= r /\ r < place + Len(part)
                             THEN part[r - place + 1] ELSE buffer[q][r]
    <3>1. WrittenInByte(first, buffer, o, place, part)
      BY <1>5, <1>7, <2>1, ByteCells
    <3> HIDE DEF first, L, part
    <3> QED BY <3>1 DEF WrittenInByte, M
  <2>3. \A r \in 0..(ByteBits - 1) : place <= r /\ r < place + this =>
          r - place + 1 \in 1..this
    BY <1>1, <1>3
  <2> HIDE DEF M, first
  <2> QED BY <1>5, <2>2, <2>3
<1> HIDE DEF first
<1>10. /\ new \in Seq(Byte) /\ Len(new) = M
       /\ \A q \in 1..M, r \in 0..(ByteBits - 1) :
            new[q][r] = IF q = o + 1 /\ r < L - this THEN b[this + r + 1] ELSE first[q][r]
  <2> HIDE DEF L, M
  <2>1. CASE this = L
    <3>1. new = first
      BY <1>2, <2>1
    <3>2. \A r \in 0..(ByteBits - 1) : ~ (r < L - this)
      BY <1>1, <2>1
    <3> QED BY <1>9, <3>1, <3>2
  <2>2. CASE this # L
    <3> DEFINE p == o + 1
               z == 0
               last == InByte(first, p, z, rest)
    <3>1. p \in 1..Len(first) /\ z \in Nat /\ new = last /\ p = o + 1 /\ z = 0
      BY <1>2, <1>8, <1>9, <2>2
    <3> HIDE DEF p, z
    <3>2. /\ last \in Seq(Byte) /\ Len(last) = Len(first)
          /\ \A q \in 1..Len(first), r \in 0..(ByteBits - 1) :
               last[q][r] = IF q = p /\ z <= r /\ r < z + Len(rest)
                              THEN rest[r - z + 1] ELSE first[q][r]
      <4>1. first \in Seq(Byte) /\ rest \in Seq(Bit) /\ p \in 1..Len(first) /\ z \in Nat
        BY <1>6, <1>9, <3>1
      <4>2. WrittenInByte(last, first, p, z, rest)
        BY <4>1, ByteCells
      <4> HIDE DEF last
      <4> QED BY <4>2 DEF WrittenInByte
    <3> HIDE DEF last
    <3>3. ASSUME NEW q \in 1..M, NEW r \in 0..(ByteBits - 1)
          PROVE  new[q][r] = IF q = p /\ r < L - this THEN b[this + r + 1] ELSE first[q][r]
      <4>1. 0 <= r /\ (r < 0 + Len(rest) <=> r < L - this)
        BY <1>1, <1>3, <1>6
      <4>2. r < L - this => r - 0 + 1 \in 1..(L - this) /\ this + (r - 0 + 1) = this + r + 1
        BY <1>1, <1>3
      <4>3. r < L - this => rest[r - 0 + 1] = b[this + r + 1]
        <5>1. SUFFICES ASSUME r < L - this PROVE rest[r - 0 + 1] = b[this + r + 1]
          OBVIOUS
        <5>2. rest[r - 0 + 1] = b[this + (r - 0 + 1)]
          BY <1>6, <4>2, <5>1
        <5> QED BY <4>2, <5>1, <5>2
      <4>4. new[q][r] = IF q = p /\ 0 <= r /\ r < 0 + Len(rest)
                          THEN rest[r - 0 + 1] ELSE first[q][r]
        BY <1>9, <3>1, <3>2
      <4> QED BY <4>1, <4>3, <4>4
    <3> QED BY <1>9, <3>1, <3>2, <3>3
  <2> QED BY <2>1, <2>2
<1> HIDE DEF L, M
<1>11. \A q \in 1..M, r \in 0..(ByteBits - 1) :
         new[q][r] = IF head <= Place(q, r) /\ Place(q, r) < head + L
                       THEN b[Place(q, r) - head + 1] ELSE buffer[q][r]
  <2> HIDE DEF head
  <2>1. /\ M \in Nat /\ L \in 1..ByteBits /\ this \in 1..L
        /\ head = Place(o, 0) + place
    BY <1>1, <1>3, <1>4
  <2>2. FirstPart(first, buffer, b, M, o, place, this)
    BY <1>9 DEF FirstPart
  <2>3. SecondPart(new, first, b, M, o, L, this)
    BY <1>10 DEF SecondPart
  <2>4. BothParts(new, buffer, b, M, head, L)
    BY <1>3, <2>1, <2>2, <2>3, JoinedCells
  <2> QED BY <2>4 DEF BothParts
<1>12. Written(new, buffer, head, b)
  BY <1>11 DEF L, M, Written
<1> QED BY <1>10, <1>12 DEF new, this, head, L, M

\* WriteByte appends its bits to those a stream holds.
LEMMA WriteByteHolds ==
  ASSUME NEW s \in Stream, NEW bits \in Seq(Bit), Holds(s, bits),
         NEW b \in Seq(Bit), Len(b) \in 1..ByteBits
  PROVE  WriteByte(s, b) \in Stream /\ Holds(WriteByte(s, b), bits \o b)
<1> DEFINE L == Len(b)
           roomy == Room(s, L)
           o == s.head \div ByteBits + 1
           place == s.head % ByteBits
           this == Least(L, ByteBits - place)
           old == roomy.buffer
           buffer == InBytes(old, o, place, b, this)
           both == bits \o b
           new == [head |-> s.head + L, capacity |-> roomy.capacity, buffer |-> buffer]
<1>1. /\ ByteBits \in Nat \ {0} /\ L \in Nat /\ L \in 1..ByteBits
      /\ s.head \in Nat /\ s.head = Len(bits) /\ Len(bits) \in Nat
  BY ByteAssumption, StreamFields DEF Holds
<1>2. roomy \in Stream /\ Holds(roomy, bits) /\ s.head + L <= roomy.capacity
  <2> HIDE DEF L
  <2> QED BY <1>1, RoomHolds
<1> HIDE DEF roomy
<1>3. /\ roomy = [head |-> s.head, capacity |-> roomy.capacity, buffer |-> old]
      /\ roomy.capacity \in Nat /\ old \in Seq(Byte) /\ Len(old) \in Nat
      /\ Len(old) = BytesFor(roomy.capacity) /\ Cells(old, bits)
  BY <1>1, <1>2 DEF Stream, Holds
<1>4. WriteByte(s, b) = new
  <2> DEFINE part == SubSeq(b, 1, this)
             rest == SubSeq(b, this + 1, L)
             first == [roomy EXCEPT !.head = @ + L, !.buffer[o] = Overwrite(@, place, part)]
             inByte == InByte(old, o, place, part)
  <2>1. WriteByte(s, b) = IF this = L THEN first
                          ELSE [first EXCEPT !.buffer[o + 1] = Overwrite(@, 0, rest)]
    BY DEF WriteByte, roomy
  <2>2. buffer = IF this = L THEN inByte ELSE InByte(inByte, o + 1, 0, rest)
    BY DEF InBytes
  <2> HIDE DEF L, part, rest, o, place, this, old, buffer
  <2>3. first = [head |-> s.head + L, capacity |-> roomy.capacity, buffer |-> inByte]
    <3>1. roomy.head = s.head /\ roomy.buffer = old
      BY <1>3 DEF old
    <3>2. first = [roomy EXCEPT !.head = s.head + L, !.buffer = inByte]
      BY <3>1 DEF InByte
    <3> HIDE DEF first, inByte
    <3> QED BY <1>3, <3>2
  <2>4. CASE this = L
    BY <2>1, <2>2, <2>3, <2>4
  <2>5. CASE this # L
    <3> HIDE DEF first, inByte
    <3>1. first.buffer = inByte
      BY <2>3
    <3>2. [first EXCEPT !.buffer[o + 1] = Overwrite(@, 0, rest)]
             = [first EXCEPT !.buffer = InByte(inByte, o + 1, 0, rest)]
      BY <3>1 DEF InByte
    <3> QED BY <2>1, <2>2, <2>3, <2>5, <3>2
  <2> QED BY <2>4, <2>5
<1>5. o \in Nat \ {0} /\ place \in 0..(ByteBits - 1) /\ s.head = Place(o, place)
  BY <1>1, PlaceOf DEF IsPlaceOf
<1> HIDE DEF o, place, old, L
<1>6. Fits(old, Place(o, place), b)
  <2>1. roomy.capacity <= ByteBits * BytesFor(roomy.capacity) /\ BytesFor(roomy.capacity) \in Nat
    BY <1>3, BytesForFacts
  <2>2. ByteBits * BytesFor(roomy.capacity) \in Nat
    BY <1>1, <2>1
  <2> QED BY <1>1, <1>2, <1>3, <1>5, <2>1, <2>2 DEF Fits, L
<1>7. /\ buffer \in Seq(Byte)
      /\ Len(buffer) = Len(old)
      /\ Written(buffer, old, s.head, b)
  <2> DEFINE made == InBytes(old, o, place, b, Least(Len(b), ByteBits - place))
  <2>1. Len(b) \in 1..ByteBits
    OBVIOUS
  <2>2. /\ made \in Seq(Byte)
        /\ Len(made) = Len(old)
        /\ Written(made, old, Place(o, place), b)
    BY <1>3, <1>5, <1>6, <2>1, WriteCells
  <2>3. made = buffer
    BY DEF L
  <2> HIDE DEF made, buffer
  <2> QED BY <1>5, <2>2, <2>3
<1> HIDE DEF buffer
<1>8. /\ both \in Seq(Bit)
      /\ Len(both) = Len(bits) + L
      /\ \A i \in 1..(Len(bits) + L) :
           both[i] = IF i <= Len(bits) THEN bits[i] ELSE b[i - Len(bits)]
  BY ConcatProperties DEF L
<1> HIDE DEF both
<1>9. Cells(buffer, both)
  <2>1. SUFFICES ASSUME NEW q \in 1..Len(old), NEW r \in 0..(ByteBits - 1)
                 PROVE  buffer[q][r] = At(both, Place(q, r))
    BY <1>7 DEF Cells
  <2> DEFINE p == Place(q, r)
  <2>2. p \in Nat
    <3>1. q \in Nat \ {0}
      BY <1>3
    <3> QED BY <3>1, PlaceFacts
  <2>3. buffer[q][r] = IF s.head <= p /\ p < s.head + L THEN b[p - s.head + 1] ELSE old[q][r]
    BY <1>7 DEF Written, L
  <2>4. old[q][r] = IF p < s.head THEN bits[p + 1] ELSE 0
    BY <1>1, <1>3 DEF Cells, At
  <2>5. At(both, p) = IF p < s.head + L THEN both[p + 1] ELSE 0
    BY <1>1, <1>8 DEF At
  <2> HIDE DEF p
  <2>6. p < s.head + L =>
          both[p + 1] = IF p < s.head THEN bits[p + 1] ELSE b[p - s.head + 1]
    <3>1. SUFFICES ASSUME p < s.head + L
                   PROVE  both[p + 1] = IF p < s.head THEN bits[p + 1] ELSE b[p - s.head + 1]
      OBVIOUS
    <3>2. p + 1 \in 1..(Len(bits) + L) /\ (p + 1 <= Len(bits) <=> p < s.head)
          /\ p + 1 - Len(bits) = p - s.head + 1
      BY <1>1, <2>2, <3>1
    <3> DEFINE i == p + 1
    <3>3. i \in 1..(Len(bits) + L)
      BY <3>2
    <3> HIDE DEF i
    <3>4. both[i] = IF i <= Len(bits) THEN bits[i] ELSE b[i - Len(bits)]
      BY <1>8, <3>3
    <3> QED BY <1>1, <2>2, <3>2, <3>4 DEF i
  <2>7. buffer[q][r] = At(both, p)
    <3>1. CASE p < s.head
      BY <1>1, <2>2, <2>3, <2>4, <2>5, <2>6, <3>1
    <3>2. CASE ~ (p < s.head)
      BY <1>1, <2>2, <2>3, <2>4, <2>5, <2>6, <3>2
    <3> QED BY <3>1, <3>2
  <2> QED BY <2>7 DEF p
<1>10. new \in Stream
  <2>1. s.head + L \in Nat
    BY <1>1
  <2> QED BY <1>3, <1>7, <2>1 DEF Stream
<1>11. Holds(new, both)
  BY <1>1, <1>2, <1>3, <1>7, <1>8, <1>9 DEF Holds
<1> QED BY <1>4, <1>10, <1>11 DEF both

\* The bits before the i-th byte's end.
Cut(b, i) == Least(ByteBits * i, Len(b))

LEMMA SliceFacts ==
  ASSUME NEW b \in Seq(Bit), NEW i \in 1..BytesFor(Len(b))
  PROVE  /\ Slice(b, i) \in Seq(Bit)
         /\ Len(Slice(b, i)) \in 1..ByteBits
         /\ SubSeq(b, 1, Cut(b, i - 1)) \in Seq(Bit)
         /\ SubSeq(b, 1, Cut(b, i - 1)) \o Slice(b, i) = SubSeq(b, 1, Cut(b, i))
<1> DEFINE L == Len(b)
           low == ByteBits * (i - 1)
           m == low + 1
           cut == Cut(b, i)
<1>1. L \in Nat /\ ByteBits \in Nat \ {0}
  BY ByteAssumption
<1>2. i \in Nat \ {0} /\ i - 1 \in Nat /\ (i - 1) + 1 = i
  <2>1. BytesFor(Len(b)) \in Nat
    BY <1>1, BytesForFacts
  <2> QED BY <2>1
<1>3. low < L
  BY <1>1, BytesForFacts
<1>4. low \in Nat /\ ByteBits * i = low + ByteBits
  BY <1>1, <1>2, NextMultiple
<1>5. Slice(b, i) = SubSeq(b, m, cut)
  BY DEF Slice, Cut
<1>6. cut \in (low + 1)..L /\ cut <= low + ByteBits
  <2> HIDE DEF low, L
  <2>1. cut = Least(low + ByteBits, L)
    BY <1>4 DEF Cut, L
  <2> HIDE DEF cut
  <2> QED BY <1>1, <1>3, <1>4, <2>1 DEF Least
<1>7. Cut(b, i - 1) = low
  <2> HIDE DEF low
  <2>1. Cut(b, i - 1) = Least(low, L)
    BY DEF Cut, low
  <2> QED BY <1>1, <1>3, <1>4, <2>1 DEF Least
<1> HIDE DEF low, cut
<1>8. /\ Slice(b, i) \in Seq(Bit)
      /\ Len(Slice(b, i)) \in 1..ByteBits
  <2>1. m \in Int /\ cut \in Int /\ m <= cut /\ cut - m + 1 \in 1..ByteBits
    BY <1>1, <1>4, <1>6
  <2>2. \A j \in m..cut : b[j] \in Bit
    BY <1>1, <1>4, <1>6
  <2> HIDE DEF m
  <2>3. /\ SubSeq(b, m, cut) \in Seq(Bit)
        /\ Len(SubSeq(b, m, cut)) = IF m <= cut THEN cut - m + 1 ELSE 0
    BY <2>1, <2>2, SubSeqProperties
  <2> QED BY <1>5, <2>1, <2>3
<1>9. SubSeq(b, 1, low) \in Seq(Bit)
  <2>1. low \in Int /\ 1 \in Int /\ \A j \in 1..low : b[j] \in Bit
    BY <1>1, <1>3, <1>4
  <2> QED BY <2>1, SubSeqProperties
<1>10. SubSeq(b, 1, low) \o SubSeq(b, m, cut) = SubSeq(b, 1, cut)
  <2>1. 1 \in 1..(Len(b) + 1) /\ low \in (1 - 1)..Len(b) /\ cut \in low..Len(b)
    BY <1>1, <1>3, <1>4, <1>6
  <2> QED BY <2>1, ConcatAdjacentSubSeq
<1> QED BY <1>5, <1>7, <1>8, <1>9, <1>10 DEF cut

\* The provers see the equation only where it is wanted.
Associative(a, b, c) == (a \o b) \o c = a \o (b \o c)

LEMMA ConcatBits ==
  ASSUME NEW a \in Seq(Bit), NEW b \in Seq(Bit), NEW c \in Seq(Bit)
  PROVE  Associative(a, b, c)
BY ConcatAssociative DEF Associative

\* Streams that hold some bits.
Sound == {s \in Stream : \E bits \in Seq(Bit) : Holds(s, bits)}

LEMMA WriteBitsHolds ==
  ASSUME NEW s \in Stream, NEW bits \in Seq(Bit), Holds(s, bits), NEW b \in Seq(Bit)
  PROVE  WriteBits(s, b) \in Stream /\ Holds(WriteBits(s, b), bits \o b)
<1> DEFINE L == Len(b)
           n == BytesFor(L)
           round == [i \in 1..n |-> [x \in Sound |-> WriteByte(x, Slice(b, i))]]
           after[i \in 0..n] == IF i = 0 THEN s ELSE WriteByte(after[i - 1], Slice(b, i))
<1>1. L \in Nat /\ n \in Nat
  BY BytesForFacts
<1>2. ASSUME NEW i \in 1..n, NEW x \in Sound PROVE WriteByte(x, Slice(b, i)) \in Sound
  <2>1. PICK held \in Seq(Bit) : Holds(x, held)
    BY DEF Sound
  <2>2. Slice(b, i) \in Seq(Bit) /\ Len(Slice(b, i)) \in 1..ByteBits
    BY SliceFacts
  <2>3. x \in Stream
    BY DEF Sound
  <2>4. WriteByte(x, Slice(b, i)) \in Stream /\ Holds(WriteByte(x, Slice(b, i)), held \o Slice(b, i))
    BY <2>1, <2>2, <2>3, WriteByteHolds
  <2>5. held \o Slice(b, i) \in Seq(Bit)
    BY <2>2, ConcatProperties
  <2> QED BY <2>4, <2>5 DEF Sound
<1>3. s \in Sound
  BY DEF Sound
<1>4. round \in [1..n -> [Sound -> Sound]]
  BY <1>2
<1>5. \A i \in 1..n, x \in Sound : round[i][x] = WriteByte(x, Slice(b, i))
  OBVIOUS
<1> HIDE DEF round
<1>6. PICK f : IsLoop(f, n, Sound, s, round)
  <2>1. round \in Rounds(n, Sound)
    BY <1>4 DEF Rounds
  <2> HIDE DEF n
  <2> QED BY <1>1, <1>3, <2>1, LoopExists
<1>7. f = [i \in 0..n |-> IF i = 0 THEN s ELSE WriteByte(f[i - 1], Slice(b, i))]
  <2> HIDE DEF n
  <2>1. \A i \in 0..n : i = 0 \/ (i \in 1..n /\ i - 1 \in 0..n)
    BY <1>1
  <2>2. \A i \in 0..n : f[i] = IF i = 0 THEN s ELSE WriteByte(f[i - 1], Slice(b, i))
    BY <1>5, <1>6, <2>1 DEF IsLoop
  <2> QED BY <1>6, <2>2 DEF IsLoop
<1>8. after = [i \in 0..n |-> IF i = 0 THEN s ELSE WriteByte(after[i - 1], Slice(b, i))]
  BY <1>7
<1>9. WriteBits(s, b) = after[n]
  BY DEF WriteBits
<1> HIDE DEF after
<1> DEFINE part(i) == SubSeq(b, 1, Cut(b, i))
           T == {i \in 0..n : after[i] \in Stream /\ Holds(after[i], bits \o part(i))}
<1>10. 0 \in T
  <2>1. Cut(b, 0) = 0
    <3>1. ByteBits * 0 = 0
      BY ByteAssumption
    <3> QED BY <1>1, <3>1 DEF Cut, Least
  <2>2. part(0) = << >>
    BY <2>1, SubSeqEmpty
  <2>3. bits \o << >> = bits
    OBVIOUS
  <2>4. 0 \in 0..n
    BY <1>1
  <2>5. after[0] = s
    <3> HIDE DEF n
    <3> QED BY <1>8, <2>4
  <2> HIDE DEF part
  <2> QED BY <2>2, <2>3, <2>4, <2>5
<1>11. ASSUME NEW i \in 0..(n - 1), i \in T PROVE i + 1 \in T
  <2> DEFINE j == i + 1
             x == after[i]
             slice == Slice(b, j)
  <2>1. j \in 1..n /\ j \in 0..n /\ j - 1 = i /\ j # 0
    BY <1>1
  <2>2. after[j] = WriteByte(x, slice)
    <3> HIDE DEF j, n
    <3> QED BY <1>8, <2>1
  <2>3. x \in Stream /\ Holds(x, bits \o part(i))
    BY <1>11
  <2> HIDE DEF j, x
  <2>4. /\ slice \in Seq(Bit)
        /\ Len(slice) \in 1..ByteBits
        /\ part(i) \in Seq(Bit)
        /\ part(i) \o slice = part(j)
    BY <2>1, SliceFacts
  <2> HIDE DEF slice, part
  <2>5. (bits \o part(i)) \o slice = bits \o part(j) /\ bits \o part(i) \in Seq(Bit)
    <3>1. (bits \o part(i)) \o slice = bits \o (part(i) \o slice)
      <4> DEFINE p == part(i)
      <4>0. slice \in Seq(Bit) /\ bits \in Seq(Bit)
        BY <2>4
      <4>1. p \in Seq(Bit)
        BY <2>4
      <4> HIDE DEF p
      <4>2. Associative(bits, p, slice)
        BY <4>0, <4>1, ConcatBits
      <4> QED BY <4>2 DEF p, Associative
    <3> QED BY <2>4, <3>1, ConcatProperties
  <2>6. WriteByte(x, slice) \in Stream /\ Holds(WriteByte(x, slice), (bits \o part(i)) \o slice)
    <3> DEFINE held == bits \o part(i)
    <3>1. held \in Seq(Bit) /\ Holds(x, held)
      BY <2>3, <2>5
    <3> HIDE DEF held
    <3>2. WriteByte(x, slice) \in Stream /\ Holds(WriteByte(x, slice), held \o slice)
      BY <2>3, <2>4, <3>1, WriteByteHolds
    <3> QED BY <3>2 DEF held
  <2>7. after[j] \in Stream /\ Holds(after[j], bits \o part(j))
    BY <2>2, <2>5, <2>6
  <2> QED BY <2>1, <2>7 DEF j
<1>12. \A i \in 0..n : i \in T
  <2> HIDE DEF T, n
  <2> QED BY <1>1, <1>10, <1>11, InductUpto
<1>13. part(n) = b
  <2>1. L <= ByteBits * n /\ ByteBits * n \in Nat
    <3> HIDE DEF L
    <3>1. L <= ByteBits * n
      BY <1>1, BytesForFacts
    <3> HIDE DEF n
    <3> QED BY <1>1, <3>1, ByteAssumption
  <2> HIDE DEF n
  <2>2. Cut(b, n) = L
    <3> HIDE DEF L
    <3>1. Cut(b, n) = Least(ByteBits * n, L)
      BY DEF Cut, L
    <3> QED BY <1>1, <2>1, <3>1 DEF Least
  <2> QED BY <2>2, SubSeqFull
<1>14. n \in 0..n
  BY <1>1
<1>15. after[n] \in Stream /\ Holds(after[n], bits \o part(n))
  BY <1>12, <1>14
<1> HIDE DEF part, n
<1> QED BY <1>9, <1>13, <1>15

-----------------------------------------------------------------------------
(* Ranges and their bits.                                                  *)

LEMMA SequenceNumbers ==
  /\ SequenceBits \in Nat \ {0} /\ IntBits \in Nat /\ IntBits > SequenceBits
  /\ MaxNumber \in Nat /\ MaxNumber >= 1 /\ MaxNumber + 1 = Pow2[SequenceBits]
  /\ SequenceNumber \subseteq Nat
  /\ \A v \in SequenceNumber : v < Pow2[SequenceBits]
<1>1. SequenceBits \in Nat \ {0} /\ IntBits \in Nat /\ IntBits > SequenceBits
  BY AckAssumption
<1>2. Pow2[SequenceBits] \in Nat /\ Pow2[SequenceBits] >= 2
  <2>1. 1 \in Nat /\ SequenceBits \in Nat /\ 1 <= SequenceBits /\ 0 \in Nat /\ 0 + 1 = 1
    BY <1>1
  <2>2. Pow2[1] <= Pow2[SequenceBits]
    BY <2>1, Pow2Grows
  <2>3. Pow2[0 + 1] = 2 * Pow2[0] /\ Pow2[0] = 1
    BY <2>1, Pow2Facts
  <2>4. Pow2[SequenceBits] \in Nat
    BY <2>1, Pow2Facts
  <2> QED BY <2>1, <2>2, <2>3, <2>4
<1> QED BY <1>1, <1>2 DEF MaxNumber, SequenceNumber

LEMMA RangeFields ==
  ASSUME NEW r \in AckRange
  PROVE  /\ r.mStart \in Nat /\ r.mStart < Pow2[SequenceBits]
         /\ r.mCount \in Nat /\ r.mCount < Pow2[SequenceBits]
BY SequenceNumbers DEF AckRange

\* The bits of a range: its start, whether there is a count, and the count.
LEMMA EncodedFacts ==
  ASSUME NEW r \in AckRange
  PROVE  /\ Encoded(r) \in Seq(Bit)
         /\ Len(Encoded(r)) = IF r.mCount > 1 THEN SequenceBits + 1 + IntBits ELSE SequenceBits + 1
         /\ \A j \in 1..SequenceBits : Encoded(r)[j] = ToBits(r.mStart, SequenceBits)[j]
         /\ Encoded(r)[SequenceBits + 1] = IF r.mCount > 1 THEN 1 ELSE 0
         /\ r.mCount > 1 =>
              \A j \in 1..IntBits :
                Encoded(r)[SequenceBits + 1 + j] = ToBits(r.mCount - 1, IntBits)[j]
<1> DEFINE start == ToBits(r.mStart, SequenceBits)
           count == ToBits(r.mCount - 1, IntBits)
           rest == IF r.mCount > 1 THEN <<1>> \o count ELSE <<0>>
           whl == start \o rest
<1>1. SequenceBits \in Nat \ {0} /\ IntBits \in Nat /\ r.mStart \in Nat /\ r.mCount \in Nat
  BY RangeFields, AckAssumption
<1>2. start \in Seq(Bit) /\ Len(start) = SequenceBits
  BY <1>1, ToBitsType
<1> HIDE DEF start
<1>3. /\ rest \in Seq(Bit)
      /\ Len(rest) = IF r.mCount > 1 THEN 1 + IntBits ELSE 1
      /\ rest[1] = IF r.mCount > 1 THEN 1 ELSE 0
      /\ r.mCount > 1 => \A j \in 1..IntBits : rest[1 + j] = count[j]
  <2>1. CASE r.mCount > 1
    <3>1. r.mCount - 1 \in Nat
      BY <1>1, <2>1
    <3>2. count \in Seq(Bit) /\ Len(count) = IntBits
      <4> DEFINE v == r.mCount - 1
      <4> HIDE DEF v
      <4>1. v \in Nat
        BY <3>1 DEF v
      <4>2. ToBits(v, IntBits) \in Seq(Bit) /\ Len(ToBits(v, IntBits)) = IntBits
        BY <1>1, <4>1, ToBitsType
      <4> QED BY <4>2 DEF v
    <3> HIDE DEF count
    <3> DEFINE one == <<1>>
    <3>3. one \in Seq(Bit) /\ Len(one) = 1 /\ one[1] = 1
      BY DEF Bit
    <3> HIDE DEF one
    <3>4. /\ one \o count \in Seq(Bit)
          /\ Len(one \o count) = Len(one) + Len(count)
          /\ \A i \in 1..(Len(one) + Len(count)) :
               (one \o count)[i] = IF i <= Len(one) THEN one[i] ELSE count[i - Len(one)]
      BY <3>2, <3>3, ConcatProperties
    <3>5. rest = one \o count
      BY <2>1 DEF one
    <3> HIDE DEF rest
    <3>6. /\ 1 \in 1..(1 + IntBits)
          /\ \A j \in 1..IntBits : /\ 1 + j \in 1..(1 + IntBits) /\ ~ (1 + j <= 1)
                                   /\ (1 + j) - 1 = j
      BY <1>1
    <3>7. \A i \in 1..(1 + IntBits) : rest[i] = IF i <= 1 THEN one[i] ELSE count[i - 1]
      BY <3>2, <3>3, <3>4, <3>5
    <3>8. rest[1] = 1
      BY <3>3, <3>6, <3>7
    <3>9. ASSUME NEW j \in 1..IntBits PROVE rest[1 + j] = count[j]
      <4> DEFINE i == 1 + j
      <4>1. i \in 1..(1 + IntBits) /\ ~ (i <= 1) /\ i - 1 = j
        BY <3>6
      <4> HIDE DEF i
      <4>2. rest[i] = count[j]
        BY <3>7, <4>1
      <4> QED BY <4>2 DEF i
    <3> QED BY <2>1, <3>2, <3>3, <3>4, <3>5, <3>8, <3>9
  <2>2. CASE ~ (r.mCount > 1)
    <3> DEFINE zero == <<0>>
    <3>1. zero \in Seq(Bit) /\ Len(zero) = 1 /\ zero[1] = 0
      BY DEF Bit
    <3>2. rest = zero
      BY <2>2
    <3> HIDE DEF zero, rest
    <3> QED BY <2>2, <3>1, <3>2
  <2> QED BY <2>1, <2>2
<1> HIDE DEF rest
<1>4. /\ whl \in Seq(Bit)
      /\ Len(whl) = SequenceBits + Len(rest)
      /\ \A i \in 1..(SequenceBits + Len(rest)) :
           whl[i] = IF i <= SequenceBits THEN start[i] ELSE rest[i - SequenceBits]
  <2>1. /\ start \o rest \in Seq(Bit)
        /\ Len(start \o rest) = Len(start) + Len(rest)
        /\ \A i \in 1..(Len(start) + Len(rest)) :
             (start \o rest)[i] = IF i <= Len(start) THEN start[i] ELSE rest[i - Len(start)]
    BY <1>2, <1>3, ConcatProperties
  <2> QED BY <1>2, <2>1
<1>5. Encoded(r) = whl
  BY DEF Encoded, rest, start
<1> HIDE DEF whl, count
<1>6. Len(whl) = IF r.mCount > 1 THEN SequenceBits + 1 + IntBits ELSE SequenceBits + 1
  BY <1>1, <1>3, <1>4
<1>7. \A j \in 1..SequenceBits : whl[j] = start[j]
  <2>1. \A j \in 1..SequenceBits : j \in 1..(SequenceBits + Len(rest)) /\ j <= SequenceBits
    BY <1>1, <1>3
  <2> QED BY <1>4, <2>1
<1>8. whl[SequenceBits + 1] = rest[1]
  <2> DEFINE i == SequenceBits + 1
  <2>1. i \in 1..(SequenceBits + Len(rest)) /\ ~ (i <= SequenceBits) /\ i - SequenceBits = 1
    BY <1>1, <1>3
  <2> HIDE DEF i
  <2>2. whl[i] = rest[1]
    BY <1>4, <2>1
  <2> QED BY <2>2 DEF i
<1>9. ASSUME r.mCount > 1, NEW j \in 1..IntBits PROVE whl[SequenceBits + 1 + j] = count[j]
  <2> DEFINE i == SequenceBits + 1 + j
  <2>1. i \in 1..(SequenceBits + Len(rest)) /\ ~ (i <= SequenceBits) /\ i - SequenceBits = 1 + j
    BY <1>1, <1>3, <1>9
  <2> HIDE DEF i
  <2>2. whl[i] = rest[1 + j]
    BY <1>4, <2>1
  <2>3. rest[1 + j] = count[j]
    BY <1>3, <1>9
  <2> QED BY <2>2, <2>3 DEF i
<1> QED BY <1>3, <1>4, <1>5, <1>6, <1>7, <1>8, <1>9 DEF start, count

\* A range is written behind what the stream holds.
LEMMA WriteBitStreamHolds ==
  ASSUME NEW s \in Stream, NEW bits \in Seq(Bit), Holds(s, bits), NEW r \in AckRange
  PROVE  WriteBitStream(s, r) \in Stream /\ Holds(WriteBitStream(s, r), bits \o Encoded(r))
<1> DEFINE start == ToBits(r.mStart, SequenceBits)
           count == ToBits(r.mCount - 1, IntBits)
           one == <<1>>
           zero == <<0>>
           x == WriteBits(s, start)
           held == bits \o start
<1>1. SequenceBits \in Nat \ {0} /\ IntBits \in Nat /\ r.mStart \in Nat /\ r.mCount \in Nat
  BY RangeFields, AckAssumption
<1>2. start \in Seq(Bit)
  BY <1>1, ToBitsType
<1>3. /\ one \in Seq(Bit) /\ Len(one) \in 1..ByteBits
      /\ zero \in Seq(Bit) /\ Len(zero) \in 1..ByteBits
  BY ByteAssumption DEF Bit
<1>4. /\ WriteBitStream(s, r) = IF r.mCount > 1 THEN WriteBits(WriteByte(x, one), count)
                                ELSE WriteByte(x, zero)
      /\ Encoded(r) = IF r.mCount > 1 THEN start \o (one \o count) ELSE start \o zero
  BY DEF WriteBitStream, Encoded
<1> HIDE DEF start, one, zero
<1>5. held \in Seq(Bit) /\ x \in Stream /\ Holds(x, held)
  BY <1>2, WriteBitsHolds, ConcatProperties
<1>6. CASE r.mCount > 1
  <2> DEFINE v == r.mCount - 1
             c == ToBits(v, IntBits)
             y == WriteByte(x, one)
             more == held \o one
  <2>1. v \in Nat
    BY <1>1, <1>6
  <2>2. c = count
    OBVIOUS
  <2> HIDE DEF v, count
  <2>3. c \in Seq(Bit)
    BY <1>1, <2>1, ToBitsType
  <2> HIDE DEF x, held, c
  <2>4. y \in Stream /\ Holds(y, more) /\ more \in Seq(Bit)
    BY <1>3, <1>5, WriteByteHolds, ConcatProperties
  <2> HIDE DEF y, more
  <2>5. WriteBits(y, c) \in Stream /\ Holds(WriteBits(y, c), more \o c)
    BY <2>3, <2>4, WriteBitsHolds
  <2>6. more \o c = bits \o (start \o (one \o c))
    <3>1. one \o c \in Seq(Bit)
      BY <1>3, <2>3, ConcatProperties
    <3>2. (held \o one) \o c = held \o (one \o c)
      <4>1. Associative(held, one, c)
        BY <1>3, <1>5, <2>3, ConcatBits
      <4> QED BY <4>1 DEF Associative
    <3> DEFINE rest == one \o c
    <3> HIDE DEF rest
    <3>3. (bits \o start) \o rest = bits \o (start \o rest)
      <4>1. rest \in Seq(Bit)
        BY <3>1 DEF rest
      <4>2. Associative(bits, start, rest)
        BY <1>2, <4>1, ConcatBits
      <4> QED BY <4>2 DEF Associative
    <3> QED BY <3>2, <3>3 DEF more, held, rest
  <2> QED BY <1>4, <1>6, <2>2, <2>5, <2>6 DEF y
<1>7. CASE ~ (r.mCount > 1)
  <2> HIDE DEF x, held
  <2>1. WriteByte(x, zero) \in Stream /\ Holds(WriteByte(x, zero), held \o zero)
    BY <1>3, <1>5, WriteByteHolds
  <2>2. (bits \o start) \o zero = bits \o (start \o zero)
    <3>1. Associative(bits, start, zero)
      BY <1>2, <1>3, ConcatBits
    <3> QED BY <3>1 DEF Associative
  <2> QED BY <1>4, <1>7, <2>1, <2>2 DEF held
<1> QED BY <1>6, <1>7

\* The bits of the ranges before each, as far as they have been put together.
IsFlat(f, rs) ==
  /\ f \in [0..Len(rs) -> Seq(Bit)]
  /\ f[0] = << >>
  /\ \A i \in 1..Len(rs) : f[i] = f[i - 1] \o Encoded(rs[i])
  /\ Flatten(rs) = f[Len(rs)]

LEMMA FlattenDef ==
  ASSUME NEW rs \in Seq(AckRange)
  PROVE  \E f : IsFlat(f, rs)
<1> DEFINE n == Len(rs)
           S == Seq(Bit)
           round == [i \in 1..n |-> [x \in S |-> x \o Encoded(rs[i])]]
           flat[i \in 0..n] == IF i = 0 THEN << >> ELSE flat[i - 1] \o Encoded(rs[i])
<1>1. n \in Nat /\ << >> \in S
  OBVIOUS
<1>2. ASSUME NEW i \in 1..n, NEW x \in S PROVE x \o Encoded(rs[i]) \in S
  <2> DEFINE e == Encoded(rs[i])
  <2>1. rs[i] \in AckRange
    OBVIOUS
  <2>2. e \in S
    BY <2>1, EncodedFacts
  <2> HIDE DEF e
  <2>3. x \o e \in S
    BY <2>2, ConcatProperties
  <2> QED BY <2>3 DEF e
<1>3. round \in [1..n -> [S -> S]]
  BY <1>2
<1>4. \A i \in 1..n, x \in S : round[i][x] = x \o Encoded(rs[i])
  OBVIOUS
<1> HIDE DEF round, S
<1>5. PICK f : IsLoop(f, n, S, << >>, round)
  <2>1. round \in Rounds(n, S)
    BY <1>3 DEF Rounds
  <2> HIDE DEF n
  <2> QED BY <1>1, <2>1, LoopExists
<1>6. \A i \in 1..n : f[i] = f[i - 1] \o Encoded(rs[i])
  <2>1. \A i \in 1..n : i - 1 \in 0..n
    OBVIOUS
  <2> HIDE DEF n
  <2> QED BY <1>4, <1>5, <2>1 DEF IsLoop
<1>7. f = [i \in 0..n |-> IF i = 0 THEN << >> ELSE f[i - 1] \o Encoded(rs[i])]
  <2>1. \A i \in 0..n : i = 0 \/ i \in 1..n
    OBVIOUS
  <2> HIDE DEF n
  <2>2. \A i \in 0..n : f[i] = IF i = 0 THEN << >> ELSE f[i - 1] \o Encoded(rs[i])
    BY <1>5, <1>6, <2>1 DEF IsLoop
  <2> QED BY <1>5, <2>2 DEF IsLoop
<1>8. flat = [i \in 0..n |-> IF i = 0 THEN << >> ELSE flat[i - 1] \o Encoded(rs[i])]
  BY <1>7
<1>9. Flatten(rs) = flat[n]
  BY DEF Flatten
<1> HIDE DEF flat
<1>10. f[n] = flat[n]
  <2>1. n \in 0..n /\ 0 \in 0..n /\ \A i \in 1..n : i \in 0..n /\ i # 0
    BY <1>1
  <2> HIDE DEF n
  <2>2. f[0] = flat[0]
    BY <1>5, <1>8, <2>1 DEF IsLoop
  <2>3. \A i \in 1..n : flat[i] = flat[i - 1] \o Encoded(rs[i])
    BY <1>8, <2>1
  <2>4. \A i \in 1..n : f[i - 1] = flat[i - 1] => f[i] = flat[i]
    BY <1>6, <2>3
  <2>5. Alike(f, flat, n)
    BY <2>2, <2>4 DEF Alike
  <2>6. \A i \in 0..n : f[i] = flat[i]
    BY <1>1, <2>5, AgreeUpto
  <2> QED BY <2>1, <2>6
<1>11. f \in [0..n -> S] /\ f[0] = << >>
  BY <1>5 DEF IsLoop
<1> QED BY <1>6, <1>9, <1>10, <1>11 DEF IsFlat, S

LEMMA FlattenType ==
  ASSUME NEW rs \in Seq(AckRange)
  PROVE  Flatten(rs) \in Seq(Bit)
<1>1. PICK f : IsFlat(f, rs)
  BY FlattenDef
<1>2. Len(rs) \in 0..Len(rs)
  OBVIOUS
<1> QED BY <1>1, <1>2 DEF IsFlat

LEMMA FlattenEmpty == Flatten(<< >>) = << >>
<1> DEFINE rs == << >>
<1>1. rs \in Seq(AckRange) /\ Len(rs) = 0
  OBVIOUS
<1> HIDE DEF rs
<1>2. PICK f : IsFlat(f, rs)
  BY <1>1, FlattenDef
<1>3. Flatten(rs) = << >>
  BY <1>1, <1>2 DEF IsFlat
<1> QED BY <1>3 DEF rs

LEMMA FlattenAppend ==
  ASSUME NEW rs \in Seq(AckRange), NEW r \in AckRange
  PROVE  Flatten(Append(rs, r)) = Flatten(rs) \o Encoded(r)
<1> DEFINE n == Len(rs)
           more == Append(rs, r)
           m == n + 1
<1>1. /\ n \in Nat /\ more \in Seq(AckRange) /\ Len(more) = m
      /\ \A i \in 1..n : more[i] = rs[i]
      /\ more[m] = r
  OBVIOUS
<1>2. PICK f : IsFlat(f, rs)
  BY FlattenDef
<1> HIDE DEF more
<1>3. PICK g : IsFlat(g, more)
  BY <1>1, FlattenDef
<1>4. \A i \in 1..n : i \in 1..m
  OBVIOUS
<1>5. m \in 1..m /\ m - 1 = n /\ n \in 0..n
  BY <1>1
<1> HIDE DEF m, n
<1>6. /\ f[0] = << >> /\ Flatten(rs) = f[n]
      /\ \A i \in 1..n : f[i] = f[i - 1] \o Encoded(rs[i])
  BY <1>2 DEF IsFlat, n
<1>7. /\ g[0] = << >> /\ Flatten(more) = g[m]
      /\ \A i \in 1..m : g[i] = g[i - 1] \o Encoded(more[i])
  BY <1>1, <1>3 DEF IsFlat
<1>8. Alike(g, f, n)
  <2>1. ASSUME NEW i \in 1..n, g[i - 1] = f[i - 1] PROVE g[i] = f[i]
    BY <1>1, <1>4, <1>6, <1>7, <2>1
  <2> QED BY <1>6, <1>7, <2>1 DEF Alike
<1>9. g[n] = f[n]
  BY <1>1, <1>5, <1>8, AgreeUpto
<1>10. g[m] = g[n] \o Encoded(r)
  BY <1>1, <1>5, <1>7
<1> QED BY <1>6, <1>7, <1>9, <1>10 DEF more

\* Behind short ranges alone a range begins at a multiple of a short one's bits.
Begin(k) == (SequenceBits + 1) * k

LEMMA FlattenShort ==
  ASSUME NEW rs \in Seq(AckRange), NEW k \in 0..(Len(rs) - 1),
         \A i \in 1..k : IsShort(rs[i])
  PROVE  /\ Begin(k) + Len(Encoded(rs[k + 1])) <= Len(Flatten(rs))
         /\ \A j \in 1..Len(Encoded(rs[k + 1])) :
              Flatten(rs)[Begin(k) + j] = Encoded(rs[k + 1])[j]
<1> DEFINE n == Len(rs)
           r == rs[k + 1]
           e == Encoded(r)
<1>1. PICK f : IsFlat(f, rs)
  BY FlattenDef
<1>2. n \in Nat /\ SequenceBits \in Nat \ {0} /\ k \in Nat /\ k + 1 \in 1..n
  BY AckAssumption
<1>3. \A i \in 1..n : rs[i] \in AckRange
  OBVIOUS
<1>4. e \in Seq(Bit) /\ Len(e) \in Nat
  BY <1>2, <1>3, EncodedFacts
<1> HIDE DEF n, e
<1>5. /\ \A i \in 0..n : f[i] \in Seq(Bit)
      /\ f[0] = << >>
      /\ \A i \in 1..n : f[i] = f[i - 1] \o Encoded(rs[i])
      /\ Flatten(rs) = f[n]
  BY <1>1 DEF IsFlat, n
<1> DEFINE S == {i \in 0..k : Len(f[i]) = Begin(i)}
<1>6. 0 \in S
  <2>1. Begin(0) = 0
    BY <1>2 DEF Begin
  <2>2. Len(f[0]) = 0
    BY <1>5
  <2> QED BY <1>2, <2>1, <2>2
<1>7. ASSUME NEW i \in 0..(k - 1), i \in S PROVE i + 1 \in S
  <2> DEFINE q == i + 1
             x == rs[q]
  <2>1. q \in 1..k /\ q \in 1..n /\ q \in 0..k /\ q - 1 = i /\ i \in 0..n /\ i \in Nat
    BY <1>2
  <2>2. x \in AckRange /\ IsShort(x)
    BY <1>3, <2>1
  <2>3. Len(f[i]) = Begin(i) /\ f[q] = f[i] \o Encoded(x) /\ f[i] \in Seq(Bit)
    BY <1>5, <1>7, <2>1
  <2>4. Begin(i + 1) = Begin(i) + (SequenceBits + 1)
    BY <1>2, <2>1 DEF Begin
  <2> HIDE DEF q, x
  <2>5. Encoded(x) \in Seq(Bit) /\ Len(Encoded(x)) = SequenceBits + 1
    <3>1. ~ (x.mCount > 1)
      BY <2>2, RangeFields DEF IsShort
    <3> QED BY <2>2, <3>1, EncodedFacts
  <2>6. Len(f[q]) = Begin(i) + (SequenceBits + 1)
    <3> DEFINE a == f[i]
               b == Encoded(x)
    <3>1. a \in Seq(Bit) /\ b \in Seq(Bit) /\ f[q] = a \o b
      BY <2>3, <2>5
    <3>2. Len(f[q]) = Len(a) + Len(b)
      <4> HIDE DEF a, b
      <4> QED BY <3>1, ConcatProperties
    <3> QED BY <2>3, <2>5, <3>2
  <2> QED BY <2>1, <2>4, <2>6 DEF q
<1>8. k \in S
  <2>1. \A i \in 0..k : i \in S
    <3> HIDE DEF S
    <3> QED BY <1>2, <1>6, <1>7, InductUpto
  <2> QED BY <1>2, <2>1
<1> DEFINE b == Begin(k)
           Has(i) == /\ b + Len(e) <= Len(f[i])
                     /\ \A j \in 1..Len(e) : f[i][b + j] = e[j]
           T == {i \in 0..(n - (k + 1)) : Has(k + 1 + i)}
<1>9. b \in Nat
  BY <1>2 DEF Begin
<1>10. Len(f[k]) = b /\ f[k] \in Seq(Bit) /\ f[k + 1] = f[k] \o e
  <2>1. k \in 0..n /\ (k + 1) - 1 = k
    BY <1>2
  <2>2. f[k + 1] = f[(k + 1) - 1] \o Encoded(rs[k + 1])
    BY <1>2, <1>5
  <2> QED BY <1>5, <1>8, <2>1, <2>2 DEF e
<1> HIDE DEF b, S
<1>11. 0 \in T
  <2> DEFINE a == f[k]
  <2>1. a \in Seq(Bit) /\ Len(a) = b /\ f[k + 1] = a \o e
    BY <1>10
  <2> HIDE DEF a
  <2>2. /\ Len(f[k + 1]) = b + Len(e)
        /\ \A i \in 1..(b + Len(e)) : f[k + 1][i] = IF i <= b THEN a[i] ELSE e[i - b]
    <3> DEFINE ae == a \o e
    <3>1. /\ Len(a \o e) = Len(a) + Len(e)
          /\ \A i \in 1..(Len(a) + Len(e)) : (a \o e)[i] = IF i <= Len(a) THEN a[i] ELSE e[i - Len(a)]
      BY <1>4, <2>1, ConcatProperties
    <3> QED BY <2>1, <3>1
  <2>3. ASSUME NEW j \in 1..Len(e) PROVE f[k + 1][b + j] = e[j]
    <3> DEFINE i == b + j
    <3>1. i \in 1..(b + Len(e)) /\ ~ (i <= b) /\ i - b = j
      BY <1>4, <1>9
    <3> HIDE DEF i
    <3>2. f[k + 1][i] = e[j]
      BY <2>2, <3>1
    <3> QED BY <3>2 DEF i
  <2>4. b + Len(e) <= Len(f[k + 1])
    BY <1>4, <1>9, <2>2
  <2>5. 0 \in 0..(n - (k + 1)) /\ k + 1 + 0 = k + 1
    BY <1>2
  <2> QED BY <2>3, <2>4, <2>5
<1>12. ASSUME NEW i \in 0..(n - (k + 1) - 1), i \in T PROVE i + 1 \in T
  <2> DEFINE p == k + 1 + i
             q == k + 1 + (i + 1)
             a == f[p]
             x == Encoded(rs[q])
  <2>1. p \in 0..n /\ q \in 1..n /\ q - 1 = p /\ i + 1 \in 0..(n - (k + 1))
    BY <1>2
  <2>2. Has(p)
    BY <1>12
  <2> HIDE DEF p, q
  <2>3. a \in Seq(Bit) /\ x \in Seq(Bit) /\ f[q] = a \o x
    BY <1>3, <1>5, <2>1, EncodedFacts
  <2>4. b + Len(e) <= Len(a) /\ \A j \in 1..Len(e) : a[b + j] = e[j]
    BY <2>2
  <2> HIDE DEF a, x
  <2>5. /\ Len(f[q]) = Len(a) + Len(x) /\ Len(a) \in Nat /\ Len(x) \in Nat
        /\ \A j \in 1..(Len(a) + Len(x)) : f[q][j] = IF j <= Len(a) THEN a[j] ELSE x[j - Len(a)]
    BY <2>3, ConcatProperties
  <2>6. b + Len(e) <= Len(f[q])
    BY <1>4, <1>9, <2>4, <2>5
  <2>7. ASSUME NEW j \in 1..Len(e) PROVE f[q][b + j] = e[j]
    <3> DEFINE z == b + j
    <3>1. z \in 1..(Len(a) + Len(x)) /\ z <= Len(a) /\ a[z] = e[j]
      <4>1. a[z] = e[j]
        BY <2>4, Zenon
      <4>2. Len(a) \in Nat /\ Len(x) \in Nat /\ b + Len(e) <= Len(a)
        BY <2>4, <2>5
      <4>3. z \in 1..Len(a)
        BY <1>4, <1>9, <4>2
      <4> HIDE DEF z
      <4> QED BY <4>1, <4>2, <4>3
    <3> HIDE DEF z
    <3>2. f[q][z] = e[j]
      BY <2>5, <3>1
    <3> QED BY <3>2 DEF z
  <2> QED BY <2>1, <2>6, <2>7 DEF q
<1>13. Has(n)
  <2> DEFINE m == n - (k + 1)
  <2>1. m \in Nat /\ m \in 0..m /\ k + 1 + m = n
    BY <1>2
  <2>2. \A i \in 0..m : i \in T
    <3> HIDE DEF T
    <3> QED BY <1>11, <1>12, <2>1, InductUpto
  <2>3. Has(k + 1 + m)
    BY <2>1, <2>2
  <2> HIDE DEF m, Has
  <2> QED BY <2>1, <2>3
<1> QED BY <1>5, <1>13 DEF b, e

-----------------------------------------------------------------------------
(* Reading bits.                                                           *)

LEMMA BitAtType ==
  ASSUME NEW s \in Stream, NEW place \in Nat, NEW beyond \in Bit
  PROVE  BitAt(s, place, beyond) \in Bit
<1> DEFINE o == place \div ByteBits + 1
           r == place % ByteBits
<1>1. o \in Nat \ {0} /\ r \in 0..(ByteBits - 1)
  BY PlaceOf DEF IsPlaceOf
<1>2. s.buffer \in Seq(Byte) /\ Len(s.buffer) \in Nat
  BY StreamFields
<1>3. BitAt(s, place, beyond) = IF o <= Len(s.buffer) THEN s.buffer[o][r] ELSE beyond
  BY DEF BitAt
<1> HIDE DEF o, r
<1>4. CASE o <= Len(s.buffer)
  <2>1. s.buffer[o] \in Byte
    BY <1>1, <1>2, <1>4
  <2> QED BY <1>1, <1>3, <1>4, <2>1 DEF Byte
<1>5. CASE ~ (o <= Len(s.buffer))
  BY <1>3, <1>5
<1> QED BY <1>4, <1>5

\* A result of reading n bits from a stream, of which the bytes from the k-th on
\* do not fit into what is left: the head stops at the capacity, what fits is
\* read, and what does not is zero.
HasRead(result, s, n, beyond, k) ==
  /\ result.stream = [s EXCEPT !.head = Least(s.head + n, s.capacity)]
  /\ result.bits \in Seq(Bit)
  /\ Len(result.bits) = n
  /\ s.head + n <= s.capacity =>
       \A j \in 1..n : result.bits[j] = BitAt(s, s.head + j - 1, beyond)
  /\ s.capacity < s.head + n /\ s.capacity < s.head + ByteBits * (k + 1) =>
       \A j \in 1..n : j > ByteBits * k => result.bits[j] = 0

\* Streams that may be read.
Readable == {s \in Stream : s.head <= s.capacity}

LEMMA HeadMoves ==
  ASSUME NEW s \in Readable, NEW n \in Nat
  PROVE  /\ [s EXCEPT !.head = Least(s.head + n, s.capacity)] \in Readable
         /\ [s EXCEPT !.head = Least(s.head + n, s.capacity)].head = Least(s.head + n, s.capacity)
         /\ [s EXCEPT !.head = Least(s.head + n, s.capacity)].capacity = s.capacity
         /\ [s EXCEPT !.head = Least(s.head + n, s.capacity)].buffer = s.buffer
<1> DEFINE h == Least(s.head + n, s.capacity)
<1>1. s \in Stream /\ s.head \in Nat /\ s.capacity \in Nat /\ s.head <= s.capacity
  BY StreamFields DEF Readable
<1>2. h \in Nat /\ h <= s.capacity
  BY <1>1 DEF Least
<1> HIDE DEF h
<1>3. /\ [s EXCEPT !.head = h] \in Stream
      /\ [s EXCEPT !.head = h].head = h
      /\ [s EXCEPT !.head = h].capacity = s.capacity
      /\ [s EXCEPT !.head = h].buffer = s.buffer
  BY <1>1, <1>2 DEF Stream
<1> QED BY <1>2, <1>3 DEF Readable, h

\* A result of reading the bits of one byte.
HasReadByte(result, s, w, beyond) ==
  /\ result.stream = [s EXCEPT !.head = Least(s.head + w, s.capacity)]
  /\ result.bits \in Seq(Bit)
  /\ Len(result.bits) = w
  /\ s.head + w <= s.capacity =>
       \A j \in 1..w : result.bits[j] = BitAt(s, s.head + j - 1, beyond)
  /\ s.capacity < s.head + w => \A j \in 1..w : result.bits[j] = 0

LEMMA ReadByteFacts ==
  ASSUME NEW s \in Readable, NEW w \in Nat, NEW beyond \in Bit
  PROVE  HasReadByte(ReadByte(s, w, beyond), s, w, beyond)
<1> DEFINE result == ReadByte(s, w, beyond)
           read == [i \in 1..w |-> BitAt(s, s.head + i - 1, beyond)]
           none == [i \in 1..w |-> 0]
<1>1. s \in Stream /\ s.head \in Nat /\ s.capacity \in Nat /\ s.head <= s.capacity
  BY StreamFields DEF Readable
<1>2. \A i \in 1..w : s.head + i - 1 \in Nat
  BY <1>1
<1>3. read \in Seq(Bit) /\ Len(read) = w
      /\ \A j \in 1..w : read[j] = BitAt(s, s.head + j - 1, beyond)
  <2>1. \A i \in 1..w : BitAt(s, s.head + i - 1, beyond) \in Bit
    BY <1>1, <1>2, BitAtType
  <2> QED BY <2>1
<1>4. none \in Seq(Bit) /\ Len(none) = w /\ \A j \in 1..w : none[j] = 0
  BY DEF Bit
<1>5. result = IF s.head + w > s.capacity
                 THEN [stream |-> [s EXCEPT !.head = s.capacity], bits |-> none]
                 ELSE [stream |-> [s EXCEPT !.head = @ + w], bits |-> read]
  BY DEF ReadByte
<1> HIDE DEF result, read, none
<1>6. CASE s.head + w > s.capacity
  <2>1. Least(s.head + w, s.capacity) = s.capacity /\ ~ (s.head + w <= s.capacity)
    BY <1>1, <1>6 DEF Least
  <2>2. result.stream = [s EXCEPT !.head = s.capacity] /\ result.bits = none
    BY <1>5, <1>6
  <2> QED BY <1>4, <2>1, <2>2 DEF result, HasReadByte
<1>7. CASE ~ (s.head + w > s.capacity)
  <2>1. Least(s.head + w, s.capacity) = s.head + w /\ ~ (s.capacity < s.head + w)
    BY <1>1, <1>7 DEF Least
  <2>2. result.stream = [s EXCEPT !.head = s.head + w] /\ result.bits = read
    BY <1>5, <1>7
  <2> QED BY <1>3, <2>1, <2>2 DEF result, HasReadByte
<1> QED BY <1>6, <1>7

\* The bits before the i-th byte's end, and the bits of that byte.
CutAt(n, i) == Least(ByteBits * i, n)
Width(n, i) == Least(ByteBits, n - ByteBits * (i - 1))

LEMMA CutFacts ==
  ASSUME NEW n \in Nat, NEW i \in 1..BytesFor(n)
  PROVE  /\ i \in Nat /\ i - 1 \in Nat
         /\ ByteBits * (i - 1) \in Nat
         /\ CutAt(n, i - 1) = ByteBits * (i - 1)
         /\ Width(n, i) \in 1..ByteBits
         /\ CutAt(n, i) = ByteBits * (i - 1) + Width(n, i)
         /\ CutAt(n, i) <= n
<1> DEFINE low == ByteBits * (i - 1)
<1>1. ByteBits \in Nat \ {0} /\ BytesFor(n) \in Nat
  BY ByteAssumption, BytesForFacts
<1>2. i \in Nat \ {0} /\ i - 1 \in Nat /\ (i - 1) + 1 = i
  BY <1>1
<1>3. low < n
  BY BytesForFacts
<1>4. low \in Nat /\ ByteBits * i = low + ByteBits
  BY <1>1, <1>2, NextMultiple
<1>5. /\ CutAt(n, i) = Least(low + ByteBits, n)
      /\ CutAt(n, i - 1) = Least(low, n)
      /\ Width(n, i) = Least(ByteBits, n - low)
  BY <1>4 DEF CutAt, Width
<1> HIDE DEF low
<1>6. CutAt(n, i - 1) = low
  BY <1>3, <1>4, <1>5 DEF Least
<1>7. Width(n, i) \in 1..ByteBits /\ CutAt(n, i) = low + Width(n, i) /\ CutAt(n, i) <= n
  BY <1>1, <1>3, <1>4, <1>5 DEF Least
<1> QED BY <1>2, <1>4, <1>6, <1>7 DEF low

\* One round of the loop that reads bytes.
ReadRound(x, n, i, beyond) ==
  LET byte == ReadByte(x.stream, Width(n, i), beyond) IN
  [stream |-> byte.stream, bits |-> x.bits \o byte.bits]

ReadState == [stream : Readable, bits : Seq(Bit)]

LEMMA ReadRoundType ==
  ASSUME NEW x \in ReadState, NEW n \in Nat, NEW i \in 1..BytesFor(n), NEW beyond \in Bit
  PROVE  ReadRound(x, n, i, beyond) \in ReadState
<1> DEFINE s == x.stream
           w == Width(n, i)
           byte == ReadByte(s, w, beyond)
<1>1. s \in Readable /\ x.bits \in Seq(Bit)
  BY DEF ReadState
<1>2. w \in Nat
  BY CutFacts
<1>3. ReadRound(x, n, i, beyond) = [stream |-> byte.stream, bits |-> x.bits \o byte.bits]
  BY DEF ReadRound
<1> HIDE DEF s, w
<1>4. byte.stream = [s EXCEPT !.head = Least(s.head + w, s.capacity)] /\ byte.bits \in Seq(Bit)
  BY <1>1, <1>2, ReadByteFacts DEF HasReadByte
<1> HIDE DEF byte
<1>5. byte.stream \in Readable
  BY <1>1, <1>2, <1>4, HeadMoves
<1>6. x.bits \o byte.bits \in Seq(Bit)
  BY <1>1, <1>4, ConcatProperties
<1> QED BY <1>3, <1>5, <1>6 DEF ReadState

LEMMA HeadMovesTwice ==
  ASSUME NEW s \in Readable, NEW a \in Nat, NEW b \in Nat
  PROVE  [[s EXCEPT !.head = a] EXCEPT !.head = b] = [s EXCEPT !.head = b]
<1>1. s \in Stream
  BY DEF Readable
<1>2. s = [head |-> s.head, capacity |-> s.capacity, buffer |-> s.buffer]
  BY <1>1 DEF Stream
<1> DEFINE t == [s EXCEPT !.head = a]
<1>3. t = [head |-> a, capacity |-> s.capacity, buffer |-> s.buffer]
  BY <1>2
<1> HIDE DEF t
<1>4. [t EXCEPT !.head = b] = [head |-> b, capacity |-> s.capacity, buffer |-> s.buffer]
  BY <1>3
<1>5. [s EXCEPT !.head = b] = [head |-> b, capacity |-> s.capacity, buffer |-> s.buffer]
  BY <1>2
<1> QED BY <1>4, <1>5 DEF t

LEMMA ReadRoundReads ==
  ASSUME NEW s \in Readable, NEW n \in Nat, NEW i \in 1..BytesFor(n), NEW k \in Nat,
         NEW beyond \in Bit, NEW x, HasRead(x, s, CutAt(n, i - 1), beyond, k)
  PROVE  HasRead(ReadRound(x, n, i, beyond), s, CutAt(n, i), beyond, k)
<1> DEFINE low == CutAt(n, i - 1)
           w == Width(n, i)
           cut == CutAt(n, i)
           t == x.stream
           byte == ReadByte(t, w, beyond)
           both == x.bits \o byte.bits
           new == ReadRound(x, n, i, beyond)
<1>1. /\ ByteBits \in Nat \ {0} /\ i \in Nat /\ i - 1 \in Nat /\ low = ByteBits * (i - 1) /\ low \in Nat
      /\ w \in 1..ByteBits /\ w \in Nat /\ cut = low + w /\ cut \in Nat
  <2>1. /\ i \in Nat /\ i - 1 \in Nat /\ low = ByteBits * (i - 1) /\ ByteBits * (i - 1) \in Nat
        /\ w \in 1..ByteBits /\ cut = ByteBits * (i - 1) + w
    BY CutFacts
  <2> HIDE DEF low, w, cut
  <2> QED BY <2>1, ByteAssumption
<1>2. new.stream = byte.stream /\ new.bits = both
  BY DEF ReadRound
<1> HIDE DEF new, low, w, cut
<1>3. s \in Stream /\ s.head \in Nat /\ s.capacity \in Nat /\ s.head <= s.capacity
  BY StreamFields DEF Readable
<1>4. /\ t = [s EXCEPT !.head = Least(s.head + low, s.capacity)]
      /\ x.bits \in Seq(Bit) /\ Len(x.bits) = low
      /\ s.head + low <= s.capacity =>
           \A j \in 1..low : x.bits[j] = BitAt(s, s.head + j - 1, beyond)
      /\ s.capacity < s.head + low /\ s.capacity < s.head + ByteBits * (k + 1) =>
           \A j \in 1..low : j > ByteBits * k => x.bits[j] = 0
  BY DEF HasRead, low
<1>5. /\ t \in Readable /\ t.head = Least(s.head + low, s.capacity)
      /\ t.capacity = s.capacity /\ t.buffer = s.buffer
  <2> DEFINE moved == [s EXCEPT !.head = Least(s.head + low, s.capacity)]
  <2>1. /\ moved \in Readable /\ moved.head = Least(s.head + low, s.capacity)
        /\ moved.capacity = s.capacity /\ moved.buffer = s.buffer
    BY <1>1, HeadMoves
  <2> HIDE DEF moved
  <2>2. t = moved
    BY <1>4 DEF moved
  <2> HIDE DEF t
  <2> QED BY <2>1, <2>2
<1> HIDE DEF t
<1>6. /\ byte.stream = [t EXCEPT !.head = Least(t.head + w, t.capacity)]
      /\ byte.bits \in Seq(Bit)
      /\ Len(byte.bits) = w
      /\ t.head + w <= t.capacity =>
           \A j \in 1..w : byte.bits[j] = BitAt(t, t.head + j - 1, beyond)
      /\ t.capacity < t.head + w => \A j \in 1..w : byte.bits[j] = 0
  <2>1. HasReadByte(byte, t, w, beyond)
    BY <1>1, <1>5, ReadByteFacts
  <2> HIDE DEF byte
  <2> QED BY <2>1 DEF HasReadByte
<1> HIDE DEF byte
<1>7. byte.stream = [s EXCEPT !.head = Least(s.head + cut, s.capacity)]
  <2> DEFINE a == Least(s.head + low, s.capacity)
             b == Least(s.head + cut, s.capacity)
  <2>1. a \in Nat /\ b \in Nat /\ Least(a + w, s.capacity) = b
    BY <1>1, <1>3 DEF Least
  <2>2. t = [s EXCEPT !.head = a] /\ byte.stream = [t EXCEPT !.head = b]
    BY <1>4, <1>5, <1>6, <2>1
  <2> HIDE DEF a, b
  <2>3. byte.stream = [s EXCEPT !.head = b]
    BY <2>1, <2>2, HeadMovesTwice
  <2> QED BY <2>3 DEF b
<1>8. /\ both \in Seq(Bit) /\ Len(both) = cut
      /\ \A j \in 1..cut : both[j] = IF j <= low THEN x.bits[j] ELSE byte.bits[j - low]
  <2> DEFINE p == x.bits
             q == byte.bits
             pq == p \o q
  <2>1. p \in Seq(Bit) /\ q \in Seq(Bit) /\ Len(p) = low /\ Len(q) = w /\ both = pq
    BY <1>4, <1>6
  <2> HIDE DEF p, q, both
  <2>2. /\ pq \in Seq(Bit) /\ Len(pq) = Len(p) + Len(q)
        /\ \A j \in 1..(Len(p) + Len(q)) : pq[j] = IF j <= Len(p) THEN p[j] ELSE q[j - Len(p)]
    BY <2>1, ConcatProperties
  <2> HIDE DEF pq
  <2> QED BY <1>1, <2>1, <2>2 DEF p, q
<1> HIDE DEF both
<1>9. ASSUME s.head + cut <= s.capacity, NEW j \in 1..cut
      PROVE  both[j] = BitAt(s, s.head + j - 1, beyond)
  <2>1. s.head + low <= s.capacity /\ t.head = s.head + low /\ t.head + w <= t.capacity
    BY <1>1, <1>3, <1>5, <1>9 DEF Least
  <2>2. CASE j <= low
    <3>1. j \in 1..low
      BY <1>1, <2>2
    <3> QED BY <1>4, <1>8, <2>1, <2>2, <3>1
  <2>3. CASE ~ (j <= low)
    <3> DEFINE m == j - low
    <3>1. m \in 1..w /\ t.head + m - 1 = s.head + j - 1
      BY <1>1, <1>3, <2>1, <2>3
    <3>2. both[j] = byte.bits[m]
      BY <1>8, <2>3
    <3> HIDE DEF m
    <3>3. byte.bits[m] = BitAt(t, t.head + m - 1, beyond)
      BY <1>6, <2>1, <3>1
    <3>4. BitAt(t, t.head + m - 1, beyond) = BitAt(s, s.head + j - 1, beyond)
      BY <1>5, <3>1 DEF BitAt
    <3> QED BY <3>2, <3>3, <3>4
  <2> QED BY <2>2, <2>3
<1>10. ASSUME s.capacity < s.head + cut, s.capacity < s.head + ByteBits * (k + 1),
              NEW j \in 1..cut, j > ByteBits * k
       PROVE  both[j] = 0
  <2>1. CASE j <= low
    <3>1. j \in 1..low
      BY <1>1, <2>1
    <3>2. ByteBits * (k + 1) <= low
      <4>1. k < i - 1
        <5>1. ByteBits * k + 0 < ByteBits * (i - 1)
          <6>1. ByteBits * k \in Nat
            BY <1>1
          <6> QED BY <1>1, <1>10, <2>1, <6>1
        <5> QED BY <1>1, <5>1, Cancel
      <4> DEFINE c == k + 1
      <4>2. c \in Nat /\ c <= i - 1
        BY <1>1, <4>1
      <4> HIDE DEF c
      <4>3. ByteBits * c <= ByteBits * (i - 1)
        BY <1>1, <4>2, Monotone
      <4> QED BY <1>1, <4>3 DEF c
    <3>3. s.capacity < s.head + low
      <4>1. ByteBits * (k + 1) \in Nat
        BY <1>1
      <4> QED BY <1>1, <1>3, <1>10, <3>2, <4>1
    <3>4. x.bits[j] = 0
      BY <1>4, <1>10, <3>1, <3>3
    <3> QED BY <1>8, <2>1, <3>4
  <2>2. CASE ~ (j <= low)
    <3> DEFINE m == j - low
    <3>1. m \in 1..w
      BY <1>1, <2>2
    <3>2. both[j] = byte.bits[m]
      BY <1>8, <2>2
    <3> HIDE DEF m
    <3>3. t.capacity < t.head + w
      BY <1>1, <1>3, <1>5, <1>10 DEF Least
    <3>4. byte.bits[m] = 0
      BY <1>6, <3>1, <3>3
    <3> QED BY <3>2, <3>4
  <2> QED BY <2>1, <2>2
<1>11. HasRead(new, s, cut, beyond, k)
  BY <1>2, <1>7, <1>8, <1>9, <1>10 DEF HasRead
<1> QED BY <1>11 DEF new, cut

LEMMA ReadBitsFacts ==
  ASSUME NEW s \in Readable, NEW n \in Nat, NEW k \in Nat, NEW beyond \in Bit
  PROVE  HasRead(ReadBits(s, n, beyond), s, n, beyond, k)
<1> DEFINE m == BytesFor(n)
           begin == [stream |-> s, bits |-> << >>]
           round == [i \in 1..m |-> [x \in ReadState |-> ReadRound(x, n, i, beyond)]]
           after[i \in 0..m] ==
             IF i = 0 THEN begin
             ELSE LET before == after[i - 1]
                      byte == ReadByte(before.stream,
                                Least(ByteBits, n - ByteBits * (i - 1)), beyond) IN
                  [stream |-> byte.stream, bits |-> before.bits \o byte.bits]
<1>1. m \in Nat
  BY BytesForFacts
<1>2. \A i \in 1..m, x \in ReadState : ReadRound(x, n, i, beyond) \in ReadState
  BY ReadRoundType
<1>3. round \in [1..m -> [ReadState -> ReadState]]
  BY <1>2
<1>4. \A i \in 1..m, x \in ReadState : round[i][x] = ReadRound(x, n, i, beyond)
  OBVIOUS
<1>5. begin \in ReadState
  BY DEF ReadState
<1> HIDE DEF round
<1>6. PICK f : IsLoop(f, m, ReadState, begin, round)
  <2>1. round \in Rounds(m, ReadState)
    BY <1>3 DEF Rounds
  <2> HIDE DEF m, begin
  <2> QED BY <1>1, <1>5, <2>1, LoopExists
<1>7. f = [i \in 0..m |-> IF i = 0 THEN begin ELSE ReadRound(f[i - 1], n, i, beyond)]
  <2> HIDE DEF m, begin
  <2>1. \A i \in 0..m : i = 0 \/ (i \in 1..m /\ i - 1 \in 0..m)
    BY <1>1
  <2>2. \A i \in 0..m : f[i] = IF i = 0 THEN begin ELSE ReadRound(f[i - 1], n, i, beyond)
    BY <1>4, <1>6, <2>1 DEF IsLoop
  <2> QED BY <1>6, <2>2 DEF IsLoop
<1>8. after = [i \in 0..m |-> IF i = 0 THEN begin ELSE ReadRound(after[i - 1], n, i, beyond)]
  BY <1>7 DEF ReadRound, Width
<1>9. ReadBits(s, n, beyond) = after[m]
  BY DEF ReadBits
<1> HIDE DEF after
<1> DEFINE T == {i \in 0..m : HasRead(after[i], s, CutAt(n, i), beyond, k)}
<1>10. 0 \in T
  <2>1. CutAt(n, 0) = 0
    <3>1. ByteBits * 0 = 0
      BY ByteAssumption
    <3> QED BY <3>1 DEF CutAt, Least
  <2>2. 0 \in 0..m
    BY <1>1
  <2>3. after[0] = begin
    <3> HIDE DEF m, begin
    <3> QED BY <1>8, <2>2
  <2>4. [s EXCEPT !.head = Least(s.head + 0, s.capacity)] = s
    <3>1. s \in Stream /\ s.head \in Nat /\ s.capacity \in Nat /\ s.head <= s.capacity
      BY StreamFields DEF Readable
    <3>2. Least(s.head + 0, s.capacity) = s.head
      BY <3>1 DEF Least
    <3>3. [s EXCEPT !.head = s.head] = s
      BY <3>1 DEF Stream
    <3> QED BY <3>2, <3>3
  <2>5. HasRead(begin, s, 0, beyond, k)
    BY <2>4 DEF HasRead
  <2> HIDE DEF begin
  <2> QED BY <2>1, <2>2, <2>3, <2>5
<1>11. ASSUME NEW i \in 0..(m - 1), i \in T PROVE i + 1 \in T
  <2> DEFINE j == i + 1
  <2>1. j \in 1..m /\ j \in 0..m /\ j - 1 = i /\ j # 0
    BY <1>1
  <2> HIDE DEF j
  <2>2. after[j] = ReadRound(after[i], n, j, beyond)
    <3> HIDE DEF m, begin
    <3> QED BY <1>8, <2>1
  <2>3. HasRead(after[i], s, CutAt(n, j - 1), beyond, k)
    BY <1>11, <2>1
  <2>4. HasRead(after[j], s, CutAt(n, j), beyond, k)
    BY <2>1, <2>2, <2>3, ReadRoundReads
  <2> QED BY <2>1, <2>4 DEF j
<1>12. m \in T
  <2>1. \A i \in 0..m : i \in T
    <3> HIDE DEF T, m
    <3> QED BY <1>1, <1>10, <1>11, InductUpto
  <2>2. m \in 0..m
    BY <1>1
  <2> QED BY <2>1, <2>2
<1>13. CutAt(n, m) = n
  <2>1. n <= ByteBits * m /\ ByteBits * m \in Nat
    <3>1. n <= ByteBits * m
      BY BytesForFacts
    <3> HIDE DEF m
    <3> QED BY <1>1, <3>1, ByteAssumption
  <2> HIDE DEF m
  <2> QED BY <2>1 DEF CutAt, Least
<1> HIDE DEF m
<1> QED BY <1>9, <1>12, <1>13

-----------------------------------------------------------------------------
(* Reading ranges.                                                         *)

\* What is left of a stream.
Rest(s) == s.capacity - s.head

\* A stream whose head moved by n bits, or to the capacity.
Moved(t, s, n) == t = [s EXCEPT !.head = Least(s.head + n, s.capacity)]

\* What reading a range promises of any stream: the range is one, the head moves
\* by the bits asked for and stops at the capacity, and a start that does not fit
\* has only the whole bytes that do and no count.
HasReadRange(result, s) ==
  /\ result.range \in AckRange
  /\ result.asked \in Nat
  /\ Moved(result.stream, s, result.asked)
  /\ Rest(s) < SequenceBits =>
       /\ result.range.mStart < Pow2[ByteBits * (Rest(s) \div ByteBits)]
       /\ result.range.mCount = 1

LEMMA FromBitsNumber ==
  ASSUME NEW bits \in Seq(Bit), Len(bits) = SequenceBits
  PROVE  FromBits(bits) \in SequenceNumber
<1>1. SequenceBits \in Nat /\ \A i \in 1..Len(bits) : i > SequenceBits => bits[i] = 0
  BY SequenceNumbers
<1>2. FromBits(bits) \in Nat /\ FromBits(bits) < Pow2[SequenceBits]
  BY <1>1, FromBitsBelow
<1> QED BY <1>2, SequenceNumbers DEF SequenceNumber

\* Reading on from where a read has ended.
LEMMA MovedFacts ==
  ASSUME NEW s \in Readable, NEW n \in Nat, NEW t, Moved(t, s, n)
  PROVE  /\ t \in Readable
         /\ t.head = Least(s.head + n, s.capacity)
         /\ t.capacity = s.capacity
         /\ t.buffer = s.buffer
<1> DEFINE moved == [s EXCEPT !.head = Least(s.head + n, s.capacity)]
<1>1. /\ moved \in Readable /\ moved.head = Least(s.head + n, s.capacity)
      /\ moved.capacity = s.capacity /\ moved.buffer = s.buffer
  BY HeadMoves
<1>2. t = moved
  BY DEF Moved
<1> HIDE DEF moved
<1> QED BY <1>1, <1>2

LEMMA MovedOn ==
  ASSUME NEW s \in Readable, NEW a \in Nat, NEW b \in Nat,
         NEW t, Moved(t, s, a), NEW u, Moved(u, t, b)
  PROVE  Moved(u, s, a + b)
<1> DEFINE c == Least(s.head + a, s.capacity)
           d == Least(s.head + (a + b), s.capacity)
<1>1. s.head \in Nat /\ s.capacity \in Nat /\ s.head <= s.capacity
  BY StreamFields DEF Readable
<1>2. c \in Nat /\ d \in Nat /\ Least(c + b, s.capacity) = d
  BY <1>1 DEF Least
<1>3. t.head = c /\ t.capacity = s.capacity
  BY MovedFacts
<1>4. t = [s EXCEPT !.head = c] /\ u = [t EXCEPT !.head = d]
  BY <1>2, <1>3 DEF Moved
<1> HIDE DEF c, d
<1>5. u = [s EXCEPT !.head = d]
  BY <1>2, <1>4, HeadMovesTwice
<1> QED BY <1>5 DEF Moved, d

LEMMA ReadBitStreamReads ==
  ASSUME NEW s \in Readable, NEW beyond \in Bit
  PROVE  HasReadRange(ReadBitStream(s, beyond), s)
<1> DEFINE start == ReadBits(s, SequenceBits, beyond)
           t == start.stream
           hasCount == ReadByte(t, 1, beyond)
           u == hasCount.stream
           count == ReadBits(u, SequenceBits, beyond)
           v == count.stream
           result == ReadBitStream(s, beyond)
           k == Rest(s) \div ByteBits
<1>1. /\ SequenceBits \in Nat \ {0} /\ SequenceBits \in Nat /\ 1 \in Nat
      /\ s.head \in Nat /\ s.capacity \in Nat /\ s.head <= s.capacity
      /\ Rest(s) \in Nat
  BY StreamFields, SequenceNumbers DEF Readable, Rest
<1>2. k \in Nat /\ Rest(s) < ByteBits * (k + 1)
  <2> DEFINE a == Rest(s)
             q == Quotient(a, ByteBits)
             r == Remainder(a, ByteBits)
  <2>1. ByteBits \in Nat \ {0} /\ a \in Nat
    BY <1>1, ByteAssumption
  <2>2. k = q
    BY DEF Quotient
  <2> HIDE DEF a, k
  <2>3. q \in Nat /\ r \in 0..(ByteBits - 1) /\ a = ByteBits * q + r
    BY <2>1, DivMod
  <2> HIDE DEF q, r
  <2>4. ByteBits * (q + 1) = ByteBits * q + ByteBits /\ ByteBits * q \in Nat
    BY <2>1, <2>3, NextMultiple
  <2> QED BY <2>1, <2>2, <2>3, <2>4 DEF a
<1> HIDE DEF k
<1>3. HasRead(start, s, SequenceBits, beyond, k)
  BY <1>1, <1>2, ReadBitsFacts
<1> HIDE DEF start
<1>4. /\ Moved(t, s, SequenceBits)
      /\ start.bits \in Seq(Bit) /\ Len(start.bits) = SequenceBits
      /\ s.capacity < s.head + SequenceBits /\ s.capacity < s.head + ByteBits * (k + 1) =>
           \A j \in 1..SequenceBits : j > ByteBits * k => start.bits[j] = 0
  BY <1>3 DEF HasRead, Moved
<1> HIDE DEF t
<1>5. t \in Readable /\ t.head = Least(s.head + SequenceBits, s.capacity)
      /\ t.capacity = s.capacity /\ t.buffer = s.buffer
  BY <1>1, <1>4, MovedFacts
<1>6. HasReadByte(hasCount, t, 1, beyond)
  BY <1>1, <1>5, ReadByteFacts
<1> HIDE DEF hasCount
<1>7. /\ Moved(u, t, 1)
      /\ hasCount.bits \in Seq(Bit) /\ Len(hasCount.bits) = 1
      /\ t.capacity < t.head + 1 => \A j \in 1..1 : hasCount.bits[j] = 0
  BY <1>6 DEF HasReadByte, Moved
<1> HIDE DEF u
<1>8. u \in Readable /\ Moved(u, s, SequenceBits + 1)
  BY <1>1, <1>4, <1>5, <1>7, MovedFacts, MovedOn
<1>9. HasRead(count, u, SequenceBits, beyond, k)
  BY <1>1, <1>2, <1>8, ReadBitsFacts
<1> HIDE DEF count
<1>10. /\ Moved(v, u, SequenceBits)
       /\ count.bits \in Seq(Bit) /\ Len(count.bits) = SequenceBits
  BY <1>9 DEF HasRead, Moved
<1> HIDE DEF v
<1>11. Moved(v, s, (SequenceBits + 1) + SequenceBits)
  <2> DEFINE n == SequenceBits + 1
  <2>1. n \in Nat
    BY <1>1
  <2>2. Moved(u, s, n)
    BY <1>8
  <2> HIDE DEF n
  <2>3. Moved(v, s, n + SequenceBits)
    BY <1>1, <1>10, <2>1, <2>2, MovedOn
  <2> QED BY <2>3 DEF n
<1>12. FromBits(start.bits) \in SequenceNumber /\ FromBits(count.bits) \in SequenceNumber
  BY <1>4, <1>10, FromBitsNumber
<1>13. result = IF hasCount.bits = <<1>>
         THEN [range |-> [mStart |-> FromBits(start.bits), mCount |-> FromBits(count.bits)],
               stream |-> v, asked |-> 2 * SequenceBits + 1]
         ELSE [range |-> [mStart |-> FromBits(start.bits), mCount |-> 1],
               stream |-> u, asked |-> SequenceBits + 1]
  BY DEF ReadBitStream, start, t, hasCount, u, count, v
<1> HIDE DEF result
<1>14. Rest(s) < SequenceBits =>
         FromBits(start.bits) < Pow2[ByteBits * k] /\ hasCount.bits # <<1>>
  <2>1. SUFFICES ASSUME Rest(s) < SequenceBits
                 PROVE  FromBits(start.bits) < Pow2[ByteBits * k] /\ hasCount.bits # <<1>>
    OBVIOUS
  <2>2. s.capacity < s.head + SequenceBits /\ s.capacity < s.head + ByteBits * (k + 1)
    <3>1. ByteBits * (k + 1) \in Nat
      BY <1>2, ByteAssumption
    <3> QED BY <1>1, <1>2, <2>1, <3>1 DEF Rest
  <2>3. FromBits(start.bits) < Pow2[ByteBits * k]
    <3> DEFINE b == start.bits
               n == ByteBits * k
    <3>1. n \in Nat
      BY <1>2, ByteAssumption
    <3>2. b \in Seq(Bit) /\ \A j \in 1..Len(b) : j > n => b[j] = 0
      BY <1>4, <2>2
    <3> HIDE DEF b, n
    <3>3. FromBits(b) < Pow2[n]
      BY <3>1, <3>2, FromBitsBelow
    <3> QED BY <3>3 DEF b, n
  <2>4. hasCount.bits[1] = 0
    <3>1. t.head = s.capacity
      BY <1>1, <1>5, <2>2 DEF Least
    <3>2. t.capacity < t.head + 1 /\ 1 \in 1..1
      BY <1>1, <1>5, <3>1
    <3> QED BY <1>7, <3>2
  <2> QED BY <2>3, <2>4
<1>15. 1 \in SequenceNumber
  BY SequenceNumbers DEF SequenceNumber
<1>16. CASE hasCount.bits = <<1>>
  <2>1. 2 * SequenceBits + 1 = (SequenceBits + 1) + SequenceBits /\ 2 * SequenceBits + 1 \in Nat
    BY <1>1
  <2>2. /\ result.range = [mStart |-> FromBits(start.bits), mCount |-> FromBits(count.bits)]
        /\ result.stream = v /\ result.asked = 2 * SequenceBits + 1
    BY <1>13, <1>16
  <2>3. result.range \in AckRange
    BY <1>12, <2>2 DEF AckRange
  <2>4. ~ (Rest(s) < SequenceBits)
    BY <1>14, <1>16
  <2> QED BY <1>11, <2>1, <2>2, <2>3, <2>4 DEF HasReadRange, result
<1>17. CASE hasCount.bits # <<1>>
  <2>1. /\ result.range = [mStart |-> FromBits(start.bits), mCount |-> 1]
        /\ result.stream = u /\ result.asked = SequenceBits + 1 /\ SequenceBits + 1 \in Nat
    BY <1>1, <1>13, <1>17
  <2>2. result.range \in AckRange
    BY <1>12, <1>15, <2>1 DEF AckRange
  <2>3. result.range.mStart = FromBits(start.bits) /\ result.range.mCount = 1
    BY <2>1
  <2> QED BY <1>8, <1>14, <2>1, <2>2, <2>3 DEF HasReadRange, result, k
<1> QED BY <1>16, <1>17

\* The start and the flag of a range stand at the head of a stream.
Stands(s, r, beyond) ==
  /\ s.head + (SequenceBits + 1) <= s.capacity
  /\ \A j \in 1..(SequenceBits + 1) : BitAt(s, s.head + j - 1, beyond) = Encoded(r)[j]

\* A range of which they do gets its start back, and one number if it had one.
LEMMA ReadBitStreamGives ==
  ASSUME NEW s \in Readable, NEW beyond \in Bit, NEW r \in AckRange, Stands(s, r, beyond)
  PROVE  /\ ReadBitStream(s, beyond).range.mStart = r.mStart
         /\ IsShort(r) => /\ ReadBitStream(s, beyond).range.mCount = 1
                          /\ ReadBitStream(s, beyond).asked = SequenceBits + 1
<1> DEFINE start == ReadBits(s, SequenceBits, beyond)
           t == start.stream
           hasCount == ReadByte(t, 1, beyond)
           u == hasCount.stream
           count == ReadBits(u, SequenceBits, beyond)
           result == ReadBitStream(s, beyond)
           e == Encoded(r)
           L == SequenceBits + 1
<1>1. /\ SequenceBits \in Nat \ {0} /\ SequenceBits \in Nat /\ 1 \in Nat /\ 0 \in Nat
      /\ IntBits \in Nat /\ IntBits > SequenceBits
      /\ s.head \in Nat /\ s.capacity \in Nat
      /\ r.mStart \in Nat /\ r.mStart < Pow2[SequenceBits]
      /\ r.mCount \in Nat /\ r.mCount < Pow2[SequenceBits]
  BY StreamFields, SequenceNumbers, RangeFields DEF Readable
<1>2. /\ \A j \in 1..SequenceBits : e[j] = ToBits(r.mStart, SequenceBits)[j]
      /\ e[SequenceBits + 1] = IF r.mCount > 1 THEN 1 ELSE 0
  BY EncodedFacts
<1>3. /\ s.head + L <= s.capacity
      /\ \A j \in 1..L : BitAt(s, s.head + j - 1, beyond) = e[j]
  BY DEF Stands
<1> HIDE DEF e
<1>4. HasRead(start, s, SequenceBits, beyond, 0)
  BY <1>1, ReadBitsFacts
<1> HIDE DEF start
<1>5. /\ Moved(t, s, SequenceBits)
      /\ start.bits \in Seq(Bit) /\ Len(start.bits) = SequenceBits
      /\ s.head + SequenceBits <= s.capacity =>
           \A j \in 1..SequenceBits : start.bits[j] = BitAt(s, s.head + j - 1, beyond)
  BY <1>4 DEF HasRead, Moved
<1> HIDE DEF t
<1>6. t \in Readable /\ t.head = Least(s.head + SequenceBits, s.capacity)
      /\ t.capacity = s.capacity /\ t.buffer = s.buffer
  BY <1>1, <1>5, MovedFacts
<1>7. L \in Nat /\ L >= SequenceBits + 1
  BY <1>1
<1> HIDE DEF L
<1>8. t.head = s.head + SequenceBits
  BY <1>1, <1>3, <1>6, <1>7 DEF Least
<1>9. HasReadByte(hasCount, t, 1, beyond)
  BY <1>1, <1>6, ReadByteFacts
<1> HIDE DEF hasCount
<1>10. /\ Moved(u, t, 1)
       /\ hasCount.bits \in Seq(Bit) /\ Len(hasCount.bits) = 1
       /\ t.head + 1 <= t.capacity =>
            \A j \in 1..1 : hasCount.bits[j] = BitAt(t, t.head + j - 1, beyond)
  BY <1>9 DEF HasReadByte, Moved
<1> HIDE DEF u
<1>11. FromBits(start.bits) = r.mStart
  <2> DEFINE a == start.bits
             b == ToBits(r.mStart, SequenceBits)
  <2>1. a \in Seq(Bit) /\ Len(a) = SequenceBits
    BY <1>5
  <2>2. b \in Seq(Bit) /\ Len(b) = SequenceBits
    BY <1>1, ToBitsType
  <2>3. ASSUME NEW j \in 1..SequenceBits PROVE a[j] = b[j]
    <3>1. j \in 1..L /\ s.head + SequenceBits <= s.capacity
      BY <1>1, <1>3, <1>7
    <3>2. a[j] = BitAt(s, s.head + j - 1, beyond)
      BY <1>5, <3>1
    <3>3. BitAt(s, s.head + j - 1, beyond) = e[j] /\ e[j] = b[j]
      BY <1>2, <1>3, <3>1
    <3> QED BY <3>2, <3>3
  <2> HIDE DEF a, b
  <2>4. a = b
    BY <2>1, <2>2, <2>3, SeqEqual
  <2>5. FromBits(b) = r.mStart
    BY <1>1, FromToBits DEF b
  <2> QED BY <2>4, <2>5 DEF a
<1>12. hasCount.bits[1] = IF r.mCount > 1 THEN 1 ELSE 0
  <2>1. t.head + 1 <= t.capacity /\ 1 \in 1..1 /\ t.head + 1 - 1 = s.head + (SequenceBits + 1) - 1
    BY <1>1, <1>3, <1>6, <1>7, <1>8
  <2>2. hasCount.bits[1] = BitAt(t, t.head + 1 - 1, beyond)
    BY <1>10, <2>1
  <2>3. BitAt(t, t.head + 1 - 1, beyond) = BitAt(s, s.head + (SequenceBits + 1) - 1, beyond)
    BY <1>6, <2>1 DEF BitAt
  <2> DEFINE j == SequenceBits + 1
  <2>4. j \in 1..L
    BY <1>1, <1>7
  <2> HIDE DEF j
  <2>5. BitAt(s, s.head + j - 1, beyond) = e[j]
    BY <1>3, <2>4
  <2> QED BY <1>2, <2>2, <2>3, <2>5 DEF j
<1>13. result = IF hasCount.bits = <<1>>
         THEN [range |-> [mStart |-> FromBits(start.bits), mCount |-> FromBits(count.bits)],
               stream |-> count.stream, asked |-> 2 * SequenceBits + 1]
         ELSE [range |-> [mStart |-> FromBits(start.bits), mCount |-> 1],
               stream |-> u, asked |-> SequenceBits + 1]
  BY DEF ReadBitStream, start, t, hasCount, u, count
<1> HIDE DEF result, count
<1>14. result.range.mStart = r.mStart
  BY <1>11, <1>13
<1>15. ASSUME IsShort(r) PROVE result.range.mCount = 1 /\ result.asked = SequenceBits + 1
  <2>1. ~ (r.mCount > 1)
    BY <1>1, <1>15 DEF IsShort
  <2>2. hasCount.bits # <<1>>
    BY <1>12, <2>1
  <2> QED BY <1>13, <2>2
<1> QED BY <1>14, <1>15 DEF result

\* A stream to read that has the first bytes of what was written.
IsPart(s, o) ==
  /\ Len(s.buffer) <= BytesFor(o.head)
  /\ \A q \in 1..Len(s.buffer) : s.buffer[q] = o.buffer[q]

\* If the stream holds that much of the bytes written, the start and flag of the
\* range that comes next are at its head, as long as those before it were short.
LEMMA PartStands ==
  ASSUME NEW o \in Stream, NEW rs \in Seq(AckRange), Holds(o, Flatten(rs)),
         NEW s \in Stream, IsPart(s, o),
         NEW k \in 0..(Len(rs) - 1), \A i \in 1..k : IsShort(rs[i]),
         s.head = Least(Begin(k), s.capacity), NEW beyond \in Bit,
         (k + 1) * (SequenceBits + 1) <= Held(s)
  PROVE  Stands(s, rs[k + 1], beyond)
<1> DEFINE bits == Flatten(rs)
           n == BytesFor(o.head)
           e == Encoded(rs[k + 1])
           b == Begin(k)
<1>1. /\ o.head \in Nat /\ o.capacity \in Nat /\ o.buffer \in Seq(Byte) /\ Len(o.buffer) \in Nat
      /\ o.head = Len(bits) /\ o.head <= o.capacity
      /\ Len(o.buffer) = BytesFor(o.capacity) /\ Cells(o.buffer, bits)
  BY StreamFields DEF Holds
<1>2. n \in Nat /\ n <= Len(o.buffer) /\ o.head <= ByteBits * n
  BY <1>1, BytesForFacts, BytesForGrows
<1>3. ByteBits \in Nat /\ ByteBits * n \in Nat
  BY <1>2, ByteAssumption
<1>4. b + Len(e) <= Len(bits) /\ \A j \in 1..Len(e) : bits[b + j] = e[j]
  BY FlattenShort
<1>5. b \in Nat /\ Len(e) \in Nat
  <2>1. k + 1 \in 1..Len(rs) /\ k \in Nat /\ SequenceBits \in Nat
    BY AckAssumption
  <2>2. rs[k + 1] \in AckRange
    BY <2>1
  <2>3. Len(e) \in Nat
    <3> DEFINE r == rs[k + 1]
    <3> HIDE DEF r
    <3>1. Encoded(r) \in Seq(Bit)
      BY <2>2, EncodedFacts DEF r
    <3>2. Len(Encoded(r)) \in Nat
      BY <3>1
    <3> QED BY <3>2 DEF r
  <2>4. b \in Nat
    BY <2>1 DEF Begin
  <2> QED BY <2>3, <2>4
<1> DEFINE w == SequenceBits + 1
           have == Len(s.buffer)
<1>6. /\ w \in Nat /\ w <= Len(e) /\ s.capacity \in Nat /\ have \in Nat
      /\ have <= n /\ ByteBits * have \in Nat
  <2>1. k + 1 \in 1..Len(rs)
    OBVIOUS
  <2>2. rs[k + 1] \in AckRange
    BY <2>1
  <2>3. w \in Nat
    BY AckAssumption
  <2>4. w <= Len(e)
    <3> DEFINE r == rs[k + 1]
    <3> HIDE DEF r
    <3>1. Len(Encoded(r)) = IF r.mCount > 1 THEN SequenceBits + 1 + IntBits ELSE SequenceBits + 1
      BY <2>2, EncodedFacts DEF r
    <3> QED BY <2>3, <3>1, AckAssumption DEF r
  <2>5. s.capacity \in Nat /\ have \in Nat
    BY StreamFields
  <2>6. have <= n
    BY DEF IsPart
  <2>7. ByteBits * have \in Nat
    BY <2>5, ByteAssumption
  <2> QED BY <2>3, <2>4, <2>5, <2>6, <2>7
<1>7. b + w <= s.capacity /\ b + w <= ByteBits * have
  <2>1. b + w = (k + 1) * (SequenceBits + 1)
    <3>1. k \in Nat /\ w \in Nat
      BY <1>6
    <3> HIDE DEF w
    <3>2. (k + 1) * w = w * k + w
      BY <3>1
    <3>3. b = w * k
      BY DEF Begin, w
    <3> QED BY <3>2, <3>3 DEF w
  <2>2. b + w <= Held(s)
    BY <2>1
  <2>3. Held(s) \in Nat /\ Held(s) <= s.capacity /\ Held(s) <= ByteBits * have
    BY <1>6 DEF Held, Least
  <2>4. b + w \in Nat
    BY <1>5, <1>6
  <2> HIDE DEF b, w, have
  <2> QED BY <1>6, <2>2, <2>3, <2>4
<1> HIDE DEF n, b, e, bits, w, have
<1>8. s.head = b /\ s.head + w <= s.capacity
  BY <1>5, <1>6, <1>7 DEF Least, b
<1>9. ASSUME NEW j \in 1..w PROVE BitAt(s, s.head + j - 1, beyond) = e[j]
  <2> DEFINE p == s.head + j - 1
  <2>1. p \in Nat /\ p < Len(bits) /\ p < ByteBits * have /\ p + 1 = b + j
    <3>1. p = b + j - 1 /\ j \in Nat /\ j >= 1 /\ j <= w
      BY <1>5, <1>8, <1>6
    <3>2. Len(bits) \in Nat /\ b + Len(e) <= Len(bits)
      BY <1>1, <1>4
    <3> HIDE DEF p
    <3> QED BY <1>5, <1>6, <1>7, <3>1, <3>2
  <2> HIDE DEF p
  <2>2. PICK q \in Nat \ {0}, r \in 0..(ByteBits - 1) :
          /\ p = Place(q, r)
          /\ q = (p \div ByteBits) + 1
          /\ r = p % ByteBits
          /\ \A m \in Nat : p < ByteBits * m => q <= m
    <3>1. PICK q \in Nat \ {0}, r \in 0..(ByteBits - 1) : IsPlaceOf(p, q, r)
      BY <2>1, PlaceOf
    <3> QED BY <3>1 DEF IsPlaceOf
  <2>3. q \in 1..have /\ q \in 1..Len(o.buffer)
    <3>1. \A m \in Nat : p < ByteBits * m => q <= m
      BY <2>2
    <3>2. have \in Nat /\ p < ByteBits * have
      BY <1>6, <2>1
    <3>3. q <= have
      BY <3>1, <3>2, Zenon
    <3>4. have <= Len(o.buffer) /\ Len(o.buffer) \in Nat
      BY <1>1, <1>2, <1>6
    <3> QED BY <3>2, <3>3, <3>4
  <2>4. BitAt(s, p, beyond) = s.buffer[q][r]
    <3>1. BitAt(s, p, beyond) = IF q <= Len(s.buffer) THEN s.buffer[q][r] ELSE beyond
      BY <2>2 DEF BitAt
    <3>2. q <= Len(s.buffer)
      BY <2>3 DEF have
    <3> QED BY <3>1, <3>2
  <2>5. s.buffer[q] = o.buffer[q]
    BY <2>3 DEF IsPart, have
  <2>6. o.buffer[q][r] = At(bits, p)
    BY <1>1, <2>2, <2>3 DEF Cells
  <2>7. At(bits, p) = bits[b + j]
    BY <2>1 DEF At
  <2>8. j \in 1..Len(e)
    BY <1>5, <1>6
  <2> QED BY <1>4, <2>4, <2>5, <2>6, <2>7, <2>8 DEF p
<1> QED BY <1>8, <1>9 DEF Stands, e, w

-----------------------------------------------------------------------------
(* The invariant.                                                          *)

HoldsWritten == Holds(out, Flatten(written))

\* The head of the input is where the bits asked for end, or at the capacity.
HeadIsRequested == in.head = Least(requested, in.capacity)

NothingRead == ~receiving => ranges = << >> /\ requested = 0

\* What arrived is the first bytes of what was written.
PartIsWritten == receiving => IsPart(in, out)

\* While all ranges read were short and held, the sides agree where the next begins.
InStep ==
  /\ Len(ranges) <= Len(written)
  /\ \A i \in 1..Len(ranges) : IsShort(written[i])
  /\ Len(ranges) * (SequenceBits + 1) <= Held(in)
  => requested = Begin(Len(ranges))

Inv ==
  /\ TypeOK
  /\ RangeIsAcked
  /\ HoldsWritten
  /\ HeadIsRequested
  /\ NothingRead
  /\ PartIsWritten
  /\ InStep
  /\ ShortRangesReadBack

LEMMA DefaultRangeFacts ==
  /\ DefaultRange \in AckRange
  /\ {} = DefaultRange.mStart..(DefaultRange.mStart + DefaultRange.mCount - 1)
<1>1. 0 \in SequenceNumber
  BY SequenceNumbers DEF SequenceNumber
<1> QED BY <1>1 DEF DefaultRange, AckRange

LEMMA NoInputFacts ==
  /\ NoInput \in Stream
  /\ NoInput.head = 0 /\ NoInput.capacity = 0
BY DEF NoInput, InputFromVector, Stream

LEMMA NewOutputFacts ==
  NewOutput(BitCapacity) \in Stream /\ Holds(NewOutput(BitCapacity), Flatten(<< >>))
BY NewOutputHolds, FlattenEmpty, AckAssumption

\* Before anything is read the sides agree.
LEMMA NothingYet ==
  ASSUME Len(written) \in Nat, ranges = << >>, requested = 0
  PROVE  InStep /\ ShortRangesReadBack
<1>1. Begin(0) = 0
  BY SequenceNumbers DEF Begin
<1>2. Least(0, Len(written)) = 0
  BY DEF Least
<1> QED BY <1>1, <1>2 DEF InStep, ShortRangesReadBack

LEMMA NothingYetNext ==
  ASSUME Len(written') \in Nat, ranges' = << >>, requested' = 0
  PROVE  InStep' /\ ShortRangesReadBack'
<1>1. Begin(0) = 0
  BY SequenceNumbers DEF Begin
<1>2. Least(0, Len(written')) = 0
  BY DEF Least
<1> QED BY <1>1, <1>2 DEF InStep, ShortRangesReadBack

LEMMA InitInv == Init => Inv
<1> SUFFICES ASSUME Init PROVE Inv
  OBVIOUS
<1> USE DEF Init
<1>1. TypeOK
  <2>1. range \in AckRange /\ out \in Stream /\ in \in Stream
    BY DefaultRangeFacts, NoInputFacts, NewOutputFacts
  <2>2. receiving \in BOOLEAN /\ acked \subseteq SequenceNumber
    OBVIOUS
  <2>3. written \in Seq(AckRange) /\ requested \in Nat /\ ranges \in Seq(AckRange)
    OBVIOUS
  <2> QED BY <2>1, <2>2, <2>3 DEF TypeOK
<1>2. RangeIsAcked
  BY DefaultRangeFacts DEF RangeIsAcked
<1>3. HoldsWritten
  BY NewOutputFacts DEF HoldsWritten
<1>4. HeadIsRequested
  BY NoInputFacts DEF HeadIsRequested, Least
<1>5. NothingRead /\ PartIsWritten /\ InStep /\ ShortRangesReadBack
  BY NothingYet DEF NothingRead, PartIsWritten
<1> QED BY <1>1, <1>2, <1>3, <1>4, <1>5 DEF Inv

\* Nothing that has to do with the streams.
LEMMA StreamsUnchanged ==
  ASSUME Inv, UNCHANGED <<out, in, receiving, written, requested, ranges>>
  PROVE  /\ HoldsWritten' /\ HeadIsRequested' /\ NothingRead' /\ PartIsWritten'
         /\ InStep' /\ ShortRangesReadBack'
BY DEF Inv, HoldsWritten, HeadIsRequested, NothingRead, PartIsWritten, InStep,
       ShortRangesReadBack

LEMMA NewRangeInv ==
  ASSUME Inv, NEW n \in SequenceNumber, NewRange(n)
  PROVE  Inv'
<1>1. TypeOK /\ UNCHANGED <<out, in, receiving, written, requested, ranges>>
      /\ range' = [mStart |-> n, mCount |-> 1] /\ acked' = {n}
  BY DEF Inv, NewRange
<1>2. 1 \in SequenceNumber /\ n \in Nat
  BY SequenceNumbers DEF SequenceNumber
<1>3. TypeOK'
  BY <1>1, <1>2 DEF TypeOK, AckRange
<1>4. RangeIsAcked'
  BY <1>1, <1>2 DEF RangeIsAcked
<1> QED BY <1>1, <1>3, <1>4, StreamsUnchanged DEF Inv

LEMMA MaybePushBackInv ==
  ASSUME Inv, NEW n \in SequenceNumber, MaybePushBack(n)
  PROVE  Inv'
<1>1. TypeOK /\ UNCHANGED <<out, in, receiving, written, requested, ranges>>
      /\ RangeIsAcked
      /\ range' = [range EXCEPT !.mCount = (range.mCount + 1) % Pow2[SequenceBits]]
      /\ range.mCount < MaxNumber /\ n = range.mStart + range.mCount
      /\ acked' = acked \cup {n}
  BY DEF Inv, MaybePushBack, MayPushBack
<1> DEFINE c == range.mCount + 1
           p == Pow2[SequenceBits]
<1>2. range \in AckRange /\ range.mStart \in Nat /\ range.mCount \in Nat /\ n \in Nat
  BY <1>1, RangeFields, SequenceNumbers DEF TypeOK
<1>3. c \in 0..MaxNumber /\ c \in Nat /\ p = MaxNumber + 1 /\ MaxNumber \in Nat
  BY <1>1, <1>2, SequenceNumbers
<1>4. c % p = c
  <2> HIDE DEF c, p
  <2> QED BY <1>3
<1>5. range' = [range EXCEPT !.mCount = c]
  BY <1>1, <1>4
<1> HIDE DEF c, p
<1>6. range'.mStart = range.mStart /\ range'.mCount = c /\ range' \in AckRange
  BY <1>2, <1>3, <1>5 DEF AckRange, SequenceNumber
<1>7. TypeOK'
  BY <1>1, <1>6 DEF TypeOK
<1>8. RangeIsAcked'
  <2>1. /\ acked = range.mStart..(range.mStart + range.mCount - 1)
        /\ acked \subseteq SequenceNumber
    BY <1>1 DEF RangeIsAcked
  <2>2. acked' = range.mStart..(range.mStart + c - 1)
    BY <1>1, <1>2, <2>1 DEF c
  <2>3. acked' \subseteq SequenceNumber
    BY <1>1, <2>1
  <2> QED BY <1>6, <2>2, <2>3 DEF RangeIsAcked
<1> QED BY <1>1, <1>7, <1>8, StreamsUnchanged DEF Inv

LEMMA WriteRangeInv ==
  ASSUME Inv, WriteRange
  PROVE  Inv'
<1>1. TypeOK /\ HoldsWritten /\ HeadIsRequested /\ NothingRead
      /\ ~receiving
      /\ out' = WriteBitStream(out, range)
      /\ written' = Append(written, range)
      /\ range' = DefaultRange /\ acked' = {}
      /\ UNCHANGED <<in, receiving, requested, ranges>>
  BY DEF Inv, WriteRange
<1>2. written \in Seq(AckRange) /\ range \in AckRange /\ out \in Stream
  BY <1>1 DEF TypeOK
<1>3. WriteBitStream(out, range) \in Stream
      /\ Holds(WriteBitStream(out, range), Flatten(written) \o Encoded(range))
  BY <1>1, <1>2, FlattenType, WriteBitStreamHolds DEF HoldsWritten
<1>4. HoldsWritten'
  BY <1>1, <1>2, <1>3, FlattenAppend DEF HoldsWritten
<1>5. TypeOK'
  BY <1>1, <1>2, <1>3, DefaultRangeFacts DEF TypeOK
<1>6. RangeIsAcked'
  BY <1>1, DefaultRangeFacts DEF RangeIsAcked
<1>7. HeadIsRequested' /\ NothingRead' /\ PartIsWritten'
  BY <1>1 DEF HeadIsRequested, NothingRead, PartIsWritten
<1>8. InStep' /\ ShortRangesReadBack'
  <2>1. Len(written') \in Nat /\ ranges' = << >> /\ requested' = 0
    BY <1>1, <1>5 DEF NothingRead, TypeOK
  <2> QED BY <2>1, NothingYetNext
<1> QED BY <1>4, <1>5, <1>6, <1>7, <1>8 DEF Inv

LEMMA NextPacketInv ==
  ASSUME Inv, NextPacket
  PROVE  Inv'
<1>1. TypeOK /\ RangeIsAcked
      /\ out' = NewOutput(BitCapacity) /\ in' = NoInput
      /\ receiving' = FALSE /\ written' = << >>
      /\ requested' = 0 /\ ranges' = << >>
      /\ UNCHANGED <<range, acked>>
  BY DEF Inv, NextPacket
<1>2. TypeOK'
  <2>1. (range \in AckRange /\ out \in Stream /\ in \in Stream)'
    BY <1>1, NewOutputFacts, NoInputFacts DEF TypeOK
  <2>2. (receiving \in BOOLEAN /\ acked \subseteq SequenceNumber)'
    BY <1>1 DEF TypeOK
  <2>3. (written \in Seq(AckRange) /\ requested \in Nat /\ ranges \in Seq(AckRange))'
    BY <1>1
  <2> QED BY <2>1, <2>2, <2>3 DEF TypeOK
<1>3. RangeIsAcked'
  BY <1>1 DEF RangeIsAcked
<1>4. HoldsWritten'
  BY <1>1, NewOutputFacts DEF HoldsWritten
<1>5. HeadIsRequested'
  BY <1>1, NoInputFacts DEF HeadIsRequested, Least
<1>6. NothingRead' /\ PartIsWritten' /\ InStep' /\ ShortRangesReadBack'
  BY <1>1, NothingYetNext DEF NothingRead, PartIsWritten
<1> QED BY <1>2, <1>3, <1>4, <1>5, <1>6 DEF Inv

\* The bytes a packet comes with, from which both constructors make a stream.
LEMMA ReceivedBytes ==
  ASSUME NEW o \in Stream, NEW bits, Holds(o, bits), NEW length \in 0..BytesFor(o.head)
  PROVE  /\ SubSeq(o.buffer, 1, length) \in Seq(Byte)
         /\ Len(SubSeq(o.buffer, 1, length)) = length
         /\ \A q \in 1..length : SubSeq(o.buffer, 1, length)[q] = o.buffer[q]
<1> DEFINE old == o.buffer
<1>1. o.head \in Nat /\ o.capacity \in Nat /\ old \in Seq(Byte) /\ Len(old) \in Nat
      /\ o.head <= o.capacity /\ Len(old) = BytesFor(o.capacity)
  BY StreamFields DEF Holds
<1>2. BytesFor(o.head) <= Len(old) /\ BytesFor(o.head) \in Nat
  BY <1>1, BytesForFacts, BytesForGrows
<1>3. length \in Nat /\ length <= Len(old)
  BY <1>1, <1>2
<1> HIDE DEF old
<1>4. \A q \in 1..length : old[q] \in Byte
  BY <1>1, <1>3
<1>5. /\ SubSeq(old, 1, length) \in Seq(Byte)
      /\ Len(SubSeq(old, 1, length)) = IF 1 <= length THEN length - 1 + 1 ELSE 0
      /\ \A q \in 1..(length - 1 + 1) : SubSeq(old, 1, length)[q] = old[1 + q - 1]
  BY <1>3, <1>4, SubSeqProperties
<1> QED BY <1>3, <1>5 DEF old

LEMMA ReceiveInv ==
  ASSUME Inv, NEW length \in 0..GetByteLength, Receive(length)
  PROVE  Inv'
<1> DEFINE bytes == SubSeq(out.buffer, 1, length)
<1>1. TypeOK /\ RangeIsAcked /\ HoldsWritten /\ NothingRead
      /\ ~receiving /\ receiving' = TRUE
      /\ UNCHANGED <<range, out, acked, written, requested, ranges>>
  BY DEF Inv, Receive
<1>2. \/ in' = InputFromVector(bytes)
      \/ \E allocated \in {0, length} : in' = InputFromCapacity(bytes, allocated)
  BY DEF Receive
<1>3. out \in Stream /\ out.head \in Nat /\ length \in 0..BytesFor(out.head)
      /\ BytesFor(out.head) \in Nat /\ length \in Nat
  <2>1. out \in Stream /\ out.head \in Nat
    BY <1>1, StreamFields DEF TypeOK
  <2>2. BytesFor(out.head) \in Nat
    BY <2>1, BytesForFacts
  <2> QED BY <2>1, <2>2 DEF GetByteLength
<1>4. /\ bytes \in Seq(Byte) /\ Len(bytes) = length
      /\ \A q \in 1..length : bytes[q] = out.buffer[q]
  BY <1>1, <1>3, ReceivedBytes DEF HoldsWritten
<1>5. requested = 0 /\ ranges = << >>
  BY <1>1 DEF NothingRead
<1>6. in' \in Stream /\ in'.head = 0 /\ in'.capacity \in Nat /\ IsPart(in', out)
  <2>1. CASE in' = InputFromVector(bytes)
    <3> HIDE DEF bytes
    <3>1. in' = [head |-> 0, capacity |-> 0, buffer |-> bytes]
      BY <2>1 DEF InputFromVector
    <3>2. in' \in Stream /\ in'.head = 0 /\ in'.capacity \in Nat /\ in'.buffer = bytes
      BY <1>4, <3>1 DEF Stream
    <3> QED BY <1>3, <1>4, <3>2 DEF IsPart
  <2>2. ASSUME NEW allocated \in {0, length}, in' = InputFromCapacity(bytes, allocated)
        PROVE  in' \in Stream /\ in'.head = 0 /\ in'.capacity \in Nat /\ IsPart(in', out)
    <3> DEFINE m == Least(allocated, Len(bytes))
               capacity == ByteBits * length
               buffer == SubSeq(bytes, 1, m)
    <3>1. m \in 0..length
      BY <1>3, <1>4 DEF Least
    <3>2. capacity \in Nat
      BY <1>3, ByteAssumption
    <3>3. in' = [head |-> 0, capacity |-> capacity, buffer |-> buffer]
      BY <1>4, <2>2 DEF InputFromCapacity
    <3>4. buffer \in Seq(Byte) /\ Len(buffer) = m /\ \A q \in 1..m : buffer[q] = bytes[q]
      <4> HIDE DEF m, bytes
      <4>1. m \in Nat /\ \A q \in 1..m : bytes[q] \in Byte
        BY <1>3, <1>4, <3>1
      <4>2. /\ SubSeq(bytes, 1, m) \in Seq(Byte)
            /\ Len(SubSeq(bytes, 1, m)) = IF 1 <= m THEN m - 1 + 1 ELSE 0
            /\ \A q \in 1..(m - 1 + 1) : SubSeq(bytes, 1, m)[q] = bytes[1 + q - 1]
        BY <4>1, SubSeqProperties
      <4> QED BY <4>1, <4>2
    <3> HIDE DEF buffer, capacity, bytes
    <3>5. in' \in Stream /\ in'.head = 0 /\ in'.capacity = capacity /\ in'.buffer = buffer
      BY <3>2, <3>3, <3>4 DEF Stream
    <3> HIDE DEF m
    <3>6. IsPart(in', out)
      BY <1>3, <1>4, <3>1, <3>4, <3>5 DEF IsPart
    <3> QED BY <3>2, <3>5, <3>6
  <2> QED BY <1>2, <2>1, <2>2
<1>7. TypeOK'
  <2>1. (range \in AckRange /\ out \in Stream /\ acked \subseteq SequenceNumber)'
    BY <1>1 DEF TypeOK
  <2>2. (written \in Seq(AckRange) /\ requested \in Nat /\ ranges \in Seq(AckRange))'
    BY <1>1 DEF TypeOK
  <2>3. receiving' \in BOOLEAN
    BY <1>1
  <2> QED BY <1>6, <2>1, <2>2, <2>3 DEF TypeOK
<1>8. RangeIsAcked' /\ HoldsWritten'
  BY <1>1 DEF RangeIsAcked, HoldsWritten
<1>9. HeadIsRequested'
  BY <1>1, <1>5, <1>6 DEF HeadIsRequested, Least
<1>10. NothingRead' /\ PartIsWritten'
  BY <1>1, <1>6 DEF NothingRead, PartIsWritten, IsPart
<1>11. InStep' /\ ShortRangesReadBack'
  <2>1. Len(written') \in Nat /\ ranges' = << >> /\ requested' = 0
    BY <1>1, <1>5 DEF TypeOK
  <2> QED BY <2>1, NothingYetNext
<1> QED BY <1>7, <1>8, <1>9, <1>10, <1>11 DEF Inv

LEMMA InputReadable ==
  ASSUME Inv
  PROVE  in \in Readable /\ requested \in Nat /\ in.capacity \in Nat /\ in.head \in Nat
<1>1. in \in Stream /\ requested \in Nat /\ HeadIsRequested
  BY DEF Inv, TypeOK
<1>2. in.capacity \in Nat /\ in.head \in Nat
  BY <1>1, StreamFields
<1>3. in.head <= in.capacity
  BY <1>1, <1>2 DEF HeadIsRequested, Least
<1> QED BY <1>1, <1>2, <1>3 DEF Readable

\* What a read leaves.
LEMMA ReadRangeStep ==
  ASSUME Inv, ReadRange
  PROVE  \E beyond \in Bit :
           LET result == ReadBitStream(in, beyond) IN
           /\ in' = result.stream
           /\ ranges' = Append(ranges, result.range)
           /\ requested' = requested + result.asked
           /\ HasReadRange(result, in)
           /\ in' \in Readable /\ in'.capacity = in.capacity /\ in'.buffer = in.buffer
           /\ in'.head = Least(requested', in'.capacity)
           /\ requested' \in Nat
<1>1. PICK beyond \in Bit :
        LET result == ReadBitStream(in, beyond) IN
        /\ in' = result.stream
        /\ ranges' = Append(ranges, result.range)
        /\ requested' = requested + result.asked
  BY DEF ReadRange
<1> DEFINE result == ReadBitStream(in, beyond)
<1>2. in \in Readable /\ requested \in Nat /\ in.capacity \in Nat /\ in.head \in Nat
      /\ in.head = Least(requested, in.capacity)
  BY InputReadable DEF Inv, HeadIsRequested
<1>3. HasReadRange(result, in)
  BY <1>2, ReadBitStreamReads
<1>4. in' = result.stream /\ ranges' = Append(ranges, result.range)
      /\ requested' = requested + result.asked
  BY <1>1
<1> HIDE DEF result
<1>5. result.asked \in Nat /\ Moved(in', in, result.asked)
  BY <1>3, <1>4 DEF HasReadRange
<1>6. /\ in' \in Readable /\ in'.capacity = in.capacity /\ in'.buffer = in.buffer
      /\ in'.head = Least(in.head + result.asked, in.capacity)
  BY <1>2, <1>5, MovedFacts
<1>7. requested' \in Nat /\ in'.head = Least(requested', in'.capacity)
  BY <1>2, <1>4, <1>5, <1>6 DEF Least
<1> QED BY <1>3, <1>4, <1>6, <1>7 DEF result

\* What is held of a number of ranges is held of one less.
LEMMA HeldBefore ==
  ASSUME NEW s \in Stream, NEW m \in Nat, (m + 1) * (SequenceBits + 1) <= Held(s)
  PROVE  m * (SequenceBits + 1) <= Held(s)
<1> DEFINE w == SequenceBits + 1
<1>1. w \in Nat /\ s.capacity \in Nat /\ Len(s.buffer) \in Nat
  BY StreamFields, AckAssumption
<1>2. ByteBits * Len(s.buffer) \in Nat
  BY <1>1, ByteAssumption
<1>3. Held(s) \in Nat
  BY <1>1, <1>2 DEF Held, Least
<1>4. (m + 1) * w = m * w + w /\ m * w \in Nat
  BY <1>1
<1> HIDE DEF w
<1>5. m * w <= Held(s)
  <2>1. (m + 1) * w <= Held(s)
    BY DEF w
  <2> QED BY <1>1, <1>3, <1>4, <2>1
<1> QED BY <1>5 DEF w

LEMMA ReadRangeInv ==
  ASSUME Inv, ReadRange
  PROVE  Inv'
<1> DEFINE m == Len(ranges)
           r == written[m + 1]
<1>1. TypeOK /\ RangeIsAcked /\ HoldsWritten /\ HeadIsRequested /\ NothingRead
      /\ PartIsWritten /\ InStep /\ ShortRangesReadBack
      /\ receiving
      /\ UNCHANGED <<range, out, receiving, acked, written>>
  BY DEF Inv, ReadRange
<1>2. PICK beyond \in Bit :
        LET result == ReadBitStream(in, beyond) IN
        /\ in' = result.stream
        /\ ranges' = Append(ranges, result.range)
        /\ requested' = requested + result.asked
        /\ HasReadRange(result, in)
        /\ in' \in Readable /\ in'.capacity = in.capacity /\ in'.buffer = in.buffer
        /\ in'.head = Least(requested', in'.capacity)
        /\ requested' \in Nat
  BY ReadRangeStep
<1> DEFINE result == ReadBitStream(in, beyond)
           new == result.range
<1>3. /\ in' = result.stream
      /\ ranges' = Append(ranges, new)
      /\ requested' = requested + result.asked
      /\ HasReadRange(result, in)
      /\ in' \in Readable /\ in'.capacity = in.capacity /\ in'.buffer = in.buffer
      /\ in'.head = Least(requested', in'.capacity)
      /\ requested' \in Nat
  BY <1>2
<1>4. in \in Readable /\ in \in Stream /\ requested \in Nat
  BY <1>1, InputReadable DEF TypeOK
<1>5. new \in AckRange
  BY <1>3 DEF HasReadRange
<1>6. out \in Stream /\ written \in Seq(AckRange) /\ Len(written) \in Nat
      /\ ranges \in Seq(AckRange) /\ m \in Nat
  BY <1>1 DEF TypeOK
<1> HIDE DEF result
<1>7. /\ ranges' \in Seq(AckRange) /\ Len(ranges') = m + 1 /\ ranges'[m + 1] = new
      /\ \A i \in 1..m : ranges'[i] = ranges[i]
  <2> HIDE DEF new
  <2> QED BY <1>3, <1>5, <1>6
<1> HIDE DEF new, m
<1>8. ASSUME m < Len(written), \A i \in 1..m : IsShort(written[i]),
             (m + 1) * (SequenceBits + 1) <= Held(in)
      PROVE  /\ requested = Begin(m)
             /\ new.mStart = r.mStart
             /\ IsShort(r) => new.mCount = 1 /\ result.asked = SequenceBits + 1
  <2>1. m \in 0..(Len(written) - 1) /\ m <= Len(written) /\ m + 1 \in 1..Len(written)
    BY <1>6, <1>8
  <2>2. m * (SequenceBits + 1) <= Held(in)
    BY <1>4, <1>6, <1>8, HeldBefore
  <2>3. requested = Begin(m)
    BY <1>1, <1>8, <2>1, <2>2 DEF InStep, m
  <2>4. IsPart(in, out) /\ Holds(out, Flatten(written)) /\ in.head = Least(Begin(m), in.capacity)
    BY <1>1, <2>3 DEF PartIsWritten, HoldsWritten, HeadIsRequested
  <2>5. Stands(in, r, beyond)
    BY <1>4, <1>6, <1>8, <2>1, <2>4, PartStands
  <2>6. r \in AckRange
    BY <1>6, <2>1
  <2> HIDE DEF r
  <2>7. /\ new.mStart = r.mStart
        /\ IsShort(r) => new.mCount = 1 /\ result.asked = SequenceBits + 1
    BY <1>4, <2>5, <2>6, ReadBitStreamGives DEF new, result
  <2> QED BY <2>3, <2>7 DEF r
<1>9. TypeOK'
  <2>1. (range \in AckRange /\ out \in Stream /\ acked \subseteq SequenceNumber)'
    BY <1>1 DEF TypeOK
  <2>2. receiving' \in BOOLEAN
    BY <1>1 DEF TypeOK
  <2>3. (written \in Seq(AckRange))'
    BY <1>1 DEF TypeOK
  <2>4. in' \in Stream
    BY <1>3 DEF Readable
  <2> QED BY <1>3, <1>7, <2>1, <2>2, <2>3, <2>4 DEF TypeOK
<1>10. RangeIsAcked' /\ HoldsWritten'
  BY <1>1 DEF RangeIsAcked, HoldsWritten
<1>11. HeadIsRequested'
  BY <1>3 DEF HeadIsRequested
<1>12. NothingRead'
  BY <1>1 DEF NothingRead
<1>13. PartIsWritten' /\ Held(in') = Held(in)
  BY <1>1, <1>3 DEF PartIsWritten, IsPart, Held
<1>14. InStep'
  <2>1. SUFFICES ASSUME m + 1 <= Len(written), \A i \in 1..(m + 1) : IsShort(written[i]),
                        (m + 1) * (SequenceBits + 1) <= Held(in)
                 PROVE  requested' = Begin(m + 1)
    BY <1>1, <1>7, <1>13 DEF InStep
  <2>2. m < Len(written) /\ \A i \in 1..m : IsShort(written[i])
    BY <1>6, <2>1
  <2>3. IsShort(r)
    BY <1>6, <2>1
  <2>4. requested = Begin(m) /\ result.asked = SequenceBits + 1
    BY <1>8, <2>1, <2>2, <2>3
  <2>5. Begin(m + 1) = Begin(m) + (SequenceBits + 1)
    BY <1>6, SequenceNumbers DEF Begin
  <2> QED BY <1>3, <2>4, <2>5
<1>15. ShortRangesReadBack'
  <2>1. SUFFICES ASSUME NEW i \in 1..Least(m + 1, Len(written)),
                        \A k \in 1..(i - 1) : IsShort(written[k]),
                        i * (SequenceBits + 1) <= Held(in)
                 PROVE  /\ ranges'[i].mStart = written[i].mStart
                        /\ IsShort(written[i]) => ranges'[i].mCount = 1
    BY <1>1, <1>7, <1>13 DEF ShortRangesReadBack
  <2>2. i \in Nat /\ i >= 1 /\ i <= m + 1 /\ i <= Len(written)
    BY <1>6 DEF Least
  <2>3. CASE i <= m
    <3>1. i \in 1..m /\ i \in 1..Least(m, Len(written))
      BY <1>6, <2>2, <2>3 DEF Least
    <3>2. /\ ranges[i].mStart = written[i].mStart
          /\ IsShort(written[i]) => ranges[i].mCount = 1
      BY <1>1, <2>1, <3>1 DEF ShortRangesReadBack, m
    <3> QED BY <1>7, <3>1, <3>2
  <2>4. CASE i = m + 1
    <3>1. m < Len(written) /\ i - 1 = m
      BY <1>6, <2>2, <2>4
    <3>2. new.mStart = r.mStart /\ (IsShort(r) => new.mCount = 1)
      BY <1>8, <2>1, <2>4, <3>1
    <3> QED BY <1>7, <2>4, <3>2
  <2> QED BY <1>6, <2>2, <2>3, <2>4
<1> QED BY <1>9, <1>10, <1>11, <1>12, <1>13, <1>14, <1>15 DEF Inv

LEMMA Inductive == Inv /\ [Next]_vars => Inv'
<1> SUFFICES ASSUME Inv, [Next]_vars PROVE Inv'
  OBVIOUS
<1>1. ASSUME NEW n \in SequenceNumber, NewRange(n) PROVE Inv'
  BY <1>1, NewRangeInv
<1>2. ASSUME NEW n \in SequenceNumber, MaybePushBack(n) PROVE Inv'
  BY <1>2, MaybePushBackInv
<1>3. CASE WriteRange
  BY <1>3, WriteRangeInv
<1>4. ASSUME NEW length \in 0..GetByteLength, Receive(length) PROVE Inv'
  BY <1>4, ReceiveInv
<1>5. CASE ReadRange
  BY <1>5, ReadRangeInv
<1>6. CASE NextPacket
  BY <1>6, NextPacketInv
<1>7. CASE UNCHANGED vars
  <2>1. UNCHANGED <<out, in, receiving, written, requested, ranges>>
        /\ UNCHANGED <<range, acked>>
    BY <1>7 DEF vars
  <2>2. TypeOK' /\ RangeIsAcked'
    BY <2>1 DEF Inv, TypeOK, RangeIsAcked
  <2> QED BY <2>1, <2>2, StreamsUnchanged DEF Inv
<1> QED BY <1>1, <1>2, <1>3, <1>4, <1>5, <1>6, <1>7 DEF Next

LEMMA InvAlways == Spec => []Inv
BY InitInv, Inductive, PTL DEF Spec

-----------------------------------------------------------------------------
(* The theorems.                                                           *)

\* Whatever is extended, written, cut short and read, the ranges stay numbers of
\* their sixteen bits and the streams stay streams: every range that ReadBitStream
\* makes of foreign bytes is one that could have been written.
THEOREM TypeCorrect == Spec => []TypeOK
<1>1. Inv => TypeOK
  BY DEF Inv
<1> QED BY InvAlways, <1>1, PTL

\* A range is the numbers it was made with and extended by: MaybePushBack takes
\* the next number only, and its count does not run over.
THEOREM RangesAreAcked == Spec => []RangeIsAcked
<1>1. Inv => RangeIsAcked
  BY DEF Inv
<1> QED BY InvAlways, <1>1, PTL

LEMMA HeldIsWritten ==
  ASSUME TypeOK, HoldsWritten
  PROVE  StreamHoldsWritten
<1> DEFINE bits == Flatten(written)
           n == Len(out.buffer)
<1>1. /\ out.head \in Nat /\ n \in Nat /\ out.head = Len(bits) /\ out.head <= out.capacity
      /\ n = BytesFor(out.capacity) /\ Cells(out.buffer, bits)
  BY StreamFields DEF TypeOK, HoldsWritten, Holds
<1> HIDE DEF bits, n
<1>2. ASSUME NEW place \in 0..(ByteBits * n - 1)
      PROVE  BitAt(out, place, 0) = IF place < out.head THEN bits[place + 1] ELSE 0
  <2>1. ByteBits * n \in Nat
    BY <1>1, ByteAssumption
  <2>2. place \in Nat /\ place < ByteBits * n
    BY <2>1
  <2>3. PICK q \in Nat \ {0}, r \in 0..(ByteBits - 1) :
          /\ place = Place(q, r)
          /\ q = (place \div ByteBits) + 1
          /\ r = place % ByteBits
          /\ \A m \in Nat : place < ByteBits * m => q <= m
    <3>1. PICK q \in Nat \ {0}, r \in 0..(ByteBits - 1) : IsPlaceOf(place, q, r)
      BY <2>2, PlaceOf
    <3> QED BY <3>1 DEF IsPlaceOf
  <2>4. q \in 1..n /\ q <= Len(out.buffer)
    BY <1>1, <2>2, <2>3 DEF n
  <2>5. BitAt(out, place, 0) = out.buffer[q][r]
    BY <2>3, <2>4 DEF BitAt
  <2>6. out.buffer[q][r] = At(bits, place)
    BY <1>1, <2>3, <2>4 DEF Cells, n
  <2> QED BY <1>1, <2>5, <2>6 DEF At
<1> QED BY <1>1, <1>2 DEF StreamHoldsWritten, bits, n

\* WriteBits and ReallocBuffer keep what was written: for any width of a byte and
\* any bits, wherever they begin, the output stream holds them in order, and the
\* rest of its buffer is zero.
THEOREM WritesAreHeld == Spec => []StreamHoldsWritten
<1>1. Inv => StreamHoldsWritten
  BY HeldIsWritten DEF Inv
<1> QED BY InvAlways, <1>1, PTL

\* However much of a packet arrived, WriteBitStream and ReadBitStream agree, in what
\* the input stream holds of it, on every range up to the first with a count and on
\* the start of that one.  A stream made from a vector holds nothing.
THEOREM RangesReadBack == Spec => []ShortRangesReadBack
<1>1. Inv => ShortRangesReadBack
  BY DEF Inv
<1> QED BY InvAlways, <1>1, PTL

\* Only a read makes the ranges read more.
LEMMA OnlyReads ==
  ASSUME Inv, Next, Len(ranges') > Len(ranges)
  PROVE  ReadRange
<1>1. Len(ranges) \in Nat
  BY DEF Inv, TypeOK
<1>2. ~ UNCHANGED ranges /\ ranges' # << >>
  BY <1>1
<1> QED BY <1>2 DEF Next, NewRange, MaybePushBack, WriteRange, Receive, NextPacket

\* A packet that ends too early bounds every read: ReadBits never moves the head
\* past the capacity, and a start that does not fit has only the whole bytes that
\* do and no count.
THEOREM ReadsStayInPacket == Spec => ReadsEndWithPacket
<1> DEFINE Short ==
      Len(ranges') > Len(ranges) /\ Left < SequenceBits =>
        LET r == ranges'[Len(ranges')] IN
        /\ r.mStart < Pow2[ByteBits * (Left \div ByteBits)]
        /\ r.mCount = 1
<1>1. Inv => in.head <= in.capacity
  BY InputReadable DEF Readable
<1>2. Inv /\ [Next]_vars => [Short]_vars
  <2>1. SUFFICES ASSUME Inv, Next, Len(ranges') > Len(ranges), Left < SequenceBits
                 PROVE  LET r == ranges'[Len(ranges')] IN
                        /\ r.mStart < Pow2[ByteBits * (Left \div ByteBits)]
                        /\ r.mCount = 1
    OBVIOUS
  <2>2. ReadRange
    BY <2>1, OnlyReads
  <2>3. PICK beyond \in Bit :
          LET result == ReadBitStream(in, beyond) IN
          /\ ranges' = Append(ranges, result.range)
          /\ HasReadRange(result, in)
    BY <2>1, <2>2, ReadRangeStep
  <2> DEFINE new == ReadBitStream(in, beyond).range
             k == Left \div ByteBits
  <2>4. Left = Rest(in)
    <3>1. in.head = Least(requested, in.capacity) /\ requested \in Nat /\ in.capacity \in Nat
      BY <2>1, InputReadable DEF Inv, HeadIsRequested
    <3> QED BY <3>1 DEF Left, Rest, Greatest, Least
  <2>5. new.mStart < Pow2[ByteBits * k] /\ new.mCount = 1
    BY <2>1, <2>3, <2>4 DEF HasReadRange
  <2>6. ranges'[Len(ranges')] = new
    <3>1. ranges \in Seq(AckRange) /\ ranges' = Append(ranges, new)
      BY <2>1, <2>3 DEF Inv, TypeOK
    <3> HIDE DEF new
    <3> QED BY <3>1
  <2> QED BY <2>5, <2>6
<1>3. Spec => [](in.head <= in.capacity)
  BY InvAlways, <1>1, PTL
<1>4. Spec => [][Short]_vars
  BY InvAlways, <1>2, PTL DEF Spec
<1> QED BY <1>3, <1>4 DEF ReadsEndWithPacket
=============================================================================
