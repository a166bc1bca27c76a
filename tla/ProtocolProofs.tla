--------------------------- MODULE ProtocolProofs ---------------------------
(***************************************************************************)
(* Proofs about crates/protocol.  isqrt_u64 computes the floor of the      *)
(* square root, whatever its argument, and so is_justifiable_after is      *)
(* exact and does not overflow.  For every validator count, every set      *)
(* of roots and every sequence of blocks and votes, the invariants of      *)
(* StateTransitionLoop hold, and the loop implements the abstract Finality *)
(* specification.                                                          *)
(***************************************************************************)
EXTENDS IsqrtLoop, StateTransitionLoop, TLAPS, FiniteSetTheorems, WellFoundedInduction

(* Powers of two and bit lengths *)

\* Every nonempty set of naturals has a least element: induction is used in
\* this form, with the set of counterexamples.
LEMMA LeastNat ==
    ASSUME NEW T, T \subseteq Nat, T # {}
    PROVE  \E n \in T : \A m \in T : n <= m
<1> DEFINE R == OpToRel(<, Nat)
<1>1. IsWellFoundedOn(R, Nat)
  BY NatLessThanWellFounded, Zenon
<1>2. \A x, y \in Nat : x < y => <<x, y>> \in R
  BY Zenon DEF OpToRel
<1> HIDE DEF R
<1>3. PICK n \in T : \A m \in T : ~(<<m, n>> \in R)
  BY <1>1, WFMin, Zenon
<1>4. \A m \in T : ~(m < n)
  BY <1>2, <1>3, Zenon
<1> QED
  BY <1>4

\* A set that holds 0 and with each number the next one holds them all.
LEMMA NatClosed ==
    ASSUME NEW S, 0 \in S, \A k \in Nat : k \in S => k + 1 \in S
    PROVE  Nat \subseteq S
<1> DEFINE T == Nat \ S
<1> SUFFICES ASSUME T # {} PROVE FALSE
  BY Zenon
<1>1. PICK n \in T : \A m \in T : n <= m
  <2>1. T \subseteq Nat
    BY Zenon
  <2> HIDE DEF T
  <2> QED BY <2>1, LeastNat, Zenon
<1>2. n \in Nat /\ n # 0
  BY <1>1, Zenon
<1>3. n - 1 \in Nat /\ n - 1 \notin T
  BY <1>1, <1>2
<1>4. (n - 1) + 1 \in S
  BY <1>3, Zenon
<1> QED
  BY <1>1, <1>2, <1>4

\* f is the shift table up to n.
Doubles(f, n) == f = [k \in 0 .. n |-> IF k = 0 THEN 1 ELSE 2 * f[k - 1]]

\* There is a shift table of every length.
LEMMA DoublesExist ==
    ASSUME NEW n \in Nat
    PROVE  \E f : Doubles(f, n)
<1> DEFINE S == {m \in Nat : \E f : Doubles(f, m)}
<1>1. 0 \in S
  <2> DEFINE f == [k \in 0 .. 0 |-> 1]
  <2>1. Doubles(f, 0)
    BY DEF Doubles
  <2> HIDE DEF f
  <2> QED BY <2>1, Zenon
<1>2. ASSUME NEW m \in Nat, m \in S
      PROVE  m + 1 \in S
  <2>1. PICK f : Doubles(f, m)
    BY <1>2, Zenon
  <2> DEFINE g == [k \in 0 .. m + 1 |-> IF k <= m THEN f[k] ELSE 2 * f[m]]
  <2>2. f = [k \in 0 .. m |-> IF k = 0 THEN 1 ELSE 2 * f[k - 1]]
    BY <2>1, Zenon DEF Doubles
  <2>3. ASSUME NEW k \in 0 .. m + 1
        PROVE  g[k] = IF k = 0 THEN 1 ELSE 2 * g[k - 1]
    <3>1. CASE k = 0
      BY <2>2, <3>1
    <3>2. CASE k # 0 /\ k <= m
      <4>1. k \in 0 .. m /\ k - 1 \in 0 .. m + 1 /\ k - 1 <= m
        BY <3>2
      <4>2. f[k] = 2 * f[k - 1]
        BY <2>2, <3>2, <4>1, Zenon
      <4> QED
        BY <3>2, <4>1, <4>2, Zenon
    <3>3. CASE k = m + 1
      <4>1. k # 0 /\ ~(k <= m) /\ k - 1 = m /\ m \in 0 .. m + 1
        BY <3>3
      <4> QED
        BY <4>1
    <3> QED
      BY <3>1, <3>2, <3>3
  <2>4. Doubles(g, m + 1)
    BY <2>3, Zenon DEF Doubles
  <2> HIDE DEF g
  <2> QED BY <2>4
<1> HIDE DEF S
<1>3. Nat \subseteq S
  BY <1>1, <1>2, NatClosed, Zenon
<1> QED
  BY <1>3, Zenon DEF S

\* Two shift tables agree where both are defined.
LEMMA DoublesUnique ==
    ASSUME NEW m \in Nat, NEW n \in Nat, NEW f, Doubles(f, m), NEW g, Doubles(g, n)
    PROVE  \A k \in Nat : k <= m /\ k <= n => f[k] = g[k]
<1> DEFINE S == {k \in Nat : k <= m /\ k <= n => f[k] = g[k]}
<1>1. 0 \in S
  BY DEF Doubles
<1>2. ASSUME NEW k \in Nat, k \in S
      PROVE  k + 1 \in S
  <2>1. f = [i \in 0 .. m |-> IF i = 0 THEN 1 ELSE 2 * f[i - 1]]
    BY Zenon DEF Doubles
  <2>2. g = [i \in 0 .. n |-> IF i = 0 THEN 1 ELSE 2 * g[i - 1]]
    BY Zenon DEF Doubles
  <2> SUFFICES ASSUME k + 1 <= m, k + 1 <= n
               PROVE  f[k + 1] = g[k + 1]
    OBVIOUS
  <2>3. k + 1 \in 0 .. m /\ k + 1 \in 0 .. n /\ (k + 1) - 1 = k /\ k + 1 # 0
    OBVIOUS
  <2>4. f[k + 1] = 2 * f[k] /\ g[k + 1] = 2 * g[k]
    BY <2>1, <2>2, <2>3, Zenon
  <2> QED
    BY <1>2, <2>4
<1> HIDE DEF S
<1>3. Nat \subseteq S
  BY <1>1, <1>2, NatClosed, Zenon
<1> QED
  BY <1>3, Zenon DEF S

\* PowerOfTwo satisfies its recursion.
LEMMA PowerEquation ==
    PowerOfTwo = [k \in Nat |-> IF k = 0 THEN 1 ELSE 2 * PowerOfTwo[k - 1]]
<1> DEFINE Table(n) == CHOOSE f : Doubles(f, n)
           g == [n \in Nat |-> Table(n)[n]]
<1>1. \A n \in Nat : Doubles(Table(n), n)
  BY DoublesExist, Zenon
<1> HIDE DEF Table
<1>2. ASSUME NEW n \in Nat
      PROVE  g[n] = IF n = 0 THEN 1 ELSE 2 * g[n - 1]
  <2>1. Table(n) = [k \in 0 .. n |-> IF k = 0 THEN 1 ELSE 2 * Table(n)[k - 1]]
    BY <1>1, Zenon DEF Doubles
  <2>2. n \in 0 .. n
    OBVIOUS
  <2>3. CASE n = 0
    BY <2>1, <2>2, <2>3, Zenon
  <2>4. CASE n # 0
    <3>1. n - 1 \in Nat /\ n - 1 <= n
      BY <2>4
    <3>2. Table(n)[n - 1] = Table(n - 1)[n - 1]
      BY <1>1, <3>1, DoublesUnique
    <3>3. Table(n)[n] = 2 * Table(n)[n - 1]
      BY <2>1, <2>2, <2>4, Zenon
    <3> QED
      BY <2>4, <3>1, <3>2, <3>3, Zenon
  <2> QED
    BY <2>3, <2>4, Zenon
<1>3. g = [k \in Nat |-> IF k = 0 THEN 1 ELSE 2 * g[k - 1]]
  <2>1. g = [k \in Nat |-> g[k]]
    BY Zenon
  <2> HIDE DEF g
  <2> QED BY <1>2, <2>1, Zenon
<1>4. \E f : f = [k \in Nat |-> IF k = 0 THEN 1 ELSE 2 * f[k - 1]]
  <2> HIDE DEF g
  <2> QED BY <1>3, Zenon
<1> QED
  BY <1>4, Zenon DEF PowerOfTwo

\* Powers of two are positive and double.
LEMMA PowerDoubles ==
    /\ PowerOfTwo[0] = 1
    /\ \A k \in Nat : PowerOfTwo[k] \in Nat \ {0} /\ PowerOfTwo[k + 1] = 2 * PowerOfTwo[k]
<1>1. PowerOfTwo[0] = 1
  BY PowerEquation, Zenon
<1>2. \A k \in Nat : PowerOfTwo[k + 1] = 2 * PowerOfTwo[k]
  <2> TAKE k \in Nat
  <2>1. k + 1 \in Nat /\ k + 1 # 0 /\ (k + 1) - 1 = k
    OBVIOUS
  <2> QED
    BY <2>1, PowerEquation, Zenon
<1> DEFINE S == {k \in Nat : PowerOfTwo[k] \in Nat \ {0}}
<1>3. 0 \in S
  BY <1>1
<1>4. \A k \in Nat : k \in S => k + 1 \in S
  BY <1>2
<1> HIDE DEF S
<1>5. Nat \subseteq S
  BY <1>3, <1>4, NatClosed, Zenon
<1> QED
  BY <1>1, <1>2, <1>5, Zenon DEF S

\* Powers of two add their exponents.
LEMMA PowerAdds ==
    ASSUME NEW j \in Nat
    PROVE  \A k \in Nat : PowerOfTwo[j + k] = PowerOfTwo[j] * PowerOfTwo[k]
<1> DEFINE S == {k \in Nat : PowerOfTwo[j + k] = PowerOfTwo[j] * PowerOfTwo[k]}
<1>1. 0 \in S
  <2>1. j + 0 = j
    OBVIOUS
  <2> QED
    BY <2>1, PowerDoubles
<1>2. ASSUME NEW k \in Nat, k \in S
      PROVE  k + 1 \in S
  <2> DEFINE a == PowerOfTwo[j]
             b == PowerOfTwo[k]
             c == PowerOfTwo[j + k]
  <2>1. a \in Nat /\ b \in Nat /\ c = a * b
    BY <1>2, PowerDoubles, Zenon
  <2>2. PowerOfTwo[k + 1] = 2 * b
    BY PowerDoubles, Zenon
  <2>3. j + (k + 1) = (j + k) + 1 /\ j + k \in Nat
    OBVIOUS
  <2>4. PowerOfTwo[j + (k + 1)] = 2 * c
    BY <2>3, PowerDoubles, Zenon
  <2> HIDE DEF a, b, c
  <2>5. 2 * c = a * (2 * b)
    BY <2>1
  <2> QED
    BY <2>2, <2>4, <2>5 DEF a
<1> HIDE DEF S
<1>3. Nat \subseteq S
  BY <1>1, <1>2, NatClosed
<1> QED
  BY <1>3, Zenon DEF S

\* Powers of two grow with their exponents, beyond every number.
LEMMA PowerGrows ==
    /\ \A j, k \in Nat : j <= k => PowerOfTwo[j] <= PowerOfTwo[k]
    /\ \A n \in Nat : n < PowerOfTwo[n]
<1>1. ASSUME NEW j \in Nat, NEW k \in Nat, j <= k
      PROVE  PowerOfTwo[j] <= PowerOfTwo[k]
  <2> DEFINE a == PowerOfTwo[j]
             d == PowerOfTwo[k - j]
  <2>1. k - j \in Nat /\ j + (k - j) = k
    BY <1>1
  <2>2. a \in Nat /\ d \in Nat \ {0} /\ PowerOfTwo[k] = a * d
    <3>1. PowerOfTwo[j + (k - j)] = a * d
      BY <2>1, PowerAdds, Zenon
    <3>2. a \in Nat /\ d \in Nat \ {0}
      BY <2>1, PowerDoubles, Zenon
    <3> QED
      BY <2>1, <3>1, <3>2, Zenon
  <2> HIDE DEF a, d
  <2>3. a <= a * d
    BY <2>2
  <2> QED
    BY <2>2, <2>3, Zenon DEF a
<1> DEFINE S == {n \in Nat : n < PowerOfTwo[n]}
<1>2. 0 \in S
  BY PowerDoubles
<1>3. ASSUME NEW n \in Nat, n \in S
      PROVE  n + 1 \in S
  <2>1. PowerOfTwo[n] \in Nat /\ n < PowerOfTwo[n] /\ PowerOfTwo[n + 1] = 2 * PowerOfTwo[n]
    BY <1>3, PowerDoubles, Zenon
  <2> QED
    BY <2>1
<1> HIDE DEF S
<1>4. Nat \subseteq S
  BY <1>2, <1>3, NatClosed, Zenon
<1> QED
  BY <1>1, <1>4, Zenon DEF S

\* n has k bits.
HasBits(n, k) == n < PowerOfTwo[k] /\ (k = 0 \/ PowerOfTwo[k - 1] <= n)

\* Every number has one number of bits.
LEMMA BitsUnique ==
    ASSUME NEW n \in Nat
    PROVE  /\ \E k \in Nat : HasBits(n, k)
           /\ \A j, k \in Nat : HasBits(n, j) /\ HasBits(n, k) => j = k
<1>1. \E k \in Nat : HasBits(n, k)
  <2> DEFINE T == {k \in Nat : n < PowerOfTwo[k]}
  <2>1. T \subseteq Nat /\ T # {}
    BY PowerGrows, Zenon
  <2>2. PICK k \in T : \A m \in T : k <= m
    <3> HIDE DEF T
    <3> QED BY <2>1, LeastNat, Zenon
  <2>3. k # 0 => k - 1 \in Nat /\ k - 1 \notin T
    BY <2>2
  <2>4. k # 0 => PowerOfTwo[k - 1] <= n
    BY <2>3, PowerDoubles
  <2> QED
    BY <2>2, <2>4, Zenon DEF HasBits
<1>2. ASSUME NEW j \in Nat, NEW k \in Nat, HasBits(n, j), HasBits(n, k), j < k
      PROVE  FALSE
  <2>1. k - 1 \in Nat /\ j <= k - 1
    BY <1>2
  <2>2. PowerOfTwo[j] \in Nat /\ PowerOfTwo[k - 1] \in Nat
    BY <2>1, PowerDoubles, Zenon
  <2>3. PowerOfTwo[j] <= PowerOfTwo[k - 1]
    BY <2>1, PowerGrows, Zenon
  <2> QED
    BY <1>2, <2>1, <2>2, <2>3 DEF HasBits
<1> QED
  BY <1>1, <1>2

\* Halving a number drops its last bit.
LEMMA BitsOfHalf ==
    ASSUME NEW n \in Nat \ {0}, NEW k \in Nat, HasBits(n \div 2, k)
    PROVE  HasBits(n, k + 1)
<1>1. n \div 2 \in Nat /\ 2 * (n \div 2) <= n /\ n < 2 * (n \div 2) + 2
  OBVIOUS
<1>2. PowerOfTwo[k + 1] = 2 * PowerOfTwo[k] /\ PowerOfTwo[k] \in Nat
  BY PowerDoubles, Zenon
<1>3. n < PowerOfTwo[k + 1]
  BY <1>1, <1>2 DEF HasBits
<1>4. PowerOfTwo[k] <= n
  <2>1. CASE k = 0
    BY <2>1, PowerDoubles
  <2>2. CASE k # 0
    <3>1. k - 1 \in Nat /\ (k - 1) + 1 = k
      BY <2>2
    <3>2. PowerOfTwo[k] = 2 * PowerOfTwo[k - 1] /\ PowerOfTwo[k - 1] \in Nat
      BY <3>1, PowerDoubles, Zenon
    <3> QED
      BY <1>1, <2>2, <3>2 DEF HasBits
  <2> QED
    BY <2>1, <2>2, Zenon
<1>5. (k + 1) - 1 = k
  OBVIOUS
<1> QED
  BY <1>3, <1>4, <1>5, Zenon DEF HasBits

\* BitLength counts the bits of its argument.
LEMMA BitLengthCorrect ==
    ASSUME NEW n \in Nat
    PROVE  BitLength[n] \in Nat /\ HasBits(n, BitLength[n])
<1> DEFINE Bits(m) == CHOOSE k \in Nat : HasBits(m, k)
           g == [m \in Nat |-> Bits(m)]
<1>1. \A m \in Nat : Bits(m) \in Nat /\ HasBits(m, Bits(m))
  BY BitsUnique, Zenon
<1>2. HasBits(0, 0)
  BY PowerDoubles DEF HasBits
<1> HIDE DEF Bits
<1>3. ASSUME NEW m \in Nat
      PROVE  g[m] = IF m = 0 THEN 0 ELSE 1 + g[m \div 2]
  <2>1. CASE m = 0
    BY <1>1, <1>2, <2>1, BitsUnique, Zenon
  <2>2. CASE m # 0
    <3>1. m \div 2 \in Nat
      OBVIOUS
    <3>2. HasBits(m, Bits(m \div 2) + 1)
      BY <1>1, <2>2, <3>1, BitsOfHalf, Zenon
    <3>3. Bits(m) = Bits(m \div 2) + 1
      BY <1>1, <3>1, <3>2, BitsUnique
    <3> QED
      BY <1>1, <2>2, <3>1, <3>3
  <2> QED
    BY <2>1, <2>2, Zenon
<1>4. g = [m \in Nat |-> IF m = 0 THEN 0 ELSE 1 + g[m \div 2]]
  <2>1. g = [m \in Nat |-> g[m]]
    BY Zenon
  <2> HIDE DEF g
  <2> QED BY <1>3, <2>1, Zenon
<1>5. \E f : f = [m \in Nat |-> IF m = 0 THEN 0 ELSE 1 + f[m \div 2]]
  <2> HIDE DEF g
  <2> QED BY <1>4, Zenon
<1>6. BitLength = [m \in Nat |-> IF m = 0 THEN 0 ELSE 1 + BitLength[m \div 2]]
  BY <1>5, Zenon DEF BitLength
<1> DEFINE T == {m \in Nat : ~(BitLength[m] \in Nat /\ HasBits(m, BitLength[m]))}
<1> SUFFICES ASSUME T # {} PROVE FALSE
  BY Zenon
<1>7. PICK m \in T : \A i \in T : m <= i
  <2>1. T \subseteq Nat
    BY Zenon
  <2> HIDE DEF T
  <2> QED BY <2>1, LeastNat, Zenon
<1>8. CASE m = 0
  BY <1>2, <1>6, <1>7, <1>8, Zenon
<1>9. CASE m # 0
  <2>1. m \in Nat /\ m \div 2 \in Nat /\ m \div 2 < m
    BY <1>7, <1>9
  <2>2. BitLength[m \div 2] \in Nat /\ HasBits(m \div 2, BitLength[m \div 2])
    BY <1>7, <2>1
  <2>3. BitLength[m] = BitLength[m \div 2] + 1
    <3>1. BitLength[m] = 1 + BitLength[m \div 2]
      BY <1>6, <1>9, <2>1, Zenon
    <3> QED
      BY <2>2, <3>1
  <2> QED
    BY <1>7, <1>9, <2>1, <2>2, <2>3, BitsOfHalf
<1> QED
  BY <1>8, <1>9, Zenon
-----------------------------------------------------------------------------
(* The integer square root *)

\* Quotient and remainder.
LEMMA Division ==
    ASSUME NEW a \in Nat, NEW d \in Nat \ {0}
    PROVE  /\ a \div d \in Nat
           /\ d * (a \div d) <= a
           /\ a < d * ((a \div d) + 1)
OBVIOUS

\* A Newton step never falls below the root: the mean of x and a/x is at
\* least the square root of a, up to rounding.
LEMMA StepStaysAbove ==
    ASSUME NEW a \in Nat, NEW d \in Nat \ {0}
    PROVE  /\ NewtonStep(a, d) \in Nat
           /\ a < (NewtonStep(a, d) + 1) * (NewtonStep(a, d) + 1)
<1> DEFINE q == a \div d
           y == (d + q) \div 2
<1>1. q \in Nat /\ a < d * (q + 1)
  BY Division, Zenon
<1>2. y \in Nat /\ d + q + 1 <= 2 * (y + 1)
  BY <1>1
<1>3. 4 * (d * (q + 1)) <= (d + q + 1) * (d + q + 1)
  <2> HIDE DEF q
  <2>1. (d - (q + 1)) * (d - (q + 1)) >= 0
    BY <1>1
  <2>2. (d + q + 1) * (d + q + 1) = (d - (q + 1)) * (d - (q + 1)) + 4 * (d * (q + 1))
    BY <1>1
  <2> QED
    BY <2>1, <2>2, <1>1
<1>4. (d + q + 1) * (d + q + 1) <= (2 * (y + 1)) * (2 * (y + 1))
  <2> HIDE DEF q, y
  <2> QED
    BY <1>1, <1>2
<1>5. (2 * (y + 1)) * (2 * (y + 1)) = 4 * ((y + 1) * (y + 1))
  <2> HIDE DEF q, y
  <2> QED
    BY <1>2
<1>6. NewtonStep(a, d) = y
  BY Zenon DEF NewtonStep
<1> HIDE DEF q, y
<1>7. a < (y + 1) * (y + 1)
  <2> DEFINE s == (y + 1) * (y + 1)
             p == d * (q + 1)
  <2>1. s \in Nat /\ p \in Nat
    BY <1>1, <1>2
  <2>2. 4 * p <= 4 * s
    BY <1>1, <1>2, <1>3, <1>4, <1>5
  <2>3. a < p
    BY <1>1, Zenon
  <2> HIDE DEF s, p
  <2>4. a < s
    BY <2>1, <2>2, <2>3
  <2> QED
    BY <2>4, Zenon DEF s
<1> QED
  BY <1>2, <1>6, <1>7, Zenon

\* A step that does not go down has reached the root.
LEMMA NoDescentIsRoot ==
    ASSUME NEW a \in Nat, NEW d \in Nat \ {0}, NewtonStep(a, d) >= d
    PROVE  d * d <= a
<1> DEFINE q == a \div d
<1>1. q \in Nat /\ d * q <= a
  BY Division, Zenon
<1>2. q >= d
  BY <1>1 DEF NewtonStep
<1> HIDE DEF q
<1>3. d * d <= d * q
  BY <1>1, <1>2
<1> QED
  BY <1>1, <1>3

\* The floor of the square root is unique.
LEMMA FloorUnique ==
    ASSUME NEW m \in Nat, NEW r \in Nat, NEW k \in Nat,
           IsFloorSqrt(r, m), IsFloorSqrt(k, m)
    PROVE  r = k
<1>1. ~(r + 1 <= k)
  <2> SUFFICES ASSUME r + 1 <= k
               PROVE  FALSE
    BY Zenon
  <2>1. (r + 1) * (r + 1) <= k * k
    OBVIOUS
  <2> QED
    BY <2>1 DEF IsFloorSqrt
<1>2. ~(k + 1 <= r)
  <2> SUFFICES ASSUME k + 1 <= r
               PROVE  FALSE
    BY Zenon
  <2>1. (k + 1) * (k + 1) <= r * r
    OBVIOUS
  <2> QED
    BY <2>1 DEF IsFloorSqrt
<1> QED
  BY <1>1, <1>2

\* The first guess is positive and above the square root.
LEMMA SeedAbove ==
    ASSUME NEW m \in Nat
    PROVE  IsqrtSeed(m) \in Nat \ {0} /\ m < IsqrtSeed(m) * IsqrtSeed(m)
<1> DEFINE b == BitLength[m]
           h == (b + 1) \div 2
<1>1. b \in Nat /\ HasBits(m, b)
  BY BitLengthCorrect, Zenon
<1>2. h \in Nat /\ b <= h + h
  BY <1>1
<1>3. IsqrtSeed(m) = PowerOfTwo[h]
  BY Zenon DEF IsqrtSeed
<1> HIDE DEF b, h
<1>4. PowerOfTwo[h + h] = PowerOfTwo[h] * PowerOfTwo[h]
  BY <1>2, PowerAdds, Zenon
<1>5. PowerOfTwo[b] <= PowerOfTwo[h + h]
  BY <1>1, <1>2, PowerGrows
<1>6. PowerOfTwo[b] \in Nat /\ PowerOfTwo[h + h] \in Nat /\ PowerOfTwo[h] \in Nat \ {0}
  BY <1>1, <1>2, PowerDoubles
<1>7. m < PowerOfTwo[h + h]
  BY <1>1, <1>5, <1>6 DEF HasBits
<1> QED
  BY <1>3, <1>4, <1>6, <1>7, Zenon

\* Every number has a floor root.
LEMMA FloorExists ==
    ASSUME NEW m \in Nat
    PROVE  \E r \in Nat : IsFloorSqrt(r, m)
<1> DEFINE T == {k \in Nat : m < (k + 1) * (k + 1)}
<1>1. m < (m + 1) * (m + 1)
  OBVIOUS
<1>2. PICK r \in T : \A k \in T : r <= k
  <2>1. T \subseteq Nat /\ T # {}
    BY <1>1, Zenon
  <2> HIDE DEF T
  <2> QED BY <2>1, LeastNat, Zenon
<1>3. r * r <= m
  <2>1. CASE r = 0
    BY <2>1
  <2>2. CASE r # 0
    <3>1. r - 1 \in Nat /\ r - 1 \notin T
      BY <1>2, <2>2
    <3>2. ~(m < ((r - 1) + 1) * ((r - 1) + 1))
      BY <3>1, Zenon
    <3>3. (r - 1) + 1 = r /\ r * r \in Nat
      BY <1>2
    <3> QED
      BY <3>2, <3>3
  <2> QED
    BY <2>1, <2>2, Zenon
<1> QED
  BY <1>2, <1>3, Zenon DEF IsFloorSqrt

\* isqrt_u64 computes the floor of the square root of every number: its loop,
\* started from the shifted bit length, descends to the root and stops there.
THEOREM IsqrtCorrect ==
    ASSUME NEW m \in Nat
    PROVE  Isqrt(m) \in Nat /\ IsFloorSqrt(Isqrt(m), m)
<1>1. CASE m < 2
  <2>1. m = 0 \/ m = 1
    BY <1>1
  <2> QED
    BY <1>1, <2>1 DEF Isqrt, IsFloorSqrt
<1>2. CASE ~(m < 2)
  <2> DEFINE D == Nat \ {0}
             L == CHOOSE loop : loop = [x \in D |->
                      IF NewtonStep(m, x) >= x THEN x ELSE loop[NewtonStep(m, x)]]
  <2>1. PICK r \in Nat : IsFloorSqrt(r, m)
    BY FloorExists, Zenon
  <2>2. ASSUME NEW x \in D
        PROVE  /\ NewtonStep(m, x) \in D
               /\ m < (NewtonStep(m, x) + 1) * (NewtonStep(m, x) + 1)
    <3> DEFINE y == NewtonStep(m, x)
    <3>1. y \in Nat /\ m < (y + 1) * (y + 1)
      BY StepStaysAbove, Zenon
    <3>2. y = 0 => m < (0 + 1) * (0 + 1)
      BY <3>1, Zenon
    <3>3. (0 + 1) * (0 + 1) = 1
      OBVIOUS
    <3> HIDE DEF y
    <3>4. y # 0
      BY <1>2, <3>2, <3>3
    <3> QED
      BY <3>1, <3>4, Zenon DEF y
  <2>3. ASSUME NEW x \in D, NewtonStep(m, x) >= x, m < (x + 1) * (x + 1)
        PROVE  x = r
    <3>1. x * x <= m
      BY <2>3, NoDescentIsRoot, Zenon
    <3>2. IsFloorSqrt(x, m)
      BY <2>3, <3>1, Zenon DEF IsFloorSqrt
    <3> QED
      BY <2>1, <3>2, FloorUnique, Zenon
  <2> DEFINE g == [x \in D |-> IF NewtonStep(m, x) >= x THEN x ELSE r]
  <2>4. g = [x \in D |-> IF NewtonStep(m, x) >= x THEN x ELSE g[NewtonStep(m, x)]]
    <3>1. ASSUME NEW x \in D, ~(NewtonStep(m, x) >= x)
          PROVE  g[NewtonStep(m, x)] = r
      <4>1. NewtonStep(m, x) \in D
        BY <2>2, Zenon
      <4>2. NewtonStep(m, NewtonStep(m, x)) >= NewtonStep(m, x) => NewtonStep(m, x) = r
        BY <2>2, <2>3, Zenon
      <4> QED
        BY <4>1, <4>2, Zenon
    <3> QED
      BY <3>1, Zenon
  <2>5. L = [x \in D |-> IF NewtonStep(m, x) >= x THEN x ELSE L[NewtonStep(m, x)]]
    <3> HIDE DEF g
    <3>1. \E loop : loop = [x \in D |->
              IF NewtonStep(m, x) >= x THEN x ELSE loop[NewtonStep(m, x)]]
      BY <2>4, Zenon
    <3> QED
      BY <3>1, Zenon
  <2>6. Isqrt(m) = L[IsqrtSeed(m)]
    BY <1>2, Zenon DEF Isqrt
  <2> HIDE DEF L, g
  <2> DEFINE T == {x \in D : m < (x + 1) * (x + 1) /\ L[x] # r}
  <2>7. T = {}
    <3> SUFFICES ASSUME T # {} PROVE FALSE
      BY Zenon
    <3>1. PICK x \in T : \A z \in T : x <= z
      <4>1. T \subseteq Nat
        BY Zenon
      <4> HIDE DEF T
      <4> QED BY <4>1, LeastNat, Zenon
    <3> DEFINE y == NewtonStep(m, x)
    <3>2. x \in D /\ m < (x + 1) * (x + 1) /\ L[x] # r
      BY <3>1, Zenon
    <3>3. L[x] = IF y >= x THEN x ELSE L[y]
      BY <2>5, <3>2, Zenon
    <3>4. ~(y >= x)
      BY <2>3, <3>2, <3>3, Zenon
    <3>5. y \in D /\ m < (y + 1) * (y + 1)
      BY <2>2, <3>2, Zenon
    <3> HIDE DEF y
    <3>6. y \in T
      BY <3>2, <3>3, <3>4, <3>5, Zenon
    <3> QED
      BY <3>1, <3>2, <3>4, <3>5, <3>6, Zenon
  <2>8. IsqrtSeed(m) \in D /\ m < (IsqrtSeed(m) + 1) * (IsqrtSeed(m) + 1)
    <3> DEFINE s == IsqrtSeed(m)
    <3>1. s \in Nat \ {0} /\ m < s * s
      BY SeedAbove, Zenon
    <3> HIDE DEF s
    <3>2. m < (s + 1) * (s + 1)
      BY <3>1
    <3> QED
      BY <3>1, <3>2, Zenon DEF s
  <2>9. L[IsqrtSeed(m)] = r
    BY <2>7, <2>8, Zenon
  <2> QED
    BY <2>1, <2>6, <2>9, Zenon
<1> QED
  BY <1>1, <1>2, Zenon

\* is_justifiable_after is the 3SF-mini rule of its doc comment, for all slots:
\* a distance is justifiable iff it is at most five, a square, or pronic.
THEOREM JustifiableExact ==
    \A c, f \in Nat :
        IsJustifiableAfter(c, f) <=>
            c >= f /\ (c - f <= 5 \/ Square(c - f) \/ Pronic(c - f))
<1> TAKE c, f \in Nat
<1>1. CASE ~(c >= f)
  BY <1>1, Zenon DEF IsJustifiableAfter
<1>2. CASE c >= f
  <2> DEFINE d == c - f
             r == Isqrt(d)
  <2>1. d \in Nat
    BY <1>2
  <2>2. r \in Nat /\ IsFloorSqrt(r, d)
    BY <2>1, IsqrtCorrect, Zenon
  <2>3. IsJustifiableAfter(c, f) <=> d <= 5 \/ d = r * r \/ d = r * (r + 1)
    BY <1>2, Zenon DEF IsJustifiableAfter
  <2> HIDE DEF d, r
  <2>4. ASSUME NEW k \in Nat, d = k * k \/ d = k * (k + 1)
        PROVE  k = r
    <3>1. IsFloorSqrt(k, d)
      BY <2>4 DEF IsFloorSqrt
    <3> QED
      BY <2>1, <2>2, <3>1, FloorUnique, Zenon
  <2>5. Square(d) <=> d = r * r
    BY <2>2, <2>4, Zenon DEF Square
  <2>6. Pronic(d) <=> d = r * (r + 1)
    BY <2>2, <2>4, Zenon DEF Pronic
  <2> QED
    BY <1>2, <2>3, <2>5, <2>6, Zenon DEF d
<1> QED
  BY <1>1, <1>2, Zenon

\* Nothing in isqrt_u64 or is_justifiable_after overflows, whatever the width: of
\* an argument of 2w bits the seed is at most 2^w, the root below it, and both
\* products the rule compares fit into 2w bits.
THEOREM NoOverflow ==
    ASSUME NEW w \in Nat, NEW m \in Nat, m < PowerOfTwo[2 * w]
    PROVE  /\ IsqrtSeed(m) <= PowerOfTwo[w]
           /\ Isqrt(m) < PowerOfTwo[w]
           /\ Isqrt(m) * (Isqrt(m) + 1) < PowerOfTwo[2 * w]
<1> DEFINE b == BitLength[m]
           h == (b + 1) \div 2
           p == PowerOfTwo[w]
           r == Isqrt(m)
<1>1. b \in Nat /\ HasBits(m, b)
  BY BitLengthCorrect, Zenon
<1>2. p \in Nat \ {0} /\ PowerOfTwo[2 * w] = p * p
  <2>1. 2 * w = w + w
    OBVIOUS
  <2>2. PowerOfTwo[w + w] = PowerOfTwo[w] * PowerOfTwo[w]
    BY PowerAdds, Zenon
  <2> QED
    BY <2>1, <2>2, PowerDoubles, Zenon
<1>3. b <= 2 * w
  <2> SUFFICES ASSUME 2 * w <= b - 1, b # 0
               PROVE  FALSE
    BY <1>1
  <2> HIDE DEF b
  <2>1. b - 1 \in Nat
    BY <1>1
  <2>2. PowerOfTwo[2 * w] <= PowerOfTwo[b - 1]
    BY <2>1, PowerGrows
  <2>3. PowerOfTwo[b - 1] \in Nat /\ PowerOfTwo[2 * w] \in Nat
    BY <2>1, PowerDoubles
  <2> QED
    BY <1>1, <2>2, <2>3 DEF HasBits
<1>4. IsqrtSeed(m) <= p
  <2>1. h \in Nat /\ h <= w
    BY <1>1, <1>3
  <2>2. PowerOfTwo[h] <= PowerOfTwo[w]
    <3> HIDE DEF h
    <3> QED BY <2>1, PowerGrows, Zenon
  <2> QED
    BY <2>2, Zenon DEF IsqrtSeed
<1>5. r \in Nat /\ r * r <= m
  BY IsqrtCorrect, Zenon DEF IsFloorSqrt
<1> HIDE DEF p, r, b, h
<1>6. r < p
  <2> SUFFICES ASSUME p <= r PROVE FALSE
    BY <1>2, <1>5
  <2>1. p * p <= r * r
    BY <1>2, <1>5
  <2> QED
    BY <1>2, <1>5, <2>1
<1>7. r * (r + 1) < p * p
  <2>1. r + 1 <= p
    BY <1>2, <1>5, <1>6
  <2>2. r * (r + 1) <= r * p
    BY <1>2, <1>5, <2>1
  <2>3. r * p < p * p
    BY <1>2, <1>5, <1>6
  <2> QED
    BY <1>2, <1>5, <2>2, <2>3
<1> QED
  BY <1>2, <1>4, <1>6, <1>7, Zenon DEF p, r
-----------------------------------------------------------------------------
(* isqrt_u64, step by step *)

\* The guess stays at or above the root until the loop returns the root.
IsqrtInv ==
    /\ IsqrtTypeOK
    /\ pc = "loop" => radicand >= 2 /\ radicand < (guess + 1) * (guess + 1)
    /\ ReturnsFloorSqrt

LEMMA IsqrtInitInv == IsqrtInit => IsqrtInv
BY IsqrtAssumption DEF IsqrtInit, IsqrtInv, IsqrtTypeOK, ReturnsFloorSqrt

LEMMA IsqrtStepInv == IsqrtInv /\ [IsqrtNext]_isqrt_vars => IsqrtInv'
<1> SUFFICES ASSUME IsqrtInv, [IsqrtNext]_isqrt_vars
             PROVE  IsqrtInv'
  BY Zenon
<1>0. radicand \in Nat /\ guess \in Nat
  BY IsqrtAssumption, Zenon DEF IsqrtInv, IsqrtTypeOK
<1>1. CASE Small
  <2>1. radicand = 0 \/ radicand = 1
    BY <1>0, <1>1 DEF Small
  <2> QED
    BY <1>0, <1>1, <2>1 DEF Small, IsqrtInv, IsqrtTypeOK, ReturnsFloorSqrt, IsFloorSqrt
<1>2. CASE Seed
  <2> DEFINE s == IsqrtSeed(radicand)
  <2>1. s \in Nat \ {0} /\ s * s > radicand
    BY <1>0, SeedAbove, Zenon
  <2> HIDE DEF s
  <2>2. radicand < (s + 1) * (s + 1)
    BY <1>0, <2>1
  <2>3. guess' = s /\ radicand' = radicand /\ radicand >= 2 /\ pc' = "loop"
    BY <1>2, Zenon DEF Seed, s
  <2> QED
    BY <2>1, <2>2, <2>3, Zenon DEF IsqrtInv, IsqrtTypeOK, ReturnsFloorSqrt
<1>3. CASE Iterate
  <2>1. pc = "loop" /\ pc' = pc /\ radicand' = radicand
        /\ guess' = NewtonStep(radicand, guess) /\ guess \in Nat \ {0}
    BY <1>0, <1>3, Zenon DEF Iterate, IsqrtInv, IsqrtTypeOK
  <2>2. guess' \in Nat /\ radicand < (guess' + 1) * (guess' + 1)
    BY <1>0, <2>1, StepStaysAbove, Zenon
  <2>3. guess' # 0
    <3>1. radicand >= 2
      BY <2>1, Zenon DEF IsqrtInv
    <3>2. (0 + 1) * (0 + 1) = 1
      OBVIOUS
    <3>3. guess' = 0 => radicand < (0 + 1) * (0 + 1)
      BY <2>2, Zenon
    <3> QED
      BY <3>1, <3>2, <3>3, <1>0
  <2> QED
    BY <2>1, <2>2, <2>3, Zenon DEF IsqrtInv, IsqrtTypeOK, ReturnsFloorSqrt
<1>4. CASE Return
  <2>1. pc = "loop" /\ pc' = "returned" /\ radicand' = radicand /\ guess' = guess
        /\ NewtonStep(radicand, guess) >= guess /\ guess \in Nat \ {0}
    BY <1>0, <1>4, Zenon DEF Return, IsqrtInv, IsqrtTypeOK
  <2>2. guess * guess <= radicand
    BY <1>0, <2>1, NoDescentIsRoot, Zenon
  <2> QED
    BY <2>1, <2>2, Zenon DEF IsqrtInv, IsqrtTypeOK, ReturnsFloorSqrt, IsFloorSqrt
<1>5. CASE UNCHANGED isqrt_vars
  BY <1>5, Zenon DEF isqrt_vars, IsqrtInv, IsqrtTypeOK, ReturnsFloorSqrt
<1> QED
  BY <1>1, <1>2, <1>3, <1>4, <1>5, Zenon DEF IsqrtNext

\* The loop's invariant holds in every reachable state.
THEOREM IsqrtInvariance == IsqrtSpec => []IsqrtInv
BY IsqrtInitInv, IsqrtStepInv, PTL DEF IsqrtSpec

\* isqrt_u64 never divides by zero and its guess stays a natural number.
THEOREM DivisorSafety == IsqrtSpec => []IsqrtTypeOK
<1>1. IsqrtInv => IsqrtTypeOK
  BY Zenon DEF IsqrtInv
<1> QED
  BY <1>1, IsqrtInvariance, PTL

\* isqrt_u64 returns the floor of the square root of its argument.
THEOREM FloorCorrect == IsqrtSpec => []ReturnsFloorSqrt
<1>1. IsqrtInv => ReturnsFloorSqrt
  BY Zenon DEF IsqrtInv
<1> QED
  BY <1>1, IsqrtInvariance, PTL

\* The comparisons of is_justifiable_after with the returned root accept
\* exactly the squares and the pronic numbers.
THEOREM RuleCorrect == IsqrtSpec => []ComparisonsExact
<1>1. IsqrtInv => ComparisonsExact
  <2> SUFFICES ASSUME IsqrtInv, pc = "returned"
               PROVE  /\ radicand = guess * guess <=> Square(radicand)
                      /\ radicand = guess * (guess + 1) <=> Pronic(radicand)
    BY Zenon DEF ComparisonsExact
  <2>1. radicand \in Nat /\ guess \in Nat /\ IsFloorSqrt(guess, radicand)
    BY IsqrtAssumption, Zenon DEF IsqrtInv, IsqrtTypeOK, ReturnsFloorSqrt
  <2>2. ASSUME NEW k \in Nat, radicand = k * k
        PROVE  k = guess
    <3>1. IsFloorSqrt(k, radicand)
      BY <2>2 DEF IsFloorSqrt
    <3> QED
      BY <2>1, <3>1, FloorUnique, Zenon
  <2>3. ASSUME NEW k \in Nat, radicand = k * (k + 1)
        PROVE  k = guess
    <3>1. IsFloorSqrt(k, radicand)
      BY <2>3 DEF IsFloorSqrt
    <3> QED
      BY <2>1, <3>1, FloorUnique
  <2> QED
    BY <2>1, <2>2, <2>3, Zenon DEF Square, Pronic
<1> QED
  BY <1>1, IsqrtInvariance, PTL
-----------------------------------------------------------------------------
(* The state *)

Typed(s) == s.header.slot \in Nat /\ s \in StateOfLength(s.header.slot)

CheckpointsOk(s) ==
    IF Started(s)
    THEN OnChain(s, s.latest_justified) /\ OnChain(s, s.latest_finalized)
    ELSE s.latest_justified = Zero /\ s.latest_finalized = Zero

\* Roots are hashes: no block root occurs twice in a history, and the latest
\* header's root is not in it yet.
RootsDistinct(s) ==
    /\ \A i \in History(s) : s.historical_block_hashes[i] # s.header.root
    /\ \A i, j \in History(s) :
          /\ s.historical_block_hashes[i] # ZeroRoot
          /\ s.historical_block_hashes[i] = s.historical_block_hashes[j]
          => i = j

\* Votes are only ever counted for roots of the history.
TallyOnChain(s) ==
    \A r \in Roots : s.tally[r] # {} => \E i \in History(s) : s.historical_block_hashes[i] = r

NoQuorum(s) == \A r \in Roots : ~HasSupermajority(s.tally[r])

PendingOk(s) ==
    \A i \in s.justified_slots :
        s.historical_block_hashes[i] # ZeroRoot => s.tally[s.historical_block_hashes[i]] = {}

\* The inductive invariant of one state.
Sound(s) ==
    /\ Typed(s)
    /\ CheckpointsOk(s)
    /\ s.latest_finalized.slot <= s.latest_justified.slot
    /\ RootsDistinct(s)
    /\ TallyOnChain(s)
    /\ NoQuorum(s)
    /\ PendingOk(s)

\* t is a later state of the chain s belongs to.
Extends(s, t) ==
    /\ History(s) \subseteq History(t)
    /\ \A i \in History(s) : t.historical_block_hashes[i] = s.historical_block_hashes[i]
    /\ s.justified_slots \subseteq t.justified_slots
    /\ t.latest_finalized.slot >= s.latest_finalized.slot

IInv ==
    /\ Sound(state)
    /\ Sound(work)
    /\ phase \in {"idle", "attestations"}
    /\ applied \in 0 .. MaxAttestations
    /\ phase = "idle" => work = state
    /\ phase = "attestations" => Started(work) /\ Extends(state, work)
-----------------------------------------------------------------------------
(* The slot rule, as far as the proofs need it: the finalized slot itself is *)
(* always justifiable, an earlier one never is.                              *)

\* is_justifiable_after is true at distance zero.
LEMMA JustifiableSelf ==
    ASSUME NEW f \in Nat
    PROVE  IsJustifiableAfter(f, f)
BY DEF IsJustifiableAfter

\* is_justifiable_after is false for a slot before the finalized one.
LEMMA JustifiableNotBefore ==
    ASSUME NEW c \in Nat, NEW f \in Nat, IsJustifiableAfter(c, f)
    PROVE  c >= f
BY Zenon DEF IsJustifiableAfter

\* Being a later state of the same chain is transitive.
LEMMA ExtendsTransitive ==
    ASSUME NEW s, NEW t, NEW u, Typed(s), Typed(t), Typed(u), Extends(s, t), Extends(t, u)
    PROVE  Extends(s, u)
<1>1. s.latest_finalized.slot \in Nat /\ t.latest_finalized.slot \in Nat /\ u.latest_finalized.slot \in Nat
  BY Zenon DEF Typed, StateOfLength, Checkpoint
<1> QED
  BY <1>1 DEF Extends

-----------------------------------------------------------------------------
(* process_slots and process_block_header *)

NewHeader(s, b) == ProcessBlockHeader(ProcessSlots(s, b.slot), b)

HeaderInput(s, b) ==
    /\ b \in [slot: Nat, root: Roots \ {ZeroRoot}, parent_root: Roots, proposer_index: Nat]
    /\ b.root # s.header.root
    /\ \A i \in History(s) : b.root # s.historical_block_hashes[i]
    /\ BlockHeaderOk(ProcessSlots(s, b.slot), b)

\* The fields of a state h whose header has just been replaced.
HeaderUpdate(s, b, h) ==
    LET n == s.header.slot
    IN  /\ Typed(h)
        /\ n \in Nat /\ b.slot \in Nat /\ b.slot > n
        /\ h.header.slot = b.slot
        /\ h.header.root = b.root
        /\ h.latest_justified = IF n = 0 THEN [s.latest_justified EXCEPT !.root = s.header.root]
                                         ELSE s.latest_justified
        /\ h.latest_finalized = IF n = 0 THEN [s.latest_finalized EXCEPT !.root = s.header.root]
                                         ELSE s.latest_finalized
        /\ History(s) = 0 .. n - 1
        /\ History(h) = 0 .. b.slot - 1
        /\ \A i \in 0 .. b.slot - 1 :
              h.historical_block_hashes[i] =
                  IF i < n THEN s.historical_block_hashes[i]
                  ELSE IF i = n THEN s.header.root ELSE ZeroRoot
        /\ h.justified_slots = IF n = 0 THEN s.justified_slots \cup {n} ELSE s.justified_slots
        /\ h.tally = s.tally

\* ProcessBlockHeader makes exactly that update of a well-formed state.
LEMMA HeaderFields ==
    ASSUME NEW s, Typed(s), NEW b, HeaderInput(s, b)
    PROVE  HeaderUpdate(s, b, NewHeader(s, b))
<1> DEFINE p == ProcessSlots(s, b.slot)
           h == NewHeader(s, b)
           n == s.header.slot
<1>1. n \in Nat /\ s \in StateOfLength(n) /\ b.slot \in Nat
      /\ b.root \in Roots \ {ZeroRoot} /\ b.parent_root \in Roots
  BY Zenon DEF Typed, HeaderInput
<1>2. /\ p \in StateOfLength(n)
      /\ p.slot = b.slot
      /\ p.header.slot = n
      /\ p.header.root = s.header.root
      /\ p.latest_justified = s.latest_justified
      /\ p.latest_finalized = s.latest_finalized
      /\ p.historical_block_hashes = s.historical_block_hashes
      /\ p.justified_slots = s.justified_slots
      /\ p.tally = s.tally
  BY <1>1, Zenon DEF ProcessSlots, StateOfLength
<1>3. b.slot > n /\ b.parent_root = s.header.root
  BY <1>2, Zenon DEF HeaderInput, BlockHeaderOk
<1> HIDE DEF p
<1>4. /\ h.slot = p.slot
      /\ h.header = [slot |-> b.slot, root |-> b.root, sealed |-> FALSE]
      /\ h.latest_justified = IF n = 0 THEN [s.latest_justified EXCEPT !.root = s.header.root]
                                       ELSE s.latest_justified
      /\ h.latest_finalized = IF n = 0 THEN [s.latest_finalized EXCEPT !.root = s.header.root]
                                       ELSE s.latest_finalized
      /\ h.historical_block_hashes =
             [i \in 0 .. b.slot - 1 |->
                 IF i < n THEN s.historical_block_hashes[i]
                 ELSE IF i = n THEN s.header.root ELSE ZeroRoot]
      /\ h.justified_slots = IF n = 0 THEN s.justified_slots \cup {n} ELSE s.justified_slots
      /\ h.tally = s.tally
  BY <1>2, <1>3, Zenon DEF p, NewHeader, ProcessBlockHeader, StateOfLength
<1>5. h \in StateOfLength(b.slot)
  <2> DEFINE len == p.header.slot
             Root0(cp) == IF len = 0 THEN [cp EXCEPT !.root = b.parent_root] ELSE cp
             j == Root0(p.latest_justified)
             f == Root0(p.latest_finalized)
             hist == [i \in 0 .. b.slot - 1 |->
                         IF i < len THEN p.historical_block_hashes[i]
                         ELSE IF i = len THEN b.parent_root ELSE ZeroRoot]
             just == IF len = 0 THEN p.justified_slots \cup {len} ELSE p.justified_slots
             hd == [slot |-> b.slot, root |-> b.root, sealed |-> FALSE]
  <2>1. h = [p EXCEPT !.latest_justified = j, !.latest_finalized = f,
                      !.historical_block_hashes = hist, !.justified_slots = just,
                      !.header = hd]
    BY Zenon DEF p, NewHeader, ProcessBlockHeader
  <2>2. j \in Checkpoint /\ f \in Checkpoint
    BY <1>1, <1>2, Zenon DEF StateOfLength, Checkpoint
  <2>3. hist \in [0 .. b.slot - 1 -> Roots]
    BY <1>1, <1>2, <1>3, StfAssumption DEF StateOfLength
  <2>4. just \in SUBSET (0 .. b.slot - 1)
    BY <1>1, <1>2, <1>3 DEF StateOfLength
  <2>5. hd \in [slot: {b.slot}, root: Roots \ {ZeroRoot}, sealed: BOOLEAN]
    BY <1>1, Zenon
  <2> HIDE DEF j, f, hist, just, hd
  <2> QED
    BY <1>2, <2>1, <2>2, <2>3, <2>4, <2>5, Zenon DEF StateOfLength
<1>6. Typed(h)
  BY <1>1, <1>4, <1>5 DEF Typed
<1>7. History(s) = 0 .. n - 1
  BY <1>1, Zenon DEF History, StateOfLength
<1>8. History(h) = 0 .. b.slot - 1
  BY <1>4, Zenon DEF History
<1> HIDE DEF h
<1>9. HeaderUpdate(s, b, h)
  BY <1>1, <1>3, <1>4, <1>6, <1>7, <1>8 DEF HeaderUpdate
<1> QED
  BY <1>9, Zenon DEF h

\* Applying a block's header keeps a state sound and only extends its chain.
LEMMA HeaderSound ==
    ASSUME NEW s, Sound(s), NEW b, HeaderInput(s, b)
    PROVE  /\ Sound(NewHeader(s, b))
           /\ Started(NewHeader(s, b))
           /\ Extends(s, NewHeader(s, b))
<1> DEFINE h == NewHeader(s, b)
           n == s.header.slot
<1>1. Typed(s)
  BY Zenon DEF Sound
<1>2. HeaderUpdate(s, b, h)
  BY <1>1, HeaderFields, Zenon
<1>3. /\ s.latest_justified \in Checkpoint /\ s.latest_finalized \in Checkpoint
      /\ s.justified_slots \subseteq 0 .. n - 1
      /\ s.header.root \in Roots \ {ZeroRoot}
      /\ s.historical_block_hashes \in [0 .. n - 1 -> Roots]
  BY <1>1, Zenon DEF Typed, StateOfLength
<1> HIDE DEF h
<1>4. b.root # ZeroRoot /\ b.root # s.header.root
      /\ \A i \in 0 .. n - 1 : b.root # s.historical_block_hashes[i]
  BY <1>2, Zenon DEF HeaderInput, HeaderUpdate
<1>5. Started(h)
  BY <1>2 DEF Started, HeaderUpdate
<1>6. CheckpointsOk(h) /\ h.latest_finalized.slot <= h.latest_justified.slot
      /\ h.latest_finalized.slot = s.latest_finalized.slot
  <2>1. CASE n = 0
    <3>1. s.latest_justified = Zero /\ s.latest_finalized = Zero
      BY <2>1 DEF Sound, CheckpointsOk, Started
    <3>2. /\ h.latest_justified.slot = 0 /\ h.latest_justified.root = s.header.root
          /\ h.latest_finalized.slot = 0 /\ h.latest_finalized.root = s.header.root
      BY <1>2, <2>1, <3>1 DEF Zero, HeaderUpdate
    <3>3. 0 \in h.justified_slots /\ h.historical_block_hashes[0] = s.header.root
      BY <1>2, <2>1 DEF HeaderUpdate
    <3>4. s.latest_finalized.slot = 0
      BY <3>1 DEF Zero
    <3> QED
      BY <1>5, <3>2, <3>3, <3>4 DEF CheckpointsOk, OnChain
  <2>2. CASE n # 0
    <3>1. /\ OnChain(s, s.latest_justified) /\ OnChain(s, s.latest_finalized)
          /\ s.latest_finalized.slot <= s.latest_justified.slot
      BY <1>2, <2>2 DEF Sound, CheckpointsOk, Started, HeaderUpdate
    <3>2. /\ h.latest_justified = s.latest_justified /\ h.latest_finalized = s.latest_finalized
          /\ h.justified_slots = s.justified_slots
      BY <1>2, <2>2, Zenon DEF HeaderUpdate
    <3>3. OnChain(h, h.latest_justified) /\ OnChain(h, h.latest_finalized)
      BY <1>2, <1>3, <3>1, <3>2 DEF OnChain, HeaderUpdate
    <3> QED
      BY <1>5, <3>1, <3>2, <3>3, Zenon DEF CheckpointsOk
  <2> QED
    BY <2>1, <2>2, Zenon
<1>7. RootsDistinct(h)
  BY <1>2, <1>3, <1>4 DEF Sound, RootsDistinct, HeaderUpdate
<1>8. TallyOnChain(h)
  BY <1>2, <1>3 DEF Sound, TallyOnChain, HeaderUpdate
<1>9. NoQuorum(h)
  BY <1>2, Zenon DEF Sound, NoQuorum, HeaderUpdate
<1>10. PendingOk(h)
  <2>1. CASE n = 0
    <3>1. History(s) = {}
      BY <1>2, <2>1 DEF HeaderUpdate
    <3>2. \A r \in Roots : s.tally[r] = {}
      BY <3>1, Zenon DEF Sound, TallyOnChain
    <3>3. h.justified_slots \subseteq 0 .. b.slot - 1 /\ h.historical_block_hashes \in [0 .. b.slot - 1 -> Roots]
      BY <1>2, Zenon DEF Typed, StateOfLength, HeaderUpdate
    <3> QED
      BY <1>2, <3>2, <3>3, Zenon DEF PendingOk, HeaderUpdate
  <2>2. CASE n # 0
    <3>1. h.justified_slots = s.justified_slots
      BY <1>2, <2>2, Zenon DEF HeaderUpdate
    <3>2. \A i \in s.justified_slots : h.historical_block_hashes[i] = s.historical_block_hashes[i]
      BY <1>2, <1>3 DEF HeaderUpdate
    <3> QED
      BY <1>2, <3>1, <3>2, Zenon DEF Sound, PendingOk, HeaderUpdate
  <2> QED
    BY <2>1, <2>2, Zenon
<1>11. Extends(s, h)
  <2>1. h.latest_finalized.slot >= s.latest_finalized.slot
    BY <1>3, <1>6 DEF Checkpoint
  <2> QED
    BY <1>2, <1>3, <2>1 DEF Extends, HeaderUpdate
<1> QED
  BY <1>2, <1>5, <1>6, <1>7, <1>8, <1>9, <1>10, <1>11, Zenon DEF Sound, h, HeaderUpdate

-----------------------------------------------------------------------------
(* One vote of process_attestations *)

VoteInput(s, att) ==
    /\ att \in [validator_id: Nat, source: Checkpoint, target: Checkpoint]
    /\ AttestationInRange(s, att)

\* What justifying the target of a vote changes.
JustifyUpdate(s, att, t) ==
    /\ Typed(t)
    /\ t.header = s.header
    /\ t.historical_block_hashes = s.historical_block_hashes
    /\ t.justified_slots = s.justified_slots \cup {att.target.slot}
    /\ t.latest_justified = att.target
    /\ t.latest_finalized = IF NoIntermediate(s, att) THEN att.source ELSE s.latest_finalized
    /\ \A r \in Roots : t.tally[r] = IF r = att.target.root THEN {} ELSE s.tally[r]

\* What counting a vote without reaching a supermajority changes.
TallyUpdate(s, att, t) ==
    /\ Typed(t)
    /\ t.header = s.header
    /\ t.historical_block_hashes = s.historical_block_hashes
    /\ t.justified_slots = s.justified_slots
    /\ t.latest_justified = s.latest_justified
    /\ t.latest_finalized = s.latest_finalized
    /\ \A r \in Roots : t.tally[r] = IF r = att.target.root THEN s.tally[r] \cup {att.validator_id}
                                                            ELSE s.tally[r]

\* Justify makes exactly the first of these updates.
LEMMA JustifyFields ==
    ASSUME NEW s, Typed(s), NEW att, VoteInput(s, att)
    PROVE  JustifyUpdate(s, att, Justify(s, att))
<1> DEFINE t == Justify(s, att)
           n == s.header.slot
           f == IF NoIntermediate(s, att) THEN att.source ELSE s.latest_finalized
<1>1. /\ n \in Nat /\ s \in StateOfLength(n)
      /\ att.target \in Checkpoint /\ att.source \in Checkpoint
      /\ att.target.slot \in 0 .. n - 1 /\ att.target.root \in Roots
      /\ f \in Checkpoint
  BY Zenon DEF Typed, VoteInput, AttestationInRange, History, StateOfLength, Checkpoint
<1>2. t = [s EXCEPT !.latest_justified = att.target,
                    !.justified_slots = @ \cup {att.target.slot},
                    !.tally[att.target.root] = {},
                    !.latest_finalized = f]
  BY Zenon DEF Justify
<1> HIDE DEF f, t
<1>3. t \in StateOfLength(n)
  BY <1>1, <1>2, Zenon DEF StateOfLength
<1>4. /\ t.header = s.header
      /\ t.historical_block_hashes = s.historical_block_hashes
      /\ t.justified_slots = s.justified_slots \cup {att.target.slot}
      /\ t.latest_justified = att.target
      /\ t.latest_finalized = f
      /\ \A r \in Roots : t.tally[r] = IF r = att.target.root THEN {} ELSE s.tally[r]
  BY <1>1, <1>2, Zenon DEF StateOfLength
<1>5. Typed(t)
  BY <1>1, <1>3, <1>4, Zenon DEF Typed
<1> QED
  BY <1>4, <1>5, Zenon DEF JustifyUpdate, f, t

\* Tally makes exactly the second.
LEMMA TallyFields ==
    ASSUME NEW s, Typed(s), NEW att, VoteInput(s, att)
    PROVE  TallyUpdate(s, att, Tally(s, att))
<1> DEFINE t == Tally(s, att)
           n == s.header.slot
<1>1. /\ n \in Nat /\ s \in StateOfLength(n)
      /\ att.target.root \in Roots
      /\ att.validator_id \in Validators
  BY Zenon DEF Typed, VoteInput, AttestationInRange, Checkpoint
<1>2. t = [s EXCEPT !.tally[att.target.root] = @ \cup {att.validator_id}]
  BY Zenon DEF Tally
<1> HIDE DEF t
<1>3. t \in StateOfLength(n)
  BY <1>1, <1>2, Zenon DEF StateOfLength
<1>4. /\ t.header = s.header
      /\ t.historical_block_hashes = s.historical_block_hashes
      /\ t.justified_slots = s.justified_slots
      /\ t.latest_justified = s.latest_justified
      /\ t.latest_finalized = s.latest_finalized
      /\ \A r \in Roots : t.tally[r] = IF r = att.target.root THEN s.tally[r] \cup {att.validator_id}
                                                              ELSE s.tally[r]
  BY <1>1, <1>2, Zenon DEF StateOfLength
<1>5. Typed(t)
  BY <1>1, <1>3, <1>4, Zenon DEF Typed
<1> QED
  BY <1>4, <1>5, Zenon DEF TallyUpdate, t

\* No vote is a supermajority of nobody.
LEMMA EmptyIsNoQuorum == ~HasSupermajority({})
BY FS_EmptySet, StfAssumption DEF HasSupermajority

\* The heart of the argument.  An acceptable vote's target lies after the
\* finalized slot.  If its source lies before the finalized slot, that slot is
\* strictly between the two and justifiable, so the scan for an intermediate
\* justifiable slot finds it and the source is not finalized.
LEMMA FinalizationAdvances ==
    ASSUME NEW s, Sound(s), Started(s), NEW att, VoteInput(s, att), Acceptable(s, att)
    PROVE  /\ att.target.slot > s.latest_finalized.slot
           /\ NoIntermediate(s, att) => att.source.slot >= s.latest_finalized.slot
<1> DEFINE f == s.latest_finalized.slot
<1>1. f \in Nat /\ att.source.slot \in Nat /\ att.target.slot \in Nat
  BY Zenon DEF Sound, Typed, StateOfLength, Checkpoint, VoteInput
<1>2. att.target.slot >= f
  BY <1>1, JustifiableNotBefore, Zenon DEF Acceptable
<1>3. att.target.slot # f
  BY Zenon DEF Sound, CheckpointsOk, OnChain, Acceptable
<1>4. att.target.slot > f
  BY <1>1, <1>2, <1>3
<1>5. ASSUME NoIntermediate(s, att), att.source.slot < f
      PROVE  FALSE
  <2>1. f \in att.source.slot + 1 .. att.target.slot - 1
    BY <1>1, <1>4, <1>5
  <2>2. ~IsJustifiableAfter(f, f)
    BY <1>5, <2>1, Zenon DEF NoIntermediate
  <2> QED
    BY <1>1, <2>2, JustifiableSelf, Zenon
<1> QED
  BY <1>1, <1>4, <1>5

\* Justifying the target of an acceptable vote keeps a state sound.
LEMMA JustifySound ==
    ASSUME NEW s, Sound(s), Started(s), NEW att, VoteInput(s, att), Acceptable(s, att),
           NEW t, JustifyUpdate(s, att, t)
    PROVE  Sound(t) /\ Started(t) /\ Extends(s, t)
<1>1. /\ s.latest_finalized.slot \in Nat
      /\ att.source \in Checkpoint /\ att.target \in Checkpoint
      /\ att.source.slot \in Nat /\ att.target.slot \in Nat
      /\ att.target.root \in Roots
      /\ att.source.slot \in History(s) /\ att.target.slot \in History(s)
      /\ s.justified_slots \subseteq History(s)
      /\ s.historical_block_hashes \in [History(s) -> Roots]
  BY Zenon DEF Sound, Typed, StateOfLength, Checkpoint, VoteInput, AttestationInRange, History
<1>2. /\ t.header = s.header /\ Typed(t)
      /\ History(t) = History(s)
      /\ t.historical_block_hashes = s.historical_block_hashes
      /\ t.justified_slots = s.justified_slots \cup {att.target.slot}
      /\ t.latest_justified = att.target
      /\ t.latest_finalized \in {att.source, s.latest_finalized}
      /\ ~NoIntermediate(s, att) => t.latest_finalized = s.latest_finalized
  BY Zenon DEF JustifyUpdate, History
<1>3. Started(t)
  BY <1>2, Zenon DEF Started
<1>4. /\ att.source.slot \in s.justified_slots
      /\ att.source.root = s.historical_block_hashes[att.source.slot]
      /\ att.target.root = s.historical_block_hashes[att.target.slot]
      /\ att.target.slot > att.source.slot
  BY Zenon DEF Acceptable
<1>5. att.target.slot > s.latest_finalized.slot
      /\ (NoIntermediate(s, att) => att.source.slot >= s.latest_finalized.slot)
  BY FinalizationAdvances, Zenon
<1>6. t.latest_finalized.slot >= s.latest_finalized.slot
      /\ t.latest_finalized.slot <= t.latest_justified.slot
  BY <1>1, <1>2, <1>4, <1>5
<1>7. CheckpointsOk(t)
  <2>1. OnChain(s, s.latest_finalized)
    BY Zenon DEF Sound, CheckpointsOk
  <2>2. OnChain(t, t.latest_justified)
    BY <1>2, <1>4, Zenon DEF OnChain
  <2>3. OnChain(t, t.latest_finalized)
    BY <1>2, <1>4, <2>1, Zenon DEF OnChain
  <2> QED
    BY <1>3, <2>2, <2>3, Zenon DEF CheckpointsOk
<1>8. RootsDistinct(t)
  BY <1>2, Zenon DEF Sound, RootsDistinct
<1>9. TallyOnChain(t)
  BY <1>2, Zenon DEF Sound, TallyOnChain, JustifyUpdate
<1>10. NoQuorum(t)
  <2>1. \A r \in Roots : t.tally[r] \in {{}, s.tally[r]}
    BY Zenon DEF JustifyUpdate
  <2> QED
    BY <2>1, EmptyIsNoQuorum, Zenon DEF Sound, NoQuorum
<1>11. PendingOk(t)
  BY <1>1, <1>2, <1>4 DEF Sound, PendingOk, JustifyUpdate
<1>12. Extends(s, t)
  BY <1>2, <1>6, Zenon DEF Extends
<1> QED
  BY <1>2, <1>3, <1>6, <1>7, <1>8, <1>9, <1>10, <1>11, <1>12, Zenon DEF Sound

\* Counting an acceptable vote that reaches no supermajority keeps it sound.
LEMMA TallySound ==
    ASSUME NEW s, Sound(s), Started(s), NEW att, VoteInput(s, att), Acceptable(s, att),
           ~HasSupermajority(s.tally[att.target.root] \cup {att.validator_id}),
           NEW t, TallyUpdate(s, att, t)
    PROVE  Sound(t) /\ Started(t) /\ Extends(s, t)
<1>1. /\ att.target.root \in Roots
      /\ att.target.slot \in History(s)
      /\ s.historical_block_hashes[att.target.slot] = att.target.root
      /\ att.target.slot \notin s.justified_slots
      /\ s.justified_slots \subseteq History(s)
      /\ s.latest_finalized.slot \in Nat
      /\ s.historical_block_hashes \in [History(s) -> Roots]
  BY Zenon DEF Sound, Typed, StateOfLength, Checkpoint, VoteInput, AttestationInRange, History, Acceptable
<1>2. /\ t.header = s.header /\ Typed(t)
      /\ History(t) = History(s)
      /\ t.historical_block_hashes = s.historical_block_hashes
      /\ t.justified_slots = s.justified_slots
      /\ t.latest_justified = s.latest_justified
      /\ t.latest_finalized = s.latest_finalized
      /\ \A r \in Roots : t.tally[r] = IF r = att.target.root THEN s.tally[r] \cup {att.validator_id}
                                                              ELSE s.tally[r]
  BY Zenon DEF TallyUpdate, History
<1>3. Started(t)
  BY <1>2, Zenon DEF Started
<1>4. CheckpointsOk(t) /\ t.latest_finalized.slot <= t.latest_justified.slot
  BY <1>2, <1>3, Zenon DEF Sound, CheckpointsOk, OnChain
<1>5. RootsDistinct(t)
  BY <1>2, Zenon DEF Sound, RootsDistinct
<1>6. TallyOnChain(t)
  BY <1>1, <1>2, ZenonT(30) DEF Sound, TallyOnChain
<1>7. NoQuorum(t)
  BY <1>2, Zenon DEF Sound, NoQuorum
<1>8. PendingOk(t)
  <2> SUFFICES ASSUME NEW i \in s.justified_slots, s.historical_block_hashes[i] # ZeroRoot
               PROVE  t.tally[s.historical_block_hashes[i]] = {}
    BY <1>2, Zenon DEF PendingOk
  <2>1. s.historical_block_hashes[i] \in Roots /\ s.tally[s.historical_block_hashes[i]] = {}
    BY <1>1, Zenon DEF Sound, PendingOk
  <2>2. s.historical_block_hashes[i] # att.target.root
    BY <1>1, Zenon DEF Sound, RootsDistinct
  <2> QED
    BY <1>2, <2>1, <2>2, Zenon
<1>9. Extends(s, t)
  BY <1>1, <1>2 DEF Extends
<1> QED
  BY <1>2, <1>3, <1>4, <1>5, <1>6, <1>7, <1>8, <1>9, Zenon DEF Sound

\* One iteration of the loop keeps the working copy sound.
LEMMA VoteSound ==
    ASSUME NEW s, Sound(s), Started(s), NEW att, VoteInput(s, att)
    PROVE  /\ Sound(ProcessAttestation(s, att))
           /\ Started(ProcessAttestation(s, att))
           /\ Extends(s, ProcessAttestation(s, att))
<1>0. Typed(s)
  BY Zenon DEF Sound
<1>1. CASE ~Acceptable(s, att)
  <2>1. s.latest_finalized.slot \in Nat
    BY <1>0, Zenon DEF Typed, StateOfLength, Checkpoint
  <2> QED
    BY <1>1, <2>1 DEF ProcessAttestation, Extends
<1>2. CASE Acceptable(s, att) /\ HasSupermajority(s.tally[att.target.root] \cup {att.validator_id})
  <2>1. ProcessAttestation(s, att) = Justify(s, att)
    BY <1>2, Zenon DEF ProcessAttestation
  <2> QED
    BY <1>0, <1>2, <2>1, JustifyFields, JustifySound, Zenon
<1>3. CASE Acceptable(s, att) /\ ~HasSupermajority(s.tally[att.target.root] \cup {att.validator_id})
  <2>1. ProcessAttestation(s, att) = Tally(s, att)
    BY <1>3, Zenon DEF ProcessAttestation
  <2> QED
    BY <1>0, <1>3, <2>1, TallyFields, TallySound, Zenon
<1> QED
  BY <1>1, <1>2, <1>3, Zenon

-----------------------------------------------------------------------------
(* The specification *)

\* The genesis state is sound.
LEMMA GenesisSound == Sound(GenesisState) /\ ~Started(GenesisState)
<1> DEFINE g == GenesisState
<1>1. /\ g.header.slot = 0
      /\ g.latest_justified = Zero /\ g.latest_finalized = Zero
      /\ History(g) = {} /\ g.justified_slots = {}
      /\ \A r \in Roots : g.tally[r] = {}
  BY Zenon DEF GenesisState, History, Empty
<1>2. Typed(g)
  <2>1. Zero \in Checkpoint
    BY StfAssumption, Zenon DEF Zero, Checkpoint
  <2>2. Empty \in [0 .. 0 - 1 -> Roots]
    BY DEF Empty
  <2>3. [r \in Roots |-> {}] \in [Roots -> SUBSET Validators]
    BY Zenon
  <2> QED
    BY <2>1, <2>2, <2>3, StfAssumption, Zenon DEF GenesisState, Typed, StateOfLength
<1>3. ~Started(g) /\ CheckpointsOk(g)
  BY <1>1 DEF Started, CheckpointsOk
<1>4. RootsDistinct(g) /\ TallyOnChain(g) /\ NoQuorum(g) /\ PendingOk(g)
  BY <1>1, EmptyIsNoQuorum, Zenon DEF RootsDistinct, TallyOnChain, NoQuorum, PendingOk
<1>5. g.latest_finalized.slot <= g.latest_justified.slot
  BY <1>1 DEF Zero
<1> QED
  BY <1>2, <1>3, <1>4, <1>5, Zenon DEF Sound

\* The inductive invariant holds initially.
LEMMA InitInv == Init => IInv
BY GenesisSound, LoopAssumption DEF Init, IInv

\* Every step preserves it: Begin by the header lemma, ApplyVote by the vote
\* lemma, and the three ways a transition ends copy one of the two states.
LEMMA StepInv == IInv /\ [Next]_vars => IInv'
<1> SUFFICES ASSUME IInv, [Next]_vars
             PROVE  IInv'
  OBVIOUS
<1> USE LoopAssumption
<1>1. ASSUME NEW b \in Blocks, Begin(b)
      PROVE  IInv'
  <2>1. HeaderInput(state, b) /\ work' = NewHeader(state, b) /\ state' = state
        /\ phase' = "attestations" /\ applied' = 0
    BY <1>1, Zenon DEF Begin, Fresh, HeaderInput, NewHeader
  <2>2. Sound(state)
    BY Zenon DEF IInv
  <2>3. Sound(work') /\ Started(work') /\ Extends(state, work')
    BY <2>1, <2>2, HeaderSound, Zenon
  <2> QED
    BY <2>1, <2>2, <2>3 DEF IInv
<1>2. ASSUME NEW att \in Attestations, ApplyVote(att)
      PROVE  IInv'
  <2>1. /\ phase = "attestations" /\ phase' = phase
        /\ state' = state
        /\ applied' \in 0 .. MaxAttestations
        /\ work' = ProcessAttestation(work, att)
        /\ VoteInput(work, att)
    BY <1>2 DEF ApplyVote, VoteInput, IInv
  <2>2. Sound(state) /\ Sound(work) /\ Started(work) /\ Extends(state, work)
    BY <2>1, Zenon DEF IInv
  <2>3. Sound(work') /\ Started(work') /\ Extends(work, work')
    BY <2>1, <2>2, VoteSound, Zenon
  <2>4. Extends(state, work')
    BY <2>2, <2>3, ExtendsTransitive, Zenon DEF Sound
  <2> QED
    BY <2>1, <2>2, <2>3, <2>4, Zenon DEF IInv
<1>3. ASSUME NEW att \in Attestations, Abort(att)
      PROVE  IInv'
  BY <1>3 DEF Abort, IInv
<1>4. CASE StateRootMismatch
  BY <1>4 DEF StateRootMismatch, IInv
<1>5. CASE Commit
  BY <1>5 DEF Commit, IInv
<1>6. CASE UNCHANGED vars
  BY <1>6, Zenon DEF vars, IInv
<1> QED
  BY <1>1, <1>2, <1>3, <1>4, <1>5, <1>6, Zenon DEF Next

\* For every instance, the inductive invariant holds in every reachable state.
THEOREM Invariance == Spec => []IInv
BY InitInv, StepInv, PTL DEF Spec

\* Both states keep the shape that state_transition relies on.
THEOREM TypeCorrectness == Spec => []TypeOK
<1>1. IInv => TypeOK
  BY Zenon DEF IInv, Sound, Typed, TypeOK
<1> QED
  BY <1>1, Invariance, PTL

\* latest_justified and latest_finalized always name justified slots of the
\* state's own chain.
THEOREM CheckpointSafety == Spec => []CheckpointsOnChain
<1>1. IInv => CheckpointsOnChain
  BY Zenon DEF IInv, Sound, CheckpointsOk, CheckpointsOnChain
<1> QED
  BY <1>1, Invariance, PTL

\* The finalized slot never overtakes the justified one.
THEOREM FinalizedBelowJustified == Spec => []FinalizedNotAboveJustified
<1>1. IInv => FinalizedNotAboveJustified
  BY Zenon DEF IInv, Sound, FinalizedNotAboveJustified
<1> QED
  BY <1>1, Invariance, PTL

\* The tally never carries a supermajority, nor votes for a justified block.
THEOREM TallySafety == Spec => [](NoQuorumLeftInTally /\ PendingTargetsUnjustified)
<1>1. IInv => NoQuorumLeftInTally /\ PendingTargetsUnjustified
  BY Zenon DEF IInv, Sound, NoQuorum, PendingOk, NoQuorumLeftInTally, PendingTargetsUnjustified
<1> QED
  BY <1>1, Invariance, PTL

\* state_transition implements the abstract Finality specification: the
\* committed chain only grows, justification is never withdrawn, and the
\* finalized checkpoint stays on the chain and never moves back.
THEOREM Refinement == Spec => ImplementsFinality
<1>1. Init => F!Init
  BY DEF Init, F!Init, GenesisState, Zero, Empty
<1>2. IInv /\ [Next]_vars => [F!Grow]_(F!finalityVars)
  <2> SUFFICES ASSUME IInv, [Next]_vars
               PROVE  F!Grow \/ UNCHANGED F!finalityVars
    BY Zenon
  <2>1. CASE state' = state
    BY <2>1, Zenon DEF F!finalityVars
  <2>2. CASE Commit
    <3>1. state' = work /\ Sound(work) /\ Started(work) /\ Extends(state, work)
      BY <2>2, Zenon DEF Commit, IInv
    <3>2. F!OnChain(work.historical_block_hashes, work.justified_slots, work.latest_finalized)
      BY <3>1, Zenon DEF Sound, CheckpointsOk, OnChain, F!OnChain, Typed, StateOfLength
    <3> QED
      BY <3>1, <3>2, Zenon DEF F!Grow, Extends, History
  <2> QED
    BY <2>1, <2>2, Zenon DEF Next, Begin, ApplyVote, Abort, StateRootMismatch, vars
<1> QED
  BY <1>1, <1>2, Invariance, PTL DEF Spec, ImplementsFinality, F!Spec
=============================================================================
