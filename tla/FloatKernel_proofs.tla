-------------------------- MODULE FloatKernel_proofs --------------------------
(***************************************************************************)
(* Proofs about FloatKernel, for any precision, any vectors of numbers of  *)
(* that precision and any number of callers: the result does not depend on *)
(* the order of the additions when all partial sums are exact, and never   *)
(* has a larger error than n - 1 roundings allow.                          *)
(*                                                                         *)
(* The invariant says of every partial sum what the elements in it come    *)
(* to: their sum, the sum of their absolute values and their number.  What *)
(* those add up to over all the partial sums is known, since no element is *)
(* lost and none is added twice (Tally).  The error of a partial sum is    *)
(* bounded by the other two (Partial), also when two are added.            *)
(*                                                                         *)
(* The powers of two and the sums of a vector are recursive functions.     *)
(* That they are what their definitions say follows from the recursion     *)
(* theorem, proved here for functions rather than operators, and what they *)
(* are for every number from the least one for which it would be false.    *)
(***************************************************************************)
EXTENDS FloatKernel, WellFoundedInduction, TLAPS

(* Recursion.                                                                *)

Below == {p \in Nat \X Nat : p[1] < p[2]}

\* A set of numbers that is not empty has a least one.
LEMMA Least ==
  ASSUME NEW T \in SUBSET Nat, T # {}
  PROVE  \E n \in T : \A m \in T : n <= m
<1>1. IsWellFoundedOn(OpToRel(<, Nat), Nat)
  BY NatLessThanWellFounded
<1>2. OpToRel(<, Nat) = Below
  BY DEF OpToRel, Below
<1>3. IsWellFoundedOn(Below, Nat)
  BY <1>1, <1>2
<1>4. PICK n \in T : \A m \in T : <<m, n>> \notin Below
  BY <1>3, WFMin
<1>5. ASSUME NEW m \in T PROVE n <= m
  <2>1. m \in Nat /\ n \in Nat /\ <<m, n>> \notin Below
    BY <1>4
  <2>2. ~ (m < n)
    BY <2>1 DEF Below
  <2> QED BY <2>1, <2>2
<1> QED
  BY <1>5

\* h is what starts at a and is continued by F, up to n.
Continues(a, F, n, h) ==
  /\ h[0] = a
  /\ \A k \in Nat : k < n => h[k + 1] = F[k][h[k]]

\* Two continuations agree as far as both go.
LEMMA ContinuesOnce ==
  ASSUME NEW a, NEW F, NEW n \in Nat, NEW m \in Nat, NEW g, NEW h,
         Continues(a, F, n, g), Continues(a, F, m, h),
         NEW k \in Nat, k <= n, k <= m
  PROVE  g[k] = h[k]
<1> DEFINE T == {x \in Nat : x <= n /\ x <= m /\ g[x] # h[x]}
<1> SUFFICES ASSUME T # {} PROVE FALSE
  OBVIOUS
<1>1. PICK x \in T : \A y \in T : x <= y
  BY Least
<1>2. x # 0
  BY DEF Continues
<1>3. x - 1 \in Nat /\ (x - 1) + 1 = x /\ x - 1 < n /\ x - 1 < m /\ ~ (x <= x - 1)
  BY <1>2
<1>4. g[x - 1] = h[x - 1]
  BY <1>1, <1>3
<1>5. g[x] = F[x - 1][g[x - 1]] /\ h[x] = F[x - 1][h[x - 1]]
  BY <1>3 DEF Continues
<1> QED BY <1>4, <1>5

\* What a recursive definition needs to go from one number to the next.
Successor(S) == [Nat -> [S -> S]]

\* g starts at a and continues by F without end.
Recurs(S, a, F, g) ==
  g \in [Nat -> S] /\ g[0] = a /\ \A n \in Nat : g[n + 1] = F[n][g[n]]

\* The recursion theorem: there is a function that starts at a and continues
\* by F.
LEMMA Recursion ==
  ASSUME NEW S, NEW a \in S, NEW F \in Successor(S)
  PROVE  \E g : Recurs(S, a, F, g)
<1>1. F \in [Nat -> [S -> S]]
  BY DEF Successor
<1> DEFINE Good(n) == \E h \in [Nat -> S] : Continues(a, F, n, h)
           T == {n \in Nat : ~ Good(n)}
<1>2. ASSUME T # {} PROVE FALSE
  <2>1. PICK n \in T : \A y \in T : n <= y
    BY <1>2, Least
  <2>2. n # 0
    <3>1. [k \in Nat |-> a] \in [Nat -> S] /\ Continues(a, F, 0, [k \in Nat |-> a])
      BY DEF Continues
    <3> QED BY <3>1
  <2>3. n - 1 \in Nat /\ ~ (n <= n - 1)
    BY <2>2
  <2>4. PICK h \in [Nat -> S] : Continues(a, F, n - 1, h)
    BY <2>1, <2>3
  <2> DEFINE h2 == [h EXCEPT ![n] = F[n - 1][h[n - 1]]]
  <2>5. h2 \in [Nat -> S] /\ h2[n] = F[n - 1][h[n - 1]] /\ \A k \in Nat : k # n => h2[k] = h[k]
    BY <1>1, <2>3
  <2> HIDE DEF h2
  <2>6. h2[0] = a
    BY <2>2, <2>4, <2>5 DEF Continues
  <2>7. ASSUME NEW k \in Nat, k < n PROVE h2[k + 1] = F[k][h2[k]]
    <3>1. h2[k] = h[k]
      BY <2>5, <2>7
    <3>2. CASE k + 1 = n
      <4>1. k = n - 1
        BY <3>2
      <4> QED BY <4>1, <3>2, <3>1, <2>5
    <3>3. CASE k + 1 # n
      <4>1. k < n - 1 /\ k + 1 \in Nat
        BY <3>3, <2>7
      <4> QED BY <4>1, <3>3, <3>1, <2>5, <2>4 DEF Continues
    <3> QED BY <3>2, <3>3
  <2>8. Continues(a, F, n, h2)
    BY <2>6, <2>7 DEF Continues
  <2> QED BY <2>5, <2>8
<1>3. \A n \in Nat : Good(n)
  BY <1>2
<1> DEFINE H(n) == CHOOSE h \in [Nat -> S] : Continues(a, F, n, h)
<1>4. ASSUME NEW n \in Nat PROVE H(n) \in [Nat -> S] /\ Continues(a, F, n, H(n))
  BY <1>3
<1> HIDE DEF H
<1> DEFINE g == [n \in Nat |-> H(n)[n]]
<1>5. g \in [Nat -> S]
  BY <1>4
<1>6. g[0] = a
  BY <1>4 DEF Continues
<1>7. ASSUME NEW n \in Nat PROVE g[n + 1] = F[n][g[n]]
  <2>1. H(n + 1)[n + 1] = F[n][H(n + 1)[n]]
    BY <1>4 DEF Continues
  <2>2. Continues(a, F, n, H(n)) /\ Continues(a, F, n + 1, H(n + 1))
    BY <1>4
  <2>3. H(n + 1)[n] = H(n)[n]
    BY <2>2, ContinuesOnce
  <2> QED BY <2>1, <2>3
<1> HIDE DEF g
<1>8. Recurs(S, a, F, g)
  BY <1>5, <1>6, <1>7 DEF Recurs
<1> QED BY <1>8

\* The powers of two are what their definition says.
LEMMA TwoPowers ==
  /\ Two \in [Nat -> Nat] /\ Two[0] = 1
  /\ \A n \in Nat : Two[n + 1] = 2 * Two[n]
<1> DEFINE Body(f) == [n \in Nat |-> IF n = 0 THEN 1 ELSE 2 * f[n - 1]]
<1>1. PICK F \in [Nat -> [Nat -> Nat]] : \A n \in Nat : \A x \in Nat : F[n][x] = 2 * x
  <2> DEFINE D == [x \in Nat |-> 2 * x]
  <2>1. D \in [Nat -> Nat] /\ \A x \in Nat : D[x] = 2 * x
    OBVIOUS
  <2> HIDE DEF D
  <2>2. [n \in Nat |-> D] \in [Nat -> [Nat -> Nat]] /\ \A n \in Nat : [m \in Nat |-> D][n] = D
    BY <2>1
  <2> QED BY <2>1, <2>2
<1>2. PICK g \in [Nat -> Nat] : g[0] = 1 /\ \A n \in Nat : g[n + 1] = F[n][g[n]]
  <2>1. 1 \in Nat
    OBVIOUS
  <2>2. F \in Successor(Nat)
    BY DEF Successor
  <2>3. \E g : Recurs(Nat, 1, F, g)
    BY <2>1, <2>2, Recursion
  <2> QED BY <2>3 DEF Recurs
<1>3. \A n \in Nat : g[n + 1] = 2 * g[n]
  BY <1>1, <1>2
<1>4. ASSUME NEW n \in Nat PROVE g[n] = IF n = 0 THEN 1 ELSE 2 * g[n - 1]
  <2>1. CASE n = 0
    BY <2>1, <1>2
  <2>2. CASE n # 0
    <3>1. n - 1 \in Nat /\ (n - 1) + 1 = n
      BY <2>2
    <3> QED BY <3>1, <1>3, <2>2
  <2> QED BY <2>1, <2>2
<1>5. g = Body(g)
  BY <1>4
<1>6. Two = CHOOSE f : f = Body(f)
  BY DEF Two
<1>7. Two = Body(Two)
  BY <1>5, <1>6
<1>8. \A n \in Nat : Two[n] = IF n = 0 THEN 1 ELSE 2 * Two[n - 1]
  BY <1>7
<1>9. \A n \in Nat : Two[n] = g[n]
  <2> DEFINE T == {n \in Nat : Two[n] # g[n]}
  <2> SUFFICES ASSUME T # {} PROVE FALSE
    OBVIOUS
  <2>1. PICK n \in T : \A y \in T : n <= y
    BY Least
  <2>2. n # 0
    BY <1>8, <1>2
  <2>3. n - 1 \in Nat /\ ~ (n <= n - 1)
    BY <2>2
  <2>4. Two[n - 1] = g[n - 1]
    BY <2>1, <2>3
  <2> QED BY <2>2, <2>4, <1>8, <1>4
<1>10. DOMAIN Two = Nat /\ Two = [n \in Nat |-> Two[n]]
  BY <1>7
<1>11. \A n \in Nat : Two[n] \in Nat
  BY <1>9
<1>12. ASSUME NEW n \in Nat PROVE Two[n + 1] = 2 * Two[n]
  <2>1. n + 1 \in Nat
    OBVIOUS
  <2> QED BY <2>1, <1>9, <1>3
<1> QED BY <1>10, <1>11, <1>12, <1>9, <1>2

-----------------------------------------------------------------------------
(* Rounding.                                                                 *)

\* A power of two is larger than its exponent.
LEMMA TwoGrows ==
  ASSUME NEW n \in Nat
  PROVE  Two[n] \in Nat /\ Two[n] >= 1 /\ Two[n] > n
<1> DEFINE T == {m \in Nat : ~ (Two[m] > m)}
<1>1. \A m \in Nat : Two[m] \in Nat
  BY TwoPowers
<1>2. ASSUME T # {} PROVE FALSE
  <2>1. PICK m \in T : \A y \in T : m <= y
    BY <1>2, Least
  <2>2. m # 0
    BY TwoPowers
  <2>3. m - 1 \in Nat /\ (m - 1) + 1 = m /\ ~ (m <= m - 1)
    BY <2>2
  <2>4. Two[m - 1] > m - 1
    BY <2>1, <2>3
  <2>5. Two[m] = 2 * Two[m - 1]
    BY <2>3, TwoPowers
  <2>6. Two[m - 1] \in Nat
    BY <1>1, <2>3
  <2>7. 2 * Two[m - 1] > m
    BY <2>2, <2>4, <2>6
  <2> QED BY <2>5, <2>7
<1>3. Two[n] > n /\ Two[n] \in Nat
  BY <1>1, <1>2
<1> QED BY <1>3

\* Exponents are added when powers are multiplied.
LEMMA TwoAdds ==
  ASSUME NEW m \in Nat, NEW n \in Nat
  PROVE  Two[m + n] = Two[m] * Two[n]
<1> DEFINE T == {k \in Nat : Two[m + k] # Two[m] * Two[k]}
<1>1. \A k \in Nat : Two[k] \in Nat
  BY TwoPowers
<1>2. ASSUME T # {} PROVE FALSE
  <2>1. PICK k \in T : \A y \in T : k <= y
    BY <1>2, Least
  <2>2. k # 0
    <3>1. Two[0] = 1 /\ m + 0 = m /\ Two[m] \in Nat
      BY TwoPowers
    <3> QED BY <3>1, <2>1
  <2>3. k - 1 \in Nat /\ (k - 1) + 1 = k /\ ~ (k <= k - 1)
    BY <2>2
  <2>4. Two[m + (k - 1)] = Two[m] * Two[k - 1]
    BY <2>1, <2>3
  <2>5. Two[k] = 2 * Two[k - 1]
    BY <2>3, TwoPowers
  <2>6. m + (k - 1) \in Nat /\ (m + (k - 1)) + 1 = m + k
    BY <2>3
  <2>7. Two[m + k] = 2 * Two[m + (k - 1)]
    BY <2>6, TwoPowers
  <2>8. Two[m] \in Nat /\ Two[k - 1] \in Nat
    BY <1>1, <2>3
  <2>9. 2 * (Two[m] * Two[k - 1]) = Two[m] * (2 * Two[k - 1])
    BY <2>8
  <2>10. Two[m + k] = Two[m] * Two[k]
    BY <2>4, <2>5, <2>7, <2>9
  <2> QED BY <2>10, <2>1
<1> QED BY <1>2

\* A number that needs a larger unit is at least the largest of the smaller.
LEMMA ExponentFits ==
  ASSUME NEW x \in Nat
  PROVE  /\ Exponent(x) \in Nat
         /\ x < Two[Precision + Exponent(x)]
         /\ Exponent(x) = 0 \/ x >= Two[Precision + Exponent(x) - 1]
<1> DEFINE T == {k \in Nat : x < Two[Precision + k]}
<1>1. Precision \in Nat
  BY FloatAssumption
<1>2. x \in T
  <2>1. Precision + x \in Nat
    BY <1>1
  <2>2. Two[Precision + x] \in Nat /\ Two[Precision + x] > Precision + x
    BY <2>1, TwoGrows
  <2> QED BY <1>1, <2>2
<1>3. PICK k \in T : \A y \in T : k <= y
  BY <1>2, Least
<1>4. k \in 0 .. x /\ x < Two[Precision + k]
  BY <1>2, <1>3
<1>5. k = 0 \/ x >= Two[Precision + k - 1]
  <2> SUFFICES ASSUME k # 0 PROVE x >= Two[Precision + k - 1]
    OBVIOUS
  <2>1. k - 1 \in Nat /\ ~ (k <= k - 1) /\ Precision + k - 1 = Precision + (k - 1)
    BY <1>4, <1>1
  <2>2. ~ (x < Two[Precision + k - 1])
    BY <2>1, <1>3
  <2>3. Two[Precision + k - 1] \in Nat
    BY <2>1, <1>1, TwoPowers
  <2> QED BY <2>2, <2>3
<1> HIDE DEF T
<1>6. /\ Exponent(x) \in 0 .. x
      /\ x < Two[Precision + Exponent(x)]
      /\ Exponent(x) = 0 \/ x >= Two[Precision + Exponent(x) - 1]
  BY <1>4, <1>5 DEF Exponent
<1> QED BY <1>6

\* Quotient and remainder.
LEMMA Division ==
  ASSUME NEW x \in Nat, NEW d \in Nat, d >= 1
  PROVE  /\ x \div d \in Nat /\ x % d \in Nat
         /\ x % d < d /\ x = (x \div d) * d + (x % d)
  OBVIOUS

\* A multiple of d leaves nothing.
LEMMA Divides ==
  ASSUME NEW m \in Nat, NEW d \in Nat, d >= 1, NEW x, x = m * d
  PROVE  x \in Nat /\ x \div d = m /\ x % d = 0
<1>1. x \in Nat
  OBVIOUS
<1> DEFINE q == x \div d  r == x % d
<1>2. q \in Nat /\ r \in Nat /\ r < d /\ x = q * d + r
  BY <1>1, Division
<1> HIDE DEF q, r
<1>3. (m - q) * d = r
  BY <1>2
<1>4. m - q \in Int
  BY <1>2
<1>5. m - q <= 0
  <2> SUFFICES ASSUME m - q >= 1 PROVE FALSE
    BY <1>4
  <2>1. (m - q) * d >= d
    BY <1>4
  <2> QED BY <2>1, <1>3, <1>2
<1>6. m - q >= 0
  <2> SUFFICES ASSUME m - q <= -1 PROVE FALSE
    BY <1>4
  <2>1. (m - q) * d <= -d
    BY <1>4
  <2> QED BY <2>1, <1>3, <1>2
<1>7. m = q
  BY <1>5, <1>6, <1>2
<1>8. r = 0
  BY <1>7, <1>2, <1>3
<1> QED BY <1>1, <1>7, <1>8 DEF q, r

\* Powers of two are ordered as their exponents are.
LEMMA TwoOrdered ==
  ASSUME NEW m \in Nat, NEW n \in Nat
  PROVE  m <= n <=> Two[m] <= Two[n]
<1>1. ASSUME NEW a \in Nat, NEW b \in Nat, a <= b PROVE Two[a] <= Two[b]
  <2>1. b - a \in Nat /\ a + (b - a) = b
    BY <1>1
  <2>2. Two[b] = Two[a] * Two[b - a]
    BY <2>1, TwoAdds
  <2>3. Two[a] \in Nat /\ Two[b - a] \in Nat /\ Two[b - a] >= 1
    BY <2>1, TwoGrows
  <2>4. Two[a] * Two[b - a] >= Two[a]
    BY <2>3
  <2> QED BY <2>2, <2>3, <2>4
<1>2. ASSUME n < m PROVE Two[n] < Two[m]
  <2>1. n + 1 <= m /\ n + 1 \in Nat
    BY <1>2
  <2>2. Two[n + 1] <= Two[m] /\ Two[n + 1] = 2 * Two[n]
    BY <2>1, <1>1, TwoPowers
  <2>3. Two[n] \in Nat /\ Two[n] >= 1 /\ Two[m] \in Nat
    BY TwoGrows
  <2> QED BY <2>2, <2>3
<1>3. Two[n] \in Nat /\ Two[m] \in Nat
  BY TwoGrows
<1> QED BY <1>1, <1>2, <1>3

\* A number that has Precision bits in some unit is rounded to itself.
LEMMA RoundExact ==
  ASSUME NEW m \in Nat, NEW e \in Nat, m <= Two[Precision], NEW y, y = m * Two[e]
  PROVE  y \in Nat /\ RoundUpwards(y) = y
<1> DEFINE N == Two[Precision]  E == Exponent(y)  D == Two[E]
<1>1. Precision \in Nat /\ Precision >= 1
  BY FloatAssumption
<1>2. Two[e] \in Nat /\ Two[e] >= 1
  BY TwoGrows
<1>3. y \in Nat
  BY <1>2
<1>4. /\ E \in Nat /\ y < Two[Precision + E]
      /\ E = 0 \/ y >= Two[Precision + E - 1]
  BY <1>3, ExponentFits
<1> HIDE DEF E
<1>5. D \in Nat /\ D >= 1 /\ N \in Nat /\ N >= 1
  BY <1>1, <1>4, TwoGrows
<1>6. Two[Precision + e] = N * Two[e] /\ Two[Precision + e] \in Nat
  <2>1. Precision + e \in Nat
    BY <1>1
  <2> QED BY <1>1, <2>1, TwoAdds, TwoGrows
<1>7. \E q \in Nat : y = q * D
  <2>1. CASE m < N
    <3>1. m * Two[e] < N * Two[e]
      BY <2>1, <1>2, <1>5
    <3>2. E <= e
      <4> SUFFICES ASSUME E > e PROVE FALSE
        BY <1>4
      <4>1. y >= Two[Precision + (E - 1)] /\ Precision + (E - 1) \in Nat
        BY <1>1, <1>4
      <4>2. ~ (Two[Precision + e] <= Two[Precision + (E - 1)])
        BY <1>3, <1>6, <3>1, <4>1, TwoGrows
      <4>3. Precision + e \in Nat /\ Precision + e <= Precision + (E - 1)
        BY <1>1, <1>4
      <4> QED BY <4>1, <4>2, <4>3, TwoOrdered
    <3>3. e - E \in Nat /\ E + (e - E) = e
      BY <3>2, <1>4
    <3>4. Two[E + (e - E)] = Two[E] * Two[e - E] /\ Two[e - E] \in Nat
      BY <3>3, <1>4, TwoAdds, TwoGrows
    <3>5. Two[e] = D * Two[e - E]
      BY <3>3, <3>4
    <3>6. m * (D * Two[e - E]) = (m * Two[e - E]) * D /\ m * Two[e - E] \in Nat
      BY <3>4, <1>5
    <3> QED BY <3>4, <3>6, <3>5
  <2>2. CASE m = N
    <3>1. y = Two[Precision + e]
      BY <2>2, <1>6
    <3>2. Precision + e \in Nat /\ Precision + E \in Nat
      BY <1>1, <1>4
    <3>3. Two[Precision + E] \in Nat
      BY <3>2, TwoGrows
    <3>4. ~ (Two[Precision + E] <= Two[Precision + e])
      BY <3>1, <3>3, <1>3, <1>4
    <3>5. e < E
      BY <3>2, <3>4, <1>4, <1>1, TwoOrdered
    <3>6. E - 1 \in Nat /\ Precision + (E - 1) \in Nat /\ Precision + E - 1 = Precision + (E - 1)
      BY <3>5, <1>4, <1>1
    <3>7. Two[Precision + (E - 1)] <= Two[Precision + e]
      BY <3>1, <3>5, <3>6, <1>4
    <3>8. E = e + 1
      BY <3>2, <3>5, <3>6, <3>7, <1>4, <1>1, TwoOrdered
    <3>9. D = 2 * Two[e]
      BY <3>8, TwoPowers
    <3>10. Precision - 1 \in Nat /\ (Precision - 1) + 1 = Precision
      BY <1>1
    <3>11. N = 2 * Two[Precision - 1] /\ Two[Precision - 1] \in Nat
      BY <3>10, TwoPowers
    <3>12. (2 * Two[Precision - 1]) * Two[e] = Two[Precision - 1] * (2 * Two[e])
      BY <3>11, <1>2
    <3> QED BY <2>2, <3>9, <3>11, <3>12
  <2> QED BY <2>1, <2>2, <1>5
<1>8. (y \div D) * D = y /\ y % D = 0
  <2>1. PICK q \in Nat : y = q * D
    BY <1>7
  <2>2. y \div D = q /\ y % D = 0
    BY <2>1, <1>5, Divides
  <2> QED BY <2>1, <2>2
<1>9. RoundUpwards(y) = (y \div D) * D
  <2>1. ~ (2 * (y % D) > D) /\ ~ (2 * (y % D) = D)
    BY <1>8, <1>5
  <2> QED BY <2>1 DEF RoundUpwards, E
<1> QED BY <1>3, <1>8, <1>9

\* Rounding gives a number of Precision bits, off by no more than one part in
\* 2^Precision.
LEMMA RoundUpwardsNear ==
  ASSUME NEW x \in Nat
  PROVE  /\ RoundUpwards(x) \in Nat
         /\ \E m \in Nat : \E e \in Nat : m <= Two[Precision] /\ RoundUpwards(x) = m * Two[e]
         /\ Two[Precision] * (RoundUpwards(x) - x) <= x
         /\ Two[Precision] * (x - RoundUpwards(x)) <= x
<1> DEFINE N == Two[Precision]  E == Exponent(x)  D == Two[E]
           q == x \div D  r == x % D
           u == IF 2 * r > D \/ (2 * r = D /\ q % 2 = 1) THEN q + 1 ELSE q
           R == u * D
<1>1. Precision \in Nat
  BY FloatAssumption
<1>2. /\ E \in Nat /\ x < Two[Precision + E]
      /\ E = 0 \/ x >= Two[Precision + E - 1]
  BY ExponentFits
<1>3. RoundUpwards(x) = R
  BY DEF RoundUpwards
<1> HIDE DEF E
<1>4. D \in Nat /\ D >= 1 /\ N \in Nat /\ N >= 1
  BY <1>1, <1>2, TwoGrows
<1>5. Two[Precision + E] = N * D
  BY <1>1, <1>2, TwoAdds
<1>6. E = 0 => D = 1
  BY TwoPowers
<1>7. E # 0 => \E H \in Nat : D = 2 * H /\ x >= N * H
  <2> SUFFICES ASSUME E # 0 PROVE \E H \in Nat : D = 2 * H /\ x >= N * H
    OBVIOUS
  <2>1. E - 1 \in Nat /\ (E - 1) + 1 = E /\ Precision + E - 1 = Precision + (E - 1)
    BY <1>1, <1>2
  <2>2. D = 2 * Two[E - 1] /\ Two[E - 1] \in Nat
    BY <2>1, TwoPowers
  <2>3. Two[Precision + (E - 1)] = N * Two[E - 1]
    BY <1>1, <2>1, TwoAdds
  <2> QED BY <2>1, <2>2, <2>3, <1>2
<1> HIDE DEF D, N
<1>8. q \in Nat /\ r \in Nat /\ r < D /\ x = q * D + r
  BY <1>4, Division
<1>9. u = q \/ u = q + 1
  OBVIOUS
<1>10. 2 * r < D => u = q
  BY <1>4, <1>8
<1>11. 2 * r > D => u = q + 1
  OBVIOUS
<1> HIDE DEF u, q, r
<1>12. q < N
  <2> SUFFICES ASSUME q >= N PROVE FALSE
    BY <1>4, <1>8
  <2>1. q * D >= N * D
    BY <1>4, <1>8
  <2>2. q * D \in Nat /\ N * D \in Nat
    BY <1>4, <1>8
  <2> QED BY <2>1, <2>2, <1>2, <1>5, <1>8
<1>13. u \in Nat /\ u <= N
  BY <1>4, <1>8, <1>9, <1>12
<1>14. R \in Nat
  BY <1>4, <1>13
<1>15. R = q * D \/ R = q * D + D
  BY <1>4, <1>8, <1>9
<1>16. N * (R - x) <= x /\ N * (x - R) <= x
  <2>1. CASE E = 0
    <3>1. R = x
      BY <2>1, <1>6, <1>8, <1>10
    <3> QED BY <3>1, <1>4
  <2>2. CASE E # 0
    <3>1. PICK H \in Nat : D = 2 * H /\ x >= N * H
      BY <2>2, <1>7
    <3>2. R - x <= H /\ x - R <= H
      <4>1. CASE u = q
        <5>1. R = q * D /\ r <= H
          BY <4>1, <3>1, <1>11, <1>8
        <5> QED BY <5>1, <3>1, <1>4, <1>8
      <4>2. CASE u = q + 1
        <5>1. r >= H
          BY <4>2, <3>1, <1>10, <1>8
        <5>2. R = q * D + D
          BY <4>2, <1>4, <1>8
        <5> QED BY <5>1, <5>2, <3>1, <1>4, <1>8
      <4> QED BY <4>1, <4>2, <1>9
    <3>3. N * (R - x) <= N * H /\ N * (x - R) <= N * H
      BY <3>1, <3>2, <1>4, <1>14
    <3> QED BY <3>1, <3>3, <1>4, <1>14
  <2> QED BY <2>1, <2>2
<1>17. u \in Nat /\ E \in Nat /\ u <= N /\ R = u * Two[E]
  BY <1>13, <1>2 DEF D
<1> HIDE DEF R
<1>18. \E m \in Nat : \E e \in Nat : m <= N /\ R = m * Two[e]
  BY <1>17
<1> QED BY <1>3, <1>14, <1>16, <1>18 DEF N

\* Rounding a number: the result is a number of Precision bits, equal to the
\* one rounded if that is small enough, and never far from it.
LEMMA Rounding ==
  ASSUME NEW x \in Int
  PROVE  /\ Round(x) \in Int /\ Round(Round(x)) = Round(x)
         /\ Magnitude(x) <= Two[Precision] => Round(x) = x
         /\ Two[Precision] * Magnitude(Round(x) - x) <= Magnitude(x)
<1> DEFINE N == Two[Precision]  z == Magnitude(x)  y == RoundUpwards(z)
<1>1. z \in Nat
  BY DEF Magnitude
<1> HIDE DEF z
<1>2. /\ y \in Nat
      /\ \E m \in Nat : \E e \in Nat : m <= N /\ y = m * Two[e]
      /\ N * (y - z) <= z /\ N * (z - y) <= z
  BY <1>1, RoundUpwardsNear
<1>3. RoundUpwards(y) = y
  BY <1>2, RoundExact
<1>4. N \in Nat
  BY FloatAssumption, TwoGrows
<1>5. z <= N => y = z
  <2>1. Two[0] = 1 /\ z = z * 1
    BY <1>1, TwoPowers
  <2> QED BY <2>1, <1>1, RoundExact
<1>6. z = IF x < 0 THEN -x ELSE x
  BY DEF z, Magnitude
<1>7. Round(x) = IF x < 0 THEN -y ELSE y
  BY <1>6 DEF Round
<1>8. Round(Round(x)) = Round(x)
  <2>1. CASE x < 0 /\ y # 0
    <3>1. Round(x) = -y /\ -y < 0 /\ -(-y) = y
      BY <2>1, <1>2, <1>7
    <3>2. Round(-y) = -RoundUpwards(-(-y))
      BY <3>1 DEF Round
    <3> QED BY <3>1, <3>2, <1>3
  <2>2. CASE ~ (x < 0 /\ y # 0)
    <3>1. Round(x) = y /\ ~ (y < 0)
      BY <2>2, <1>2, <1>7
    <3>2. Round(y) = RoundUpwards(y)
      BY <3>1 DEF Round
    <3> QED BY <3>1, <3>2, <1>3
  <2> QED BY <2>1, <2>2
<1> HIDE DEF y, N
<1>9. z <= N => Round(x) = x
  BY <1>5, <1>6, <1>7
<1>10. Magnitude(Round(x) - x) = y - z \/ Magnitude(Round(x) - x) = z - y
  BY <1>1, <1>2, <1>6, <1>7 DEF Magnitude
<1>11. N * Magnitude(Round(x) - x) <= z
  BY <1>2, <1>10
<1>12. Round(x) \in Int
  BY <1>2, <1>7
<1> QED BY <1>8, <1>9, <1>11, <1>12 DEF z, N

-----------------------------------------------------------------------------
(* The sums of a vector.                                                     *)

\* The elements of a vector are numbers, and there is one.
LEMMA VectorElements ==
  ASSUME NEW v \in Vectors
  PROVE  /\ v \in Seq(Int) /\ Len(v) \in Nat /\ Len(v) >= 1
         /\ \A k \in 1 .. Len(v) : v[k] \in Int /\ Round(v[k]) = v[k]
<1>1. v \in Seq(Int) /\ v # << >> /\ \A k \in DOMAIN v : Round(v[k]) = v[k]
  BY FloatAssumption
<1>2. Len(v) \in Nat /\ DOMAIN v = 1 .. Len(v) /\ \A k \in 1 .. Len(v) : v[k] \in Int
  BY <1>1
<1>3. Len(v) # 0
  BY <1>1
<1> QED BY <1>1, <1>2, <1>3

\* What starts as an integer and stays one at each step is always one.
LEMMA StaysInteger ==
  ASSUME NEW L \in Nat, NEW s, s[0] \in Int,
         \A k \in 1 .. L : s[k - 1] \in Int => s[k] \in Int,
         NEW n \in 0 .. L
  PROVE  s[n] \in Int
<1> DEFINE T == {k \in Nat : k <= L /\ s[k] \notin Int}
<1> SUFFICES ASSUME T # {} PROVE FALSE
  OBVIOUS
<1>1. PICK k \in T : \A m \in T : k <= m
  BY Least
<1>2. k \in 1 .. L /\ k - 1 \in Nat /\ k - 1 <= L /\ ~ (k <= k - 1)
  BY <1>1
<1>3. s[k - 1] \in Int
  BY <1>1, <1>2
<1> QED BY <1>1, <1>2, <1>3

\* The partial sums of v, and those of its absolute values.
PartialSums(v, s) ==
  s[0] = 0 /\ \A k \in 1 .. Len(v) : s[k - 1] \in Int /\ s[k] = s[k - 1] + v[k]

AbsoluteSums(v, s) ==
  s[0] = 0 /\ \A k \in 1 .. Len(v) : s[k - 1] \in Int /\ s[k] = s[k - 1] + Magnitude(v[k])

RoundedSums(v, s) ==
  s[0] = 0 /\ \A k \in 1 .. Len(v) : s[k - 1] \in Int /\ s[k] = FAdd(s[k - 1], v[k])

\* The sum is the last partial sum.
LEMMA SumOfIs ==
  ASSUME NEW v \in Vectors
  PROVE  \E s : PartialSums(v, s) /\ SumOf(v) = s[Len(v)]
<1> DEFINE Body(f) == [n \in 0 .. Len(v) |-> IF n = 0 THEN 0 ELSE f[n - 1] + v[n]]
           s == CHOOSE f : f = Body(f)
           D(k) == [x \in Int |-> IF k < Len(v) THEN x + v[k + 1] ELSE x]
           F == [k \in Nat |-> D(k)]
<1>1. Len(v) \in Nat /\ \A k \in 1 .. Len(v) : v[k] \in Int
  BY VectorElements
<1>2. F \in Successor(Int)
  <2>1. ASSUME NEW k \in Nat PROVE D(k) \in [Int -> Int]
    BY <1>1
  <2> HIDE DEF D
  <2> QED BY <2>1 DEF Successor
<1>3. PICK g : Recurs(Int, 0, F, g)
  <2> HIDE DEF F
  <2> QED BY <1>2, Recursion
<1> DEFINE f0 == [n \in 0 .. Len(v) |-> g[n]]
<1>4. f0 = Body(f0)
  <2>1. ASSUME NEW n \in 0 .. Len(v) PROVE g[n] = IF n = 0 THEN 0 ELSE f0[n - 1] + v[n]
    <3>1. CASE n = 0
      BY <3>1, <1>3 DEF Recurs
    <3>2. CASE n # 0
      <4>1. n - 1 \in Nat /\ n - 1 \in 0 .. Len(v) /\ (n - 1) + 1 = n /\ n - 1 < Len(v)
        BY <3>2, <1>1
      <4>2. g[n] = F[n - 1][g[n - 1]] /\ g[n - 1] \in Int
        BY <1>3, <4>1 DEF Recurs
      <4>3. F[n - 1] = D(n - 1)
        BY <4>1
      <4>4. g[n] = g[n - 1] + v[n]
        BY <4>1, <4>2, <4>3
      <4>5. f0[n - 1] = g[n - 1]
        BY <4>1
      <4> QED BY <4>4, <4>5, <3>2
    <3> QED BY <3>1, <3>2
  <2> QED BY <2>1
<1> HIDE DEF f0
<1>5. s = Body(s)
  BY <1>4
<1> HIDE DEF s
<1>6. s[0] = 0
  BY <1>1, <1>5
<1>7. \A k \in 1 .. Len(v) : s[k] = s[k - 1] + v[k]
  BY <1>1, <1>5
<1>8. \A k \in 0 .. Len(v) : s[k] \in Int
  <2>1. \A k \in 1 .. Len(v) : s[k - 1] \in Int => s[k] \in Int
    BY <1>1, <1>7
  <2>2. s[0] \in Int
    BY <1>6
  <2> QED BY <1>1, <2>1, <2>2, StaysInteger
<1>9. PartialSums(v, s)
  BY <1>1, <1>6, <1>7, <1>8 DEF PartialSums
<1>10. SumOf(v) = s[Len(v)]
  BY DEF SumOf, Accumulate, s
<1> QED BY <1>9, <1>10

\* The same of the absolute values.
LEMMA AbsoluteIs ==
  ASSUME NEW v \in Vectors
  PROVE  \E s : AbsoluteSums(v, s) /\ Absolute(v) = s[Len(v)]
<1> DEFINE Body(f) == [n \in 0 .. Len(v) |-> IF n = 0 THEN 0 ELSE f[n - 1] + Magnitude(v[n])]
           s == CHOOSE f : f = Body(f)
           D(k) == [x \in Int |-> IF k < Len(v) THEN x + Magnitude(v[k + 1]) ELSE x]
           F == [k \in Nat |-> D(k)]
<1>1. Len(v) \in Nat /\ \A k \in 1 .. Len(v) : Magnitude(v[k]) \in Int
  BY VectorElements DEF Magnitude
<1>2. F \in Successor(Int)
  <2>1. ASSUME NEW k \in Nat PROVE D(k) \in [Int -> Int]
    BY <1>1
  <2> HIDE DEF D
  <2> QED BY <2>1 DEF Successor
<1>3. PICK g : Recurs(Int, 0, F, g)
  <2> HIDE DEF F
  <2> QED BY <1>2, Recursion
<1> DEFINE f0 == [n \in 0 .. Len(v) |-> g[n]]
<1>4. f0 = Body(f0)
  <2>1. ASSUME NEW n \in 0 .. Len(v) PROVE g[n] = IF n = 0 THEN 0 ELSE f0[n - 1] + Magnitude(v[n])
    <3>1. CASE n = 0
      BY <3>1, <1>3 DEF Recurs
    <3>2. CASE n # 0
      <4>1. n - 1 \in Nat /\ n - 1 \in 0 .. Len(v) /\ (n - 1) + 1 = n /\ n - 1 < Len(v)
        BY <3>2, <1>1
      <4>2. g[n] = F[n - 1][g[n - 1]] /\ g[n - 1] \in Int
        BY <1>3, <4>1 DEF Recurs
      <4>3. F[n - 1] = D(n - 1)
        BY <4>1
      <4>4. g[n] = g[n - 1] + Magnitude(v[n])
        BY <4>1, <4>2, <4>3
      <4>5. f0[n - 1] = g[n - 1]
        BY <4>1
      <4> QED BY <4>4, <4>5, <3>2
    <3> QED BY <3>1, <3>2
  <2> QED BY <2>1
<1> HIDE DEF f0
<1>5. s = Body(s)
  BY <1>4
<1> HIDE DEF s
<1>6. s[0] = 0
  BY <1>1, <1>5
<1>7. \A k \in 1 .. Len(v) : s[k] = s[k - 1] + Magnitude(v[k])
  BY <1>1, <1>5
<1>8. \A k \in 0 .. Len(v) : s[k] \in Int
  <2>1. \A k \in 1 .. Len(v) : s[k - 1] \in Int => s[k] \in Int
    BY <1>1, <1>7
  <2>2. s[0] \in Int
    BY <1>6
  <2> QED BY <1>1, <2>1, <2>2, StaysInteger
<1>9. AbsoluteSums(v, s)
  BY <1>1, <1>6, <1>7, <1>8 DEF AbsoluteSums
<1>10. Absolute(v) = s[Len(v)]
  BY DEF Absolute, Accumulate, s
<1> QED BY <1>9, <1>10

\* The same of the rounded sums.
LEMMA SequentialIs ==
  ASSUME NEW v \in Vectors
  PROVE  \E s : RoundedSums(v, s) /\ Sequential(v) = s[Len(v)]
<1> DEFINE Body(f) == [n \in 0 .. Len(v) |-> IF n = 0 THEN 0 ELSE FAdd(f[n - 1], v[n])]
           s == CHOOSE f : f = Body(f)
           D(k) == [x \in Int |-> IF k < Len(v) THEN FAdd(x, v[k + 1]) ELSE x]
           F == [k \in Nat |-> D(k)]
<1>1. Len(v) \in Nat /\ \A k \in 1 .. Len(v) : \A x \in Int : FAdd(x, v[k]) \in Int
  <2>1. ASSUME NEW k \in 1 .. Len(v), NEW x \in Int PROVE FAdd(x, v[k]) \in Int
    <3>1. v[k] \in Int
      BY VectorElements
    <3>2. x + v[k] \in Int
      BY <3>1
    <3>3. Round(x + v[k]) \in Int
      BY <3>2, Rounding
    <3> QED BY <3>3 DEF FAdd
  <2> QED BY <2>1, VectorElements
<1>2. F \in Successor(Int)
  <2>1. ASSUME NEW k \in Nat PROVE D(k) \in [Int -> Int]
    <3>1. ASSUME NEW x \in Int, k < Len(v) PROVE FAdd(x, v[k + 1]) \in Int
      <4>1. k + 1 \in 1 .. Len(v)
        BY <3>1, <1>1
      <4> QED BY <4>1, <1>1
    <3> QED BY <3>1
  <2> HIDE DEF D
  <2> QED BY <2>1 DEF Successor
<1>3. PICK g : Recurs(Int, 0, F, g)
  <2> HIDE DEF F
  <2> QED BY <1>2, Recursion
<1> DEFINE f0 == [n \in 0 .. Len(v) |-> g[n]]
<1>4. f0 = Body(f0)
  <2>1. ASSUME NEW n \in 0 .. Len(v) PROVE g[n] = IF n = 0 THEN 0 ELSE FAdd(f0[n - 1], v[n])
    <3>1. CASE n = 0
      BY <3>1, <1>3 DEF Recurs
    <3>2. CASE n # 0
      <4>1. n - 1 \in Nat /\ n - 1 \in 0 .. Len(v) /\ (n - 1) + 1 = n /\ n - 1 < Len(v)
        BY <3>2, <1>1
      <4>2. g[n] = F[n - 1][g[n - 1]] /\ g[n - 1] \in Int
        BY <1>3, <4>1 DEF Recurs
      <4>3. F[n - 1] = D(n - 1)
        BY <4>1
      <4>4. g[n] = FAdd(g[n - 1], v[n])
        BY <4>1, <4>2, <4>3
      <4>5. f0[n - 1] = g[n - 1]
        BY <4>1
      <4> QED BY <4>4, <4>5, <3>2
    <3> QED BY <3>1, <3>2
  <2> QED BY <2>1
<1> HIDE DEF f0
<1>5. s = Body(s)
  BY <1>4
<1> HIDE DEF s
<1>6. s[0] = 0
  BY <1>1, <1>5
<1>7. ASSUME NEW k \in 1 .. Len(v) PROVE s[k] = FAdd(s[k - 1], v[k])
  <2>1. k \in 0 .. Len(v) /\ k # 0
    BY <1>1
  <2>2. s[k] = Body(s)[k]
    BY <1>5
  <2>3. Body(s)[k] = FAdd(s[k - 1], v[k])
    BY <2>1
  <2> QED BY <2>2, <2>3
<1>8. \A k \in 0 .. Len(v) : s[k] \in Int
  <2>1. \A k \in 1 .. Len(v) : s[k - 1] \in Int => s[k] \in Int
    BY <1>1, <1>7
  <2>2. s[0] \in Int
    BY <1>6
  <2> QED BY <1>1, <2>1, <2>2, StaysInteger
<1>9. RoundedSums(v, s)
  BY <1>1, <1>6, <1>7, <1>8 DEF RoundedSums
<1>10. Sequential(v) = s[Len(v)]
  BY DEF Sequential, Accumulate, s
<1> QED BY <1>9, <1>10

\* When no partial sum needs more bits than there are, the sequential sum is
\* the sum.
LEMMA SequentialExact ==
  ASSUME NEW v \in Vectors, Exact(v)
  PROVE  Sequential(v) = SumOf(v)
<1> DEFINE N == Two[Precision]  L == Len(v)
<1>1. PICK s : PartialSums(v, s) /\ SumOf(v) = s[L]
  BY SumOfIs
<1>2. PICK a : AbsoluteSums(v, a) /\ Absolute(v) = a[L]
  BY AbsoluteIs
<1>3. PICK q : RoundedSums(v, q) /\ Sequential(v) = q[L]
  BY SequentialIs
<1>4. L \in Nat /\ L >= 1 /\ \A k \in 1 .. L : v[k] \in Int
  BY VectorElements
<1>5. a[L] <= N /\ N \in Nat
  BY <1>2, FloatAssumption, TwoGrows DEF Exact
<1>6. s[0] = 0 /\ a[0] = 0 /\ q[0] = 0
  BY <1>1, <1>2, <1>3 DEF PartialSums, AbsoluteSums, RoundedSums
<1>7. ASSUME NEW k \in 1 .. L
      PROVE  /\ s[k - 1] \in Int /\ a[k - 1] \in Int /\ s[k] = s[k - 1] + v[k]
             /\ a[k] = a[k - 1] + Magnitude(v[k]) /\ q[k] = Round(q[k - 1] + v[k])
  BY <1>1, <1>2, <1>3 DEF PartialSums, AbsoluteSums, RoundedSums, FAdd
\* Every partial sum is at most the absolute sum, which grows.
<1> HIDE DEF N, L
<1>8. ASSUME NEW k \in 1 .. L, s[k - 1] \in Int, a[k - 1] \in Int,
             Magnitude(s[k - 1]) <= a[k - 1]
      PROVE  /\ s[k] \in Int /\ a[k] \in Int /\ Magnitude(s[k]) <= a[k]
             /\ a[k - 1] <= a[k]
  BY <1>4, <1>7, <1>8 DEF Magnitude
<1> DEFINE T == {k \in Nat : k <= L /\ ~ (s[k] \in Int /\ a[k] \in Int /\ Magnitude(s[k]) <= a[k])}
<1>9. ASSUME T # {} PROVE FALSE
  <2>1. PICK k \in T : \A m \in T : k <= m
    BY <1>9, Least
  <2>2. k # 0
    BY <1>6 DEF Magnitude
  <2>3. k \in 1 .. L /\ k - 1 \in Nat /\ k - 1 <= L /\ ~ (k <= k - 1)
    BY <2>1, <2>2, <1>4
  <2>4. s[k - 1] \in Int /\ a[k - 1] \in Int /\ Magnitude(s[k - 1]) <= a[k - 1]
    BY <2>1, <2>3
  <2> QED BY <2>1, <2>3, <2>4, <1>8
<1>10. \A k \in 0 .. L : s[k] \in Int /\ a[k] \in Int /\ Magnitude(s[k]) <= a[k]
  BY <1>9, <1>4
\* Counting from the end, no absolute sum is larger than the last.
<1> DEFINE U == {k \in Nat : k <= L /\ ~ (a[L - k] <= N)}
<1>11. ASSUME U # {} PROVE FALSE
  <2>1. PICK k \in U : \A m \in U : k <= m
    BY <1>11, Least
  <2>2. k # 0
    BY <1>4, <1>5
  <2>3. k - 1 \in Nat /\ k - 1 <= L /\ ~ (k <= k - 1)
    BY <2>1, <2>2, <1>4
  <2>4. a[L - (k - 1)] <= N
    BY <2>1, <2>3
  <2>5. L - (k - 1) \in 1 .. L /\ (L - (k - 1)) - 1 = L - k /\ L - k \in 0 .. L
    BY <2>1, <2>2, <1>4
  <2>6. a[L - k] <= a[L - (k - 1)] /\ a[L - (k - 1)] \in Int /\ a[L - k] \in Int
    BY <2>5, <1>8, <1>10
  <2>7. a[L - k] <= N
    BY <2>4, <2>6, <1>5
  <2> QED BY <2>1, <2>7
<1>12. ASSUME NEW k \in 0 .. L PROVE a[k] <= N
  <2>1. L - k \in Nat /\ L - k <= L /\ L - (L - k) = k
    BY <1>4
  <2> QED BY <2>1, <1>11
<1> DEFINE W == {k \in Nat : k <= L /\ q[k] # s[k]}
<1>13. ASSUME W # {} PROVE FALSE
  <2>1. PICK k \in W : \A m \in W : k <= m
    BY <1>13, Least
  <2>2. k # 0
    BY <1>6
  <2>3. k \in 1 .. L /\ k \in 0 .. L /\ k - 1 \in Nat /\ k - 1 <= L /\ ~ (k <= k - 1)
    BY <2>1, <2>2, <1>4
  <2>4. q[k - 1] = s[k - 1]
    BY <2>1, <2>3
  <2>5. q[k] = Round(s[k])
    BY <2>3, <2>4, <1>7
  <2>6. /\ s[k] \in Int /\ Magnitude(s[k]) \in Int /\ a[k] \in Int
        /\ Magnitude(s[k]) <= a[k] /\ a[k] <= N
    BY <2>3, <1>10, <1>12 DEF Magnitude
  <2>7. Round(s[k]) = s[k]
    <3>1. Magnitude(s[k]) <= N
      BY <2>6, <1>5
    <3> QED BY <3>1, <2>6, Rounding DEF N
  <2> QED BY <2>1, <2>5, <2>7
<1>14. q[L] = s[L]
  BY <1>13, <1>4
<1> QED BY <1>1, <1>3, <1>14 DEF L

-----------------------------------------------------------------------------
(* Tallies: numbers f[0], f[1], .. that are 0 behind n and add up to t.      *)

Tally(f, n, t) ==
  \E g \in [Nat -> Int] :
     /\ g[0] = f[0]
     /\ \A k \in Nat : g[k + 1] = g[k] + f[k + 1]
     /\ \A k \in Nat : n <= k => g[k] = t

Zeros == [k \in Nat |-> 0]

\* Nothing adds up to nothing.
LEMMA TallyZeros == Zeros \in [Nat -> Int] /\ Tally(Zeros, 0, 0)
<1>1. /\ Zeros \in [Nat -> Int] /\ Zeros[0] = 0
      /\ \A k \in Nat : Zeros[k] = 0 /\ Zeros[k + 1] = Zeros[k] + Zeros[k + 1]
  BY DEF Zeros
<1> QED BY <1>1 DEF Tally

\* One of the numbers grows by x, and so does the sum.
LEMMA TallyAdd ==
  ASSUME NEW f \in [Nat -> Int], NEW n \in Nat, NEW t \in Int, Tally(f, n, t),
         NEW h \in [Nat -> Int], NEW k \in Nat, NEW x \in Int,
         h[k] = f[k] + x, \A j \in Nat : j # k => h[j] = f[j],
         NEW m \in Nat, n <= m, k <= m
  PROVE  Tally(h, m, t + x)
<1>1. PICK g \in [Nat -> Int] :
         /\ g[0] = f[0]
         /\ \A j \in Nat : g[j + 1] = g[j] + f[j + 1]
         /\ \A j \in Nat : n <= j => g[j] = t
  BY DEF Tally
<1>2. PICK u \in [Nat -> Int] : \A j \in Nat : u[j] = IF k <= j THEN g[j] + x ELSE g[j]
  <2>1. [j \in Nat |-> IF k <= j THEN g[j] + x ELSE g[j]] \in [Nat -> Int]
    OBVIOUS
  <2> QED BY <2>1
<1>3. u[0] = h[0]
  BY <1>1, <1>2
<1>4. ASSUME NEW j \in Nat PROVE u[j + 1] = u[j] + h[j + 1]
  <2>1. j + 1 \in Nat /\ g[j] \in Int /\ f[j + 1] \in Int /\ g[j + 1] = g[j] + f[j + 1]
    BY <1>1
  <2>2. CASE k <= j
    <3>1. u[j] = g[j] + x /\ u[j + 1] = g[j + 1] + x /\ h[j + 1] = f[j + 1]
      BY <2>1, <2>2, <1>2
    <3> QED BY <3>1, <2>1
  <2>3. CASE k = j + 1
    <3>1. u[j] = g[j] /\ u[j + 1] = g[j + 1] + x /\ h[j + 1] = f[j + 1] + x
      BY <2>1, <2>3, <1>2
    <3> QED BY <3>1, <2>1
  <2>4. CASE k > j + 1
    <3>1. u[j] = g[j] /\ u[j + 1] = g[j + 1] /\ h[j + 1] = f[j + 1]
      BY <2>1, <2>4, <1>2
    <3> QED BY <3>1, <2>1
  <2> QED BY <2>2, <2>3, <2>4
<1>5. ASSUME NEW j \in Nat, m <= j PROVE u[j] = t + x
  BY <1>1, <1>2, <1>5
<1> QED BY <1>3, <1>4, <1>5 DEF Tally

\* A number is moved to another: the sum remains.
LEMMA TallyMove ==
  ASSUME NEW f \in [Nat -> Int], NEW n \in Nat, NEW t \in Int, Tally(f, n, t),
         NEW h \in [Nat -> Int], NEW a \in Nat, NEW b \in Nat, a # b, a <= n, b <= n,
         h[a] = f[a] + f[b], h[b] = 0, \A j \in Nat : j # a /\ j # b => h[j] = f[j]
  PROVE  Tally(h, n, t)
<1>1. PICK e \in [Nat -> Int] : e[b] = 0 /\ \A j \in Nat : j # b => e[j] = f[j]
  <2>1. [f EXCEPT ![b] = 0] \in [Nat -> Int]
    OBVIOUS
  <2> QED BY <2>1
<1>2. PICK x \in Int, y \in Int : y = f[b] /\ x = -f[b]
  <2>1. f[b] \in Int /\ -f[b] \in Int
    OBVIOUS
  <2> QED BY <2>1
<1>3. e[b] = f[b] + x /\ t + x \in Int /\ n \in Nat /\ n <= n
  BY <1>1, <1>2
<1>4. Tally(e, n, t + x)
  BY <1>1, <1>3, TallyAdd
<1>5. h[a] = e[a] + y /\ \A j \in Nat : j # a => h[j] = e[j]
  BY <1>1, <1>2
<1>6. Tally(h, n, (t + x) + y)
  BY <1>3, <1>4, <1>5, TallyAdd
<1>7. (t + x) + y = t
  BY <1>2
<1> QED BY <1>6, <1>7

\* The only number that is not 0 is the sum.
LEMMA TallyOne ==
  ASSUME NEW f \in [Nat -> Int], NEW n \in Nat, NEW t \in Int, Tally(f, n, t),
         NEW d \in Nat, d <= n, \A j \in Nat : j # d => f[j] = 0
  PROVE  t = f[d]
<1>1. PICK g \in [Nat -> Int] :
         /\ g[0] = f[0]
         /\ \A j \in Nat : g[j + 1] = g[j] + f[j + 1]
         /\ \A j \in Nat : n <= j => g[j] = t
  BY DEF Tally
<1> DEFINE T == {j \in Nat : g[j] # IF d <= j THEN f[d] ELSE 0}
<1>2. ASSUME T # {} PROVE FALSE
  <2>1. PICK j \in T : \A k \in T : j <= k
    BY <1>2, Least
  <2>2. CASE j = 0
    BY <2>1, <2>2, <1>1
  <2>3. CASE j # 0
    <3>1. j - 1 \in Nat /\ (j - 1) + 1 = j /\ ~ (j <= j - 1)
      BY <2>3
    <3>2. g[j - 1] = IF d <= j - 1 THEN f[d] ELSE 0
      BY <2>1, <3>1
    <3>3. g[j] = g[j - 1] + f[j] /\ f[d] \in Int
      BY <3>1, <1>1
    <3>4. CASE d = j
      <4>1. g[j] = f[d]
        BY <3>1, <3>2, <3>3, <3>4
      <4> QED BY <4>1, <3>4, <2>1
    <3>5. CASE d # j
      <4>1. f[j] = 0 /\ (d <= j - 1 <=> d <= j)
        BY <3>1, <3>5
      <4>2. g[j] = IF d <= j THEN f[d] ELSE 0
        BY <3>2, <3>3, <4>1
      <4> QED BY <4>2, <2>1
    <3> QED BY <3>4, <3>5
  <2> QED BY <2>2, <2>3
<1>3. g[n] = f[d]
  BY <1>2
<1> QED BY <1>1, <1>3

-----------------------------------------------------------------------------
(* The error of a partial sum.                                               *)

\* v is what was computed for elements that add up to S, whose absolute values
\* add up to A, and of which there are M.
Partial(v, S, A, M) ==
  /\ v \in Int /\ S \in Int /\ A \in Nat /\ M \in Nat
  /\ Magnitude(S) <= A
  /\ Round(v) = v
  /\ M = 0 => v = 0 /\ S = 0 /\ A = 0
  /\ A <= Two[Precision] => v = S
  /\ M >= 1 => Magnitude(v - S) * (Two[Precision] - (M - 1)) <= (M - 1) * A

\* Nothing adds up to 0, exactly.
LEMMA PartialNothing == Partial(0, 0, 0, 0)
<1>1. Magnitude(0) = 0 /\ Two[Precision] \in Nat
  BY FloatAssumption, TwoGrows DEF Magnitude
<1>2. Round(0) = 0
  BY <1>1, Rounding
<1> QED BY <1>1, <1>2 DEF Partial

\* An element is its own sum.
LEMMA PartialElement ==
  ASSUME NEW x \in Int, Round(x) = x
  PROVE  Partial(x, x, Magnitude(x), 1)
<1>1. Two[Precision] \in Nat
  BY FloatAssumption, TwoGrows
<1>2. /\ Magnitude(x) \in Nat /\ Magnitude(x - x) = 0
      /\ 0 * (Two[Precision] - (1 - 1)) <= (1 - 1) * Magnitude(x)
  BY <1>1 DEF Magnitude
<1> QED BY <1>1, <1>2 DEF Partial

\* The larger of two products.
LEMMA TimesGrows ==
  ASSUME NEW a \in Nat, NEW b \in Nat, NEW c \in Nat, a <= b
  PROVE  a * c <= b * c /\ c * a <= c * b
  OBVIOUS

\* One part of the error analysis: what an error e of a sum of a + 1 elements
\* and its share of the last rounding come to.
LEMMA ErrorShare ==
  ASSUME NEW a \in Nat, NEW b \in Nat, NEW N \in Nat, a + b + 1 < N,
         NEW A \in Nat, NEW e \in Nat, e * (N - a) <= a * A
  PROVE  ((N + 1) * e + A) * (N - (a + b + 1)) <= N * ((a + b + 1) * A)
<1> DEFINE m == a + b + 1  d == N - m
<1>1. m \in Nat /\ d \in Nat /\ N - a \in Nat /\ d <= N - a /\ a + 1 <= m /\ d <= N - a - 1
  OBVIOUS
<1>2. d = N - (a + b + 1) /\ m = a + b + 1
  OBVIOUS
<1> HIDE DEF m, d
<1>3. e * d <= a * A
  <2>1. e * d <= e * (N - a)
    BY <1>1, TimesGrows
  <2>2. e * d \in Nat /\ e * (N - a) \in Nat /\ a * A \in Nat
    BY <1>1
  <2> QED BY <2>1, <2>2
<1>4. (N + 1) * (e * d) <= (N + 1) * (a * A)
  <2>1. e * d \in Nat /\ a * A \in Nat /\ N + 1 \in Nat
    BY <1>1
  <2> QED BY <2>1, <1>3, TimesGrows
<1>5. ((N + 1) * e + A) * d = (N + 1) * (e * d) + A * d
  BY <1>1
<1>6. (N + 1) * (a * A) + A * d = ((N + 1) * a + d) * A
  BY <1>1
<1>7. (N + 1) * a + d <= N * m
  <2>1. (N + 1) * a + d <= N * (a + 1)
    BY <1>1
  <2>2. N * (a + 1) <= N * m
    BY <1>1, TimesGrows
  <2>3. N * (a + 1) \in Nat /\ N * m \in Nat /\ (N + 1) * a + d \in Nat
    BY <1>1
  <2> QED BY <2>1, <2>2, <2>3
<1>8. ((N + 1) * a + d) * A <= (N * m) * A
  <2>1. (N + 1) * a + d \in Nat /\ N * m \in Nat
    BY <1>1
  <2> QED BY <2>1, <1>7, TimesGrows
<1>9. (N * m) * A = N * (m * A)
  BY <1>1
<1>10. ((N + 1) * e + A) * d <= N * (m * A)
  <2>1. /\ (N + 1) * (e * d) \in Int /\ (N + 1) * (a * A) \in Int
        /\ A * d \in Int /\ N * (m * A) \in Int
    BY <1>1
  <2> QED BY <2>1, <1>4, <1>5, <1>6, <1>8, <1>9
<1> QED BY <1>2, <1>10

\* The error of a sum of two sums, of a + 1 and b + 1 elements, that is rounded
\* with an error r.
LEMMA ErrorAdds ==
  ASSUME NEW a \in Nat, NEW b \in Nat, NEW N \in Nat, a + b + 1 < N,
         NEW A \in Nat, NEW B \in Nat, NEW d \in Nat, NEW e \in Nat, NEW r \in Nat,
         d * (N - a) <= a * A, e * (N - b) <= b * B,
         N * r <= A + B + d + e,
         NEW z \in Nat, z <= d + e + r
  PROVE  z * (N - (a + b + 1)) <= (a + b + 1) * (A + B)
<1> DEFINE m == a + b + 1  c == N - m
<1>1. m \in Nat /\ c \in Nat /\ N >= 1
  OBVIOUS
<1>2. ((N + 1) * d + A) * c <= N * (m * A)
  BY ErrorShare
<1>3. ((N + 1) * e + B) * c <= N * (m * B)
  <2>1. b + a + 1 = m /\ b + a + 1 < N
    OBVIOUS
  <2>2. ((N + 1) * e + B) * (N - (b + a + 1)) <= N * ((b + a + 1) * B)
    BY <2>1, ErrorShare
  <2> QED BY <2>1, <2>2
<1>4. c = N - (a + b + 1) /\ m = a + b + 1
  OBVIOUS
<1> HIDE DEF m, c
<1>5. N * z <= ((N + 1) * d + A) + ((N + 1) * e + B)
  <2>1. N * z <= N * (d + e + r)
    BY TimesGrows
  <2>2. N * (d + e + r) = N * d + N * e + N * r
    OBVIOUS
  <2>3. (N + 1) * d = N * d + d /\ (N + 1) * e = N * e + e
    OBVIOUS
  <2>4. N * z \in Int /\ N * d \in Int /\ N * e \in Int /\ N * r \in Int
    OBVIOUS
  <2> QED BY <2>1, <2>2, <2>3, <2>4
<1> DEFINE p == (N + 1) * d + A  q == (N + 1) * e + B
<1>6. p \in Nat /\ q \in Nat
  OBVIOUS
<1>7. N * z <= p + q /\ p * c <= N * (m * A) /\ q * c <= N * (m * B)
  BY <1>2, <1>3, <1>5
<1> HIDE DEF p, q
<1>8. (N * z) * c <= (p + q) * c
  BY <1>1, <1>6, <1>7, TimesGrows
<1>9. (p + q) * c = p * c + q * c
  BY <1>1, <1>6
<1>10. N * (m * A) + N * (m * B) = N * (m * (A + B)) /\ (N * z) * c = N * (z * c)
  BY <1>1
<1>11. N * (z * c) <= N * (m * (A + B))
  <2>1. p * c \in Int /\ q * c \in Int /\ N * (m * A) \in Int /\ N * (m * B) \in Int
        /\ (p + q) * c \in Int /\ (N * z) * c \in Int
    BY <1>1, <1>6
  <2> QED BY <2>1, <1>7, <1>8, <1>9, <1>10
<1>12. z * c <= m * (A + B)
  <2>1. z * c \in Nat /\ m * (A + B) \in Nat
    BY <1>1
  <2> SUFFICES ASSUME z * c >= m * (A + B) + 1 PROVE FALSE
    BY <2>1
  <2>2. N * (m * (A + B) + 1) <= N * (z * c)
    BY <2>1, TimesGrows
  <2>3. N * (m * (A + B) + 1) = N * (m * (A + B)) + N
    BY <2>1
  <2>4. N * (z * c) \in Int /\ N * (m * (A + B)) \in Int
    BY <2>1
  <2> QED BY <2>2, <2>3, <2>4, <1>1, <1>11
<1> QED BY <1>4, <1>12

\* Two partial sums that are added make a partial sum of the elements of both.
LEMMA PartialAdds ==
  ASSUME NEW v, NEW S, NEW A, NEW M, Partial(v, S, A, M),
         NEW w, NEW T, NEW B, NEW K, Partial(w, T, B, K)
  PROVE  Partial(FAdd(v, w), S + T, A + B, M + K)
<1> DEFINE N == Two[Precision]  x == v + w  R == Round(x)
<1>1. N \in Nat
  BY FloatAssumption, TwoGrows
<1>2. /\ v \in Int /\ S \in Int /\ A \in Nat /\ M \in Nat /\ Magnitude(S) <= A /\ Round(v) = v
      /\ M = 0 => v = 0 /\ S = 0 /\ A = 0
      /\ A <= N => v = S
      /\ M >= 1 => Magnitude(v - S) * (N - (M - 1)) <= (M - 1) * A
  BY DEF Partial
<1>3. /\ w \in Int /\ T \in Int /\ B \in Nat /\ K \in Nat /\ Magnitude(T) <= B /\ Round(w) = w
      /\ K = 0 => w = 0 /\ T = 0 /\ B = 0
      /\ B <= N => w = T
      /\ K >= 1 => Magnitude(w - T) * (N - (K - 1)) <= (K - 1) * B
  BY DEF Partial
<1>4. x \in Int /\ x = v + w
  BY <1>2, <1>3
<1>5. /\ R \in Int /\ Round(R) = R
      /\ Magnitude(x) <= N => R = x
      /\ N * Magnitude(R - x) <= Magnitude(x)
  BY <1>4, Rounding
<1>6. FAdd(v, w) = R
  BY DEF FAdd
<1>7. M = 0 => R = w
  BY <1>2, <1>3, <1>4
<1>8. K = 0 => R = v
  BY <1>2, <1>3, <1>4
<1> HIDE DEF N, x, R
<1>9. Magnitude(S + T) <= A + B
  BY <1>2, <1>3 DEF Magnitude
<1>10. M + K = 0 => R = 0 /\ S + T = 0 /\ A + B = 0
  BY <1>2, <1>3, <1>7
<1>11. A + B <= N => R = S + T
  <2> SUFFICES ASSUME A + B <= N PROVE R = S + T
    OBVIOUS
  <2>1. A <= N /\ B <= N
    BY <1>1, <1>2, <1>3
  <2>2. x = S + T
    BY <2>1, <1>2, <1>3, <1>4
  <2>3. Magnitude(x) <= N
    BY <2>2, <1>1, <1>2, <1>3, <1>9 DEF Magnitude
  <2> QED BY <2>2, <2>3, <1>5
<1>12. M + K >= 1 => Magnitude(R - (S + T)) * (N - ((M + K) - 1)) <= ((M + K) - 1) * (A + B)
  <2>1. CASE M = 0
    <3>1. M + K = K /\ S + T = T /\ A + B = B /\ R = w
      BY <2>1, <1>2, <1>3, <1>7
    <3> QED BY <3>1, <1>3
  <2>2. CASE K = 0
    <3>1. M + K = M /\ S + T = S /\ A + B = A /\ R = v
      BY <2>2, <1>2, <1>3, <1>8
    <3> QED BY <3>1, <1>2
  <2>3. CASE M >= 1 /\ K >= 1
    <3> DEFINE a == M - 1  b == K - 1  m == a + b + 1
               d == Magnitude(v - S)  e == Magnitude(w - T)
               r == Magnitude(R - x)  z == Magnitude(R - (S + T))
    <3>1. a \in Nat /\ b \in Nat /\ (M + K) - 1 = m /\ m = a + b + 1 /\ m \in Nat
      BY <2>3, <1>2, <1>3
    <3>2. d \in Nat /\ e \in Nat /\ r \in Nat /\ z \in Nat
      BY <1>2, <1>3, <1>4, <1>5 DEF Magnitude
    <3>3. d * (N - a) <= a * A /\ e * (N - b) <= b * B
      BY <2>3, <1>2, <1>3
    <3>4. Magnitude(x) <= A + B + d + e
      BY <1>2, <1>3, <1>4 DEF Magnitude
    <3>5. N * r <= A + B + d + e
      <4>1. N * r \in Nat /\ Magnitude(x) \in Int
        BY <1>1, <1>4, <3>2 DEF Magnitude
      <4> QED BY <4>1, <3>2, <3>4, <1>2, <1>3, <1>5
    <3>6. z <= d + e + r
      BY <1>2, <1>3, <1>4, <1>5 DEF Magnitude
    <3> HIDE DEF a, b, m, d, e, r
    <3>7. CASE m < N
      <4>1. z * (N - (a + b + 1)) <= (a + b + 1) * (A + B)
        <5> HIDE DEF z
        <5>1. a + b + 1 < N
          BY <3>1, <3>7
        <5> QED BY <5>1, <3>1, <3>2, <3>3, <3>5, <3>6, <1>1, <1>2, <1>3, ErrorAdds
      <4> QED BY <4>1, <3>1
    <3>8. CASE N <= m
      <4> HIDE DEF z
      <4>1. N - m <= 0 /\ N - m \in Int
        BY <3>1, <3>8, <1>1
      <4>2. z * (N - m) <= 0
        BY <4>1, <3>2
      <4>3. m * (A + B) >= 0
        BY <3>1, <1>2, <1>3
      <4>4. z * (N - m) \in Int /\ m * (A + B) \in Int
        BY <4>1, <3>1, <3>2, <1>2, <1>3
      <4>5. z * (N - m) <= m * (A + B)
        BY <4>2, <4>3, <4>4
      <4> QED BY <4>5, <3>1 DEF z
    <3> QED BY <3>1, <3>7, <3>8, <1>1
  <2> QED BY <2>1, <2>2, <2>3, <1>2, <1>3
<1>13. S + T \in Int /\ A + B \in Nat /\ M + K \in Nat
  BY <1>2, <1>3
<1>14. M + K = 0 => R = 0
  BY <1>10
<1> QED BY <1>5, <1>6, <1>9, <1>10, <1>11, <1>12, <1>13 DEF Partial, N

-----------------------------------------------------------------------------
(* The partial sums of a call.                                               *)

\* Each of the first n elements of v is in one of the partial sums p: S, A and
\* M say what those under k come to.
Tallied(p, v, n, S, A, M, s, a) ==
  /\ S \in [Nat -> Int] /\ A \in [Nat -> Int] /\ M \in [Nat -> Int]
  /\ PartialSums(v, s) /\ SumOf(v) = s[Len(v)] /\ Tally(S, n, s[n])
  /\ AbsoluteSums(v, a) /\ Absolute(v) = a[Len(v)] /\ Tally(A, n, a[n])
  /\ Tally(M, n, n)
  /\ \A k \in Nat : k \in DOMAIN p => Partial(p[k], S[k], A[k], M[k])
  /\ \A k \in Nat : k \notin DOMAIN p => S[k] = 0 /\ A[k] = 0 /\ M[k] = 0

Counted(p, v, n) == \E S, A, M, s, a : Tallied(p, v, n, S, A, M, s, a)

\* The partial sums of a vector are integers.
LEMMA SumsAreIntegers ==
  ASSUME NEW v \in Vectors, NEW s, PartialSums(v, s), NEW a, AbsoluteSums(v, a),
         NEW n \in 0 .. Len(v)
  PROVE  s[n] \in Int /\ a[n] \in Int
<1>1. Len(v) \in Nat /\ \A k \in 1 .. Len(v) : v[k] \in Int /\ Magnitude(v[k]) \in Int
  BY VectorElements DEF Magnitude
<1>2. CASE n = 0
  BY <1>2 DEF PartialSums, AbsoluteSums
<1>3. CASE n # 0
  <2>1. n \in 1 .. Len(v)
    BY <1>1, <1>3
  <2>2. s[n - 1] \in Int /\ s[n] = s[n - 1] + v[n]
    BY <2>1 DEF PartialSums
  <2>3. a[n - 1] \in Int /\ a[n] = a[n - 1] + Magnitude(v[n])
    BY <2>1 DEF AbsoluteSums
  <2> QED BY <2>1, <2>2, <2>3, <1>1
<1> QED BY <1>2, <1>3

\* At first nothing is in the accumulator.
LEMMA CountedNothing ==
  ASSUME NEW v \in Vectors
  PROVE  Counted([k \in {0} |-> 0], v, 0)
<1> DEFINE p == [k \in {0} |-> 0]
<1>1. PICK s : PartialSums(v, s) /\ SumOf(v) = s[Len(v)]
  BY SumOfIs
<1>2. PICK a : AbsoluteSums(v, a) /\ Absolute(v) = a[Len(v)]
  BY AbsoluteIs
<1>3. s[0] = 0 /\ a[0] = 0
  BY <1>1, <1>2 DEF PartialSums, AbsoluteSums
<1>4. Zeros \in [Nat -> Int] /\ Tally(Zeros, 0, 0) /\ \A k \in Nat : Zeros[k] = 0
  BY TallyZeros DEF Zeros
<1>5. \A k \in DOMAIN p : p[k] = 0
  OBVIOUS
<1> HIDE DEF p
<1>6. Tallied(p, v, 0, Zeros, Zeros, Zeros, s, a)
  BY <1>1, <1>2, <1>3, <1>4, <1>5, PartialNothing DEF Tallied
<1> QED BY <1>6 DEF Counted, p

\* The next element becomes part of the sum under k: a new one, or one there is.
LEMMA CountedElement ==
  ASSUME NEW v \in Vectors, NEW n \in Nat, n < Len(v), NEW p, Counted(p, v, n),
         NEW k \in Nat, k <= n + 1, NEW q,
         k \in DOMAIN q, \A j \in Nat : j # k => (j \in DOMAIN q <=> j \in DOMAIN p),
         \A j \in DOMAIN q : j # k => q[j] = p[j],
         q[k] = IF k \in DOMAIN p THEN FAdd(p[k], v[n + 1]) ELSE v[n + 1]
  PROVE  Counted(q, v, n + 1)
<1>1. PICK S, A, M, s, a : Tallied(p, v, n, S, A, M, s, a)
  BY DEF Counted
<1>2. S \in [Nat -> Int] /\ A \in [Nat -> Int] /\ M \in [Nat -> Int]
  BY <1>1 DEF Tallied
<1>3. /\ PartialSums(v, s) /\ SumOf(v) = s[Len(v)] /\ Tally(S, n, s[n])
      /\ AbsoluteSums(v, a) /\ Absolute(v) = a[Len(v)] /\ Tally(A, n, a[n])
      /\ Tally(M, n, n)
  BY <1>1 DEF Tallied
<1>4. /\ Len(v) \in Nat /\ n + 1 \in 1 .. Len(v) /\ n \in 0 .. Len(v)
      /\ (n + 1) - 1 = n /\ n + 1 \in Nat /\ n <= n + 1
  BY VectorElements
<1> DEFINE x == v[n + 1]  y == Magnitude(v[n + 1])
<1>5. x \in Int /\ Round(x) = x /\ y \in Int
  BY <1>4, VectorElements DEF Magnitude
<1>6. s[n] \in Int /\ a[n] \in Int
  BY <1>3, <1>4, SumsAreIntegers
<1>7. s[n + 1] = s[n] + x /\ a[n + 1] = a[n] + y
  BY <1>3, <1>4 DEF PartialSums, AbsoluteSums
<1>8. Partial(x, x, y, 1)
  BY <1>5, PartialElement
<1> DEFINE t == s[n]  u == a[n]
<1> HIDE DEF x, y, t, u
<1>9. ASSUME NEW f \in [Nat -> Int], NEW w \in Int
      PROVE  \E g \in [Nat -> Int] : g[k] = f[k] + w /\ \A j \in Nat : j # k => g[j] = f[j]
  <2> DEFINE g == [j \in Nat |-> IF j = k THEN f[k] + w ELSE f[j]]
  <2>1. g \in [Nat -> Int] /\ g[k] = f[k] + w /\ \A j \in Nat : j # k => g[j] = f[j]
    OBVIOUS
  <2> QED BY <2>1
<1>10. PICK S2 \in [Nat -> Int] : S2[k] = S[k] + x /\ \A j \in Nat : j # k => S2[j] = S[j]
  BY <1>2, <1>5, <1>9
<1>11. PICK A2 \in [Nat -> Int] : A2[k] = A[k] + y /\ \A j \in Nat : j # k => A2[j] = A[j]
  BY <1>2, <1>5, <1>9
<1>12. PICK M2 \in [Nat -> Int] : M2[k] = M[k] + 1 /\ \A j \in Nat : j # k => M2[j] = M[j]
  <2>1. 1 \in Int
    OBVIOUS
  <2> QED BY <2>1, <1>2, <1>9
<1>13. Tally(S2, n + 1, s[n + 1])
  <2>1. Tally(S, n, t) /\ t \in Int /\ s[n + 1] = t + x
    BY <1>3, <1>6, <1>7 DEF t
  <2>2. Tally(S2, n + 1, t + x)
    BY <2>1, <1>2, <1>4, <1>5, <1>10, TallyAdd
  <2> QED BY <2>1, <2>2
<1>14. Tally(A2, n + 1, a[n + 1])
  <2>1. Tally(A, n, u) /\ u \in Int /\ a[n + 1] = u + y
    BY <1>3, <1>6, <1>7 DEF u
  <2>2. Tally(A2, n + 1, u + y)
    BY <2>1, <1>2, <1>4, <1>5, <1>11, TallyAdd
  <2> QED BY <2>1, <2>2
<1>15. Tally(M2, n + 1, n + 1)
  <2>1. n \in Int /\ 1 \in Int /\ Tally(M, n, n)
    BY <1>3
  <2> QED BY <2>1, <1>2, <1>4, <1>12, TallyAdd
<1>16. Partial(q[k], S2[k], A2[k], M2[k])
  <2>1. CASE k \in DOMAIN p
    <3>1. Partial(p[k], S[k], A[k], M[k])
      BY <2>1, <1>1 DEF Tallied
    <3>2. q[k] = FAdd(p[k], x)
      BY <2>1 DEF x
    <3>3. Partial(FAdd(p[k], x), S[k] + x, A[k] + y, M[k] + 1)
      BY <3>1, <1>8, PartialAdds
    <3> QED BY <3>2, <3>3, <1>10, <1>11, <1>12
  <2>2. CASE k \notin DOMAIN p
    <3>1. S[k] = 0 /\ A[k] = 0 /\ M[k] = 0
      BY <2>2, <1>1 DEF Tallied
    <3>2. S2[k] = x /\ A2[k] = y /\ M2[k] = 1
      BY <3>1, <1>5, <1>10, <1>11, <1>12
    <3>3. q[k] = x
      BY <2>2 DEF x
    <3> QED BY <3>2, <3>3, <1>8
  <2> QED BY <2>1, <2>2
<1>17. ASSUME NEW j \in Nat, j \in DOMAIN q PROVE Partial(q[j], S2[j], A2[j], M2[j])
  <2>1. CASE j = k
    BY <2>1, <1>16
  <2>2. CASE j # k
    <3>1. j \in DOMAIN p /\ q[j] = p[j]
      BY <2>2, <1>17
    <3>2. Partial(p[j], S[j], A[j], M[j])
      BY <3>1, <1>1 DEF Tallied
    <3>3. S2[j] = S[j] /\ A2[j] = A[j] /\ M2[j] = M[j]
      BY <2>2, <1>10, <1>11, <1>12
    <3> QED BY <3>1, <3>2, <3>3
  <2> QED BY <2>1, <2>2
<1>18. ASSUME NEW j \in Nat, j \notin DOMAIN q PROVE S2[j] = 0 /\ A2[j] = 0 /\ M2[j] = 0
  <2>1. j # k /\ j \notin DOMAIN p
    BY <1>18
  <2>2. S[j] = 0 /\ A[j] = 0 /\ M[j] = 0
    BY <2>1, <1>1 DEF Tallied
  <2> QED BY <2>1, <2>2, <1>10, <1>11, <1>12
<1>19. Tallied(q, v, n + 1, S2, A2, M2, s, a)
  BY <1>3, <1>10, <1>11, <1>12, <1>13, <1>14, <1>15, <1>17, <1>18 DEF Tallied
<1> QED BY <1>19 DEF Counted

\* Two of the partial sums are added: no element is lost, and none counts twice.
LEMMA CountedMerge ==
  ASSUME NEW v \in Vectors, NEW n \in 0 .. Len(v), NEW p, Counted(p, v, n),
         DOMAIN p \subseteq 0 .. n,
         NEW b \in DOMAIN p, NEW d \in DOMAIN p, b # d
  PROVE  Counted(Merge(p, b, d), v, n)
<1>1. PICK S, A, M, s, a : Tallied(p, v, n, S, A, M, s, a)
  BY DEF Counted
<1>2. S \in [Nat -> Int] /\ A \in [Nat -> Int] /\ M \in [Nat -> Int]
  BY <1>1 DEF Tallied
<1>3. /\ PartialSums(v, s) /\ SumOf(v) = s[Len(v)] /\ Tally(S, n, s[n])
      /\ AbsoluteSums(v, a) /\ Absolute(v) = a[Len(v)] /\ Tally(A, n, a[n])
      /\ Tally(M, n, n)
  BY <1>1 DEF Tallied
<1>4. n \in Nat /\ n \in Int /\ b \in Nat /\ d \in Nat /\ b <= n /\ d <= n
  BY VectorElements
<1>5. s[n] \in Int /\ a[n] \in Int
  BY <1>3, SumsAreIntegers
<1> DEFINE q == Merge(p, b, d)
<1>6. /\ DOMAIN q = DOMAIN p \ {d} /\ q[b] = FAdd(p[b], p[d])
      /\ \A j \in DOMAIN q : j # b => q[j] = p[j]
  BY DEF Merge
<1> HIDE DEF q
<1>7. ASSUME NEW f \in [Nat -> Int]
      PROVE  \E g \in [Nat -> Int] : /\ g[b] = f[b] + f[d] /\ g[d] = 0
                                     /\ \A j \in Nat : j # b /\ j # d => g[j] = f[j]
  <2> DEFINE g == [j \in Nat |-> IF j = b THEN f[b] + f[d] ELSE IF j = d THEN 0 ELSE f[j]]
  <2>1. g \in [Nat -> Int]
    BY <1>4
  <2>2. g[b] = f[b] + f[d] /\ g[d] = 0 /\ \A j \in Nat : j # b /\ j # d => g[j] = f[j]
    BY <1>4
  <2> QED BY <2>1, <2>2
<1>8. PICK S2 \in [Nat -> Int] : /\ S2[b] = S[b] + S[d] /\ S2[d] = 0
                                 /\ \A j \in Nat : j # b /\ j # d => S2[j] = S[j]
  BY <1>2, <1>7
<1>9. PICK A2 \in [Nat -> Int] : /\ A2[b] = A[b] + A[d] /\ A2[d] = 0
                                 /\ \A j \in Nat : j # b /\ j # d => A2[j] = A[j]
  BY <1>2, <1>7
<1>10. PICK M2 \in [Nat -> Int] : /\ M2[b] = M[b] + M[d] /\ M2[d] = 0
                                  /\ \A j \in Nat : j # b /\ j # d => M2[j] = M[j]
  BY <1>2, <1>7
<1> DEFINE t == s[n]  u == a[n]
<1> HIDE DEF t, u
<1>11. Tally(S2, n, s[n])
  <2>1. Tally(S, n, t) /\ t \in Int
    BY <1>3, <1>5 DEF t
  <2>2. Tally(S2, n, t)
    BY <2>1, <1>2, <1>4, <1>8, TallyMove
  <2> QED BY <2>2 DEF t
<1>12. Tally(A2, n, a[n])
  <2>1. Tally(A, n, u) /\ u \in Int
    BY <1>3, <1>5 DEF u
  <2>2. Tally(A2, n, u)
    BY <2>1, <1>2, <1>4, <1>9, TallyMove
  <2> QED BY <2>2 DEF u
<1>13. Tally(M2, n, n)
  <2>1. Tally(M, n, n)
    BY <1>3
  <2> QED BY <2>1, <1>2, <1>4, <1>10, TallyMove
<1>14. Partial(q[b], S2[b], A2[b], M2[b])
  <2>1. Partial(p[b], S[b], A[b], M[b]) /\ Partial(p[d], S[d], A[d], M[d])
    BY <1>1, <1>4 DEF Tallied
  <2>2. Partial(FAdd(p[b], p[d]), S[b] + S[d], A[b] + A[d], M[b] + M[d])
    BY <2>1, PartialAdds
  <2> QED BY <2>2, <1>6, <1>8, <1>9, <1>10
<1>15. ASSUME NEW j \in Nat, j \in DOMAIN q PROVE Partial(q[j], S2[j], A2[j], M2[j])
  <2>1. CASE j = b
    BY <2>1, <1>14
  <2>2. CASE j # b
    <3>1. j \in DOMAIN p /\ j # d /\ q[j] = p[j]
      BY <2>2, <1>15, <1>6
    <3>2. Partial(p[j], S[j], A[j], M[j])
      BY <3>1, <1>1 DEF Tallied
    <3>3. S2[j] = S[j] /\ A2[j] = A[j] /\ M2[j] = M[j]
      BY <2>2, <3>1, <1>8, <1>9, <1>10
    <3> QED BY <3>1, <3>2, <3>3
  <2> QED BY <2>1, <2>2
<1>16. ASSUME NEW j \in Nat, j \notin DOMAIN q PROVE S2[j] = 0 /\ A2[j] = 0 /\ M2[j] = 0
  <2>1. CASE j = d
    BY <2>1, <1>8, <1>9, <1>10
  <2>2. CASE j # d
    <3>1. j \notin DOMAIN p /\ j # b
      BY <2>2, <1>16, <1>6
    <3>2. S[j] = 0 /\ A[j] = 0 /\ M[j] = 0
      BY <3>1, <1>1 DEF Tallied
    <3> QED BY <2>2, <3>1, <3>2, <1>8, <1>9, <1>10
  <2> QED BY <2>1, <2>2
<1>17. Tallied(q, v, n, S2, A2, M2, s, a)
  BY <1>3, <1>8, <1>9, <1>10, <1>11, <1>12, <1>13, <1>15, <1>16 DEF Tallied
<1> QED BY <1>17 DEF Counted, q

\* The only partial sum there is at the end is that of the whole vector.
LEMMA CountedAll ==
  ASSUME NEW v \in Vectors, NEW p, Counted(p, v, Len(v)),
         NEW k \in 0 .. Len(v), DOMAIN p = {k}
  PROVE  Partial(p[k], SumOf(v), Absolute(v), Len(v))
<1>1. PICK S, A, M, s, a : Tallied(p, v, Len(v), S, A, M, s, a)
  BY DEF Counted
<1>2. S \in [Nat -> Int] /\ A \in [Nat -> Int] /\ M \in [Nat -> Int]
  BY <1>1 DEF Tallied
<1> DEFINE n == Len(v)
<1>3. /\ PartialSums(v, s) /\ SumOf(v) = s[n] /\ Tally(S, n, s[n])
      /\ AbsoluteSums(v, a) /\ Absolute(v) = a[n] /\ Tally(A, n, a[n])
      /\ Tally(M, n, n)
  BY <1>1 DEF Tallied
<1>4. n \in Nat /\ n \in Int /\ n \in 0 .. n /\ k \in Nat /\ k <= n
  BY VectorElements
<1>5. s[n] \in Int /\ a[n] \in Int
  BY <1>3, <1>4, SumsAreIntegers
<1>6. \A j \in Nat : j # k => S[j] = 0 /\ A[j] = 0 /\ M[j] = 0
  BY <1>1 DEF Tallied
<1> HIDE DEF n
<1>7. s[n] = S[k] /\ a[n] = A[k]
  <2> DEFINE t == s[n]  u == a[n]
  <2>1. Tally(S, n, t) /\ t \in Int /\ Tally(A, n, u) /\ u \in Int
    BY <1>3, <1>5
  <2> HIDE DEF t, u
  <2>2. t = S[k]
    BY <2>1, <1>2, <1>4, <1>6, TallyOne
  <2>3. u = A[k]
    BY <2>1, <1>2, <1>4, <1>6, TallyOne
  <2> QED BY <2>2, <2>3 DEF t, u
<1>8. n = M[k]
  BY <1>2, <1>3, <1>4, <1>6, TallyOne
<1>9. Partial(p[k], S[k], A[k], M[k])
  BY <1>1, <1>4 DEF Tallied
<1> QED BY <1>3, <1>7, <1>8, <1>9 DEF n

\* What the proof of the two properties adds to the type invariant: the phi is
\* within the vector, and the partial sums of a call that runs hold each of its
\* first elements once.
IInv ==
  /\ TypeOK
  /\ \A c \in Callers : i[c] <= Len(arg[c])
  /\ \A c \in Callers : phase[c] = "running" =>
        /\ Counted(sums[c], arg[c], i[c])
        /\ ~ Reassociable => DOMAIN sums[c] = {0}
  /\ ExactSumsAgree /\ ErrorBounded

\* Partial sums with one more ...
LEMMA PutTyped ==
  ASSUME NEW p, NEW n \in Nat, DOMAIN p \subseteq 0 .. n, p \in [DOMAIN p -> Int],
         NEW k \in 0 .. n + 1, NEW x \in Int
  PROVE  /\ DOMAIN Put(p, k, x) \subseteq 0 .. n + 1
         /\ Put(p, k, x) \in [DOMAIN Put(p, k, x) -> Int]
  BY DEF Put

\* ... and with one less.
LEMMA MergeTyped ==
  ASSUME NEW p, NEW n \in Nat, DOMAIN p \subseteq 0 .. n, p \in [DOMAIN p -> Int],
         NEW b \in DOMAIN p, NEW d \in DOMAIN p
  PROVE  /\ DOMAIN Merge(p, b, d) \subseteq 0 .. n
         /\ Merge(p, b, d) \in [DOMAIN Merge(p, b, d) -> Int]
<1>1. FAdd(p[b], p[d]) \in Int
  <2>1. p[b] + p[d] \in Int
    OBVIOUS
  <2> QED BY <2>1, Rounding DEF FAdd
<1> QED BY <1>1 DEF Merge

\* What IInv says of one caller, given its part of the state.
Holds(ph, v, n, p, x) ==
  /\ n <= Len(v)
  /\ DOMAIN p \subseteq 0 .. n /\ p \in [DOMAIN p -> Int]
  /\ ph = "running" => Counted(p, v, n) /\ (~ Reassociable => DOMAIN p = {0})
  /\ ph = "returned" =>
       /\ Exact(v) => x = Sequential(v)
       /\ Magnitude(x - SumOf(v)) * (Two[Precision] - (Len(v) - 1)) <= (Len(v) - 1) * Absolute(v)

\* The invariant is what is said of each caller.
LEMMA InvIsHolds ==
  IInv <=> /\ phase \in [Callers -> {"idle", "running", "returned"}]
           /\ arg \in [Callers -> Vectors] /\ i \in [Callers -> Nat]
           /\ result \in [Callers -> Int] /\ DOMAIN sums = Callers
           /\ \A c \in Callers : Holds(phase[c], arg[c], i[c], sums[c], result[c])
  BY DEF IInv, TypeOK, Holds, ExactSumsAgree, ErrorBounded

\* A call that starts.
LEMMA CallHolds ==
  ASSUME NEW v \in Vectors
  PROVE  Holds("running", v, 0, [k \in {0} |-> 0], 0)
<1> DEFINE p == [k \in {0} |-> 0]
<1>1. Counted(p, v, 0)
  BY CountedNothing
<1>2. DOMAIN p = {0} /\ p \in [DOMAIN p -> Int] /\ DOMAIN p \subseteq 0 .. 0
  OBVIOUS
<1>3. 0 <= Len(v)
  BY VectorElements
<1> HIDE DEF p
<1>4. Holds("running", v, 0, p, 0)
  BY <1>1, <1>2, <1>3 DEF Holds
<1> QED BY <1>4 DEF p

\* One iteration.
LEMMA IterateHolds ==
  ASSUME NEW v \in Vectors, NEW n \in Nat, n = 0 \/ n < Len(v), NEW p, NEW x,
         Holds("running", v, n, p, x), NEW q,
         q = IF Reassociable THEN Put(p, n + 1, v[n + 1]) ELSE Put(p, 0, FAdd(p[0], v[n + 1]))
  PROVE  Holds("running", v, n + 1, q, x)
<1>1. n < Len(v) /\ n + 1 <= Len(v) /\ n + 1 \in 1 .. Len(v)
  BY VectorElements
<1>2. /\ DOMAIN p \subseteq 0 .. n /\ p \in [DOMAIN p -> Int] /\ Counted(p, v, n)
      /\ ~ Reassociable => DOMAIN p = {0}
  BY DEF Holds
<1>3. v[n + 1] \in Int
  BY <1>1, VectorElements
<1>4. CASE Reassociable
  <2>1. q = Put(p, n + 1, v[n + 1])
    BY <1>4
  <2>2. n + 1 \in 0 .. n + 1 /\ n + 1 \in Nat /\ n + 1 \notin DOMAIN p
    BY <1>2
  <2>3. DOMAIN q \subseteq 0 .. n + 1 /\ q \in [DOMAIN q -> Int]
    BY <2>1, <2>2, <1>2, <1>3, PutTyped
  <2>4. /\ n + 1 \in DOMAIN q /\ q[n + 1] = v[n + 1]
        /\ \A j \in Nat : j # n + 1 => (j \in DOMAIN q <=> j \in DOMAIN p)
        /\ \A j \in DOMAIN q : j # n + 1 => q[j] = p[j]
    BY <2>1 DEF Put
  <2>5. Counted(q, v, n + 1)
    BY <2>2, <2>4, <1>1, <1>2, CountedElement
  <2> QED BY <2>3, <2>5, <1>1, <1>4 DEF Holds
<1>5. CASE ~ Reassociable
  <2>1. q = Put(p, 0, FAdd(p[0], v[n + 1])) /\ DOMAIN p = {0}
    BY <1>2, <1>5
  <2>2. FAdd(p[0], v[n + 1]) \in Int
    <3>1. p[0] + v[n + 1] \in Int
      BY <2>1, <1>2, <1>3
    <3> QED BY <3>1, Rounding DEF FAdd
  <2>3. DOMAIN q \subseteq 0 .. n + 1 /\ q \in [DOMAIN q -> Int]
    <3>1. 0 \in 0 .. n + 1
      OBVIOUS
    <3> QED BY <3>1, <2>1, <2>2, <1>2, PutTyped
  <2>4. /\ 0 \in DOMAIN q /\ 0 \in DOMAIN p /\ q[0] = FAdd(p[0], v[n + 1])
        /\ \A j \in Nat : j # 0 => (j \in DOMAIN q <=> j \in DOMAIN p)
        /\ \A j \in DOMAIN q : j # 0 => q[j] = p[j]
    BY <2>1 DEF Put
  <2>5. Counted(q, v, n + 1)
    <3>1. 0 \in Nat /\ 0 <= n + 1
      OBVIOUS
    <3> QED BY <3>1, <2>4, <1>1, <1>2, CountedElement
  <2>6. DOMAIN q = {0}
    BY <2>1 DEF Put
  <2> QED BY <2>3, <2>5, <2>6, <1>1 DEF Holds
<1> QED BY <1>4, <1>5

\* Two partial sums are added.
LEMMA ReassociateHolds ==
  ASSUME NEW v \in Vectors, NEW n \in Nat, NEW p, NEW x,
         Holds("running", v, n, p, x), Reassociable,
         NEW b \in DOMAIN p, NEW d \in DOMAIN p, b < d
  PROVE  Holds("running", v, n, Merge(p, b, d), x)
<1>1. /\ n <= Len(v) /\ DOMAIN p \subseteq 0 .. n /\ p \in [DOMAIN p -> Int]
      /\ Counted(p, v, n)
  BY DEF Holds
<1>2. n \in 0 .. Len(v)
  BY <1>1, VectorElements
<1>3. b # d
  BY <1>1
<1>4. Counted(Merge(p, b, d), v, n)
  BY <1>1, <1>2, <1>3, CountedMerge
<1>5. DOMAIN Merge(p, b, d) \subseteq 0 .. n /\ Merge(p, b, d) \in [DOMAIN Merge(p, b, d) -> Int]
  BY <1>1, MergeTyped
<1> QED BY <1>1, <1>4, <1>5 DEF Holds

\* A call returns the only partial sum that is left.
LEMMA ReturnHolds ==
  ASSUME NEW v \in Vectors, NEW n \in Nat, ~ (n = 0 \/ n < Len(v)), NEW p, NEW x,
         Holds("running", v, n, p, x), NEW k, DOMAIN p = {k}
  PROVE  Holds("returned", v, n, p, p[k]) /\ p[k] \in Int
<1>1. /\ n <= Len(v) /\ DOMAIN p \subseteq 0 .. n /\ p \in [DOMAIN p -> Int]
      /\ Counted(p, v, n)
  BY DEF Holds
<1>2. n = Len(v) /\ n >= 1 /\ k \in 0 .. Len(v)
  BY <1>1, VectorElements
<1>3. Partial(p[k], SumOf(v), Absolute(v), Len(v))
  BY <1>1, <1>2, CountedAll
<1>4. Exact(v) => p[k] = Sequential(v)
  BY <1>3, SequentialExact DEF Partial, Exact
<1>5. Magnitude(p[k] - SumOf(v)) * (Two[Precision] - (Len(v) - 1)) <= (Len(v) - 1) * Absolute(v)
  BY <1>2, <1>3 DEF Partial
<1>6. p[k] \in Int
  BY <1>3 DEF Partial
<1> QED BY <1>1, <1>4, <1>5, <1>6 DEF Holds

\* The invariant holds at first.
LEMMA InitInv == Init => IInv
<1> SUFFICES ASSUME Init PROVE IInv
  OBVIOUS
<1>1. /\ phase \in [Callers -> {"idle", "running", "returned"}]
      /\ arg \in [Callers -> Vectors] /\ i \in [Callers -> Nat]
      /\ result \in [Callers -> Int] /\ DOMAIN sums = Callers
  BY DEF Init
<1>2. ASSUME NEW c \in Callers PROVE Holds(phase[c], arg[c], i[c], sums[c], result[c])
  <2>1. phase[c] = "idle" /\ i[c] = 0 /\ sums[c] = << >> /\ arg[c] \in Vectors
    BY DEF Init
  <2>2. DOMAIN << >> = {} /\ << >> \in [{} -> Int]
    OBVIOUS
  <2>3. 0 <= Len(arg[c])
    BY <2>1, VectorElements
  <2>4. DOMAIN sums[c] = {} /\ sums[c] \in [DOMAIN sums[c] -> Int]
    BY <2>1, <2>2
  <2> QED BY <2>1, <2>3, <2>4 DEF Holds
<1> QED BY <1>1, <1>2, InvIsHolds

\* What a step makes of the state of caller c; it leaves the others alone.
Becomes(c, ph, v, n, p, x) ==
  /\ phase' = [phase EXCEPT ![c] = ph] /\ arg' = [arg EXCEPT ![c] = v]
  /\ i' = [i EXCEPT ![c] = n] /\ result' = [result EXCEPT ![c] = x]
  /\ DOMAIN sums' = Callers
  /\ \A b \in Callers : sums'[b] = IF b = c THEN p ELSE sums[b]

\* The invariant holds after a step if it holds of what the step makes of one
\* caller's part of the state.
LEMMA OneCaller ==
  ASSUME IInv, NEW c \in Callers,
         NEW ph \in {"idle", "running", "returned"}, NEW v \in Vectors, NEW n \in Nat,
         NEW p, NEW x \in Int, Holds(ph, v, n, p, x), Becomes(c, ph, v, n, p, x)
  PROVE  IInv'
<1>1. /\ phase \in [Callers -> {"idle", "running", "returned"}]
      /\ arg \in [Callers -> Vectors] /\ i \in [Callers -> Nat]
      /\ result \in [Callers -> Int] /\ DOMAIN sums = Callers
      /\ \A b \in Callers : Holds(phase[b], arg[b], i[b], sums[b], result[b])
  BY InvIsHolds
<1>2. /\ phase' \in [Callers -> {"idle", "running", "returned"}]
      /\ arg' \in [Callers -> Vectors] /\ i' \in [Callers -> Nat]
      /\ result' \in [Callers -> Int] /\ DOMAIN sums' = Callers
  BY <1>1 DEF Becomes
<1>3. ASSUME NEW b \in Callers
      PROVE  Holds(phase'[b], arg'[b], i'[b], sums'[b], result'[b])
  <2>1. CASE b = c
    BY <2>1, <1>1 DEF Becomes
  <2>2. CASE b # c
    <3>1. /\ phase'[b] = phase[b] /\ arg'[b] = arg[b] /\ i'[b] = i[b]
          /\ sums'[b] = sums[b] /\ result'[b] = result[b]
      BY <2>2, <1>1 DEF Becomes
    <3> QED BY <3>1, <1>1
  <2> QED BY <2>1, <2>2
<1> QED
  BY <1>2, <1>3 DEF IInv, TypeOK, Holds, ExactSumsAgree, ErrorBounded

\* The invariant is preserved by every step.
LEMMA NextInv == IInv /\ [Next]_vars => IInv'
<1> SUFFICES ASSUME IInv, [Next]_vars PROVE IInv'
  OBVIOUS
<1>1. CASE UNCHANGED vars
  BY <1>1 DEF vars, IInv, TypeOK, ExactSumsAgree, ErrorBounded
<1>2. ASSUME NEW c \in Callers, (\E v \in Vectors : Call(c, v)) \/ Step(c)
      PROVE  IInv'
  <2>1. /\ phase \in [Callers -> {"idle", "running", "returned"}]
        /\ arg \in [Callers -> Vectors] /\ i \in [Callers -> Nat]
        /\ result \in [Callers -> Int] /\ DOMAIN sums = Callers
        /\ Holds(phase[c], arg[c], i[c], sums[c], result[c])
    BY InvIsHolds
  <2>2. arg[c] \in Vectors /\ i[c] \in Nat /\ result[c] \in Int
    BY <2>1
  <2>3. /\ phase = [phase EXCEPT ![c] = phase[c]] /\ arg = [arg EXCEPT ![c] = arg[c]]
        /\ i = [i EXCEPT ![c] = i[c]]
        /\ result = [result EXCEPT ![c] = result[c]]
    BY <2>1
  <2>4. ASSUME NEW v \in Vectors, Call(c, v) PROVE IInv'
    <3> DEFINE p == [k \in {0} |-> 0]
    <3>1. Becomes(c, "running", v, 0, p, 0)
      BY <2>1, <2>4 DEF Call, Becomes
    <3>2. Holds("running", v, 0, p, 0)
      BY CallHolds
    <3> HIDE DEF p
    <3>3. 0 \in Nat /\ 0 \in Int
      OBVIOUS
    <3> QED BY <3>1, <3>2, <3>3, OneCaller
  <2>5. CASE Iterate(c)
    <3> DEFINE x == arg[c][i[c] + 1]
               q == IF Reassociable THEN Put(sums[c], i[c] + 1, x)
                    ELSE Put(sums[c], 0, FAdd(sums[c][0], x))
    <3>1. phase[c] = "running" /\ (i[c] = 0 \/ i[c] < Len(arg[c]))
      BY <2>5 DEF Iterate, Looping
    <3>2. Becomes(c, "running", arg[c], i[c] + 1, q, result[c])
      BY <2>1, <2>3, <2>5, <3>1 DEF Iterate, Becomes
    <3>3. Holds("running", arg[c], i[c] + 1, q, result[c])
      BY <2>1, <2>2, <3>1, IterateHolds
    <3>4. i[c] + 1 \in Nat
      BY <2>2
    <3> HIDE DEF q
    <3> QED BY <2>2, <3>2, <3>3, <3>4, OneCaller
  <2>6. CASE Reassociate(c)
    <3>1. phase[c] = "running" /\ Reassociable
      BY <2>6 DEF Reassociate
    <3>2. PICK b, d \in DOMAIN sums[c] :
            b < d /\ sums' = [sums EXCEPT ![c] = Merge(sums[c], b, d)]
      BY <2>6 DEF Reassociate
    <3> DEFINE q == Merge(sums[c], b, d)
    <3>3. Holds("running", arg[c], i[c], q, result[c])
      BY <2>1, <2>2, <3>1, <3>2, ReassociateHolds
    <3>4. Becomes(c, "running", arg[c], i[c], q, result[c])
      BY <2>1, <2>3, <2>6, <3>1, <3>2 DEF Reassociate, Becomes
    <3> HIDE DEF q
    <3> QED BY <2>2, <3>3, <3>4, OneCaller
  <2>7. CASE Return(c)
    <3>1. phase[c] = "running" /\ ~ (i[c] = 0 \/ i[c] < Len(arg[c]))
      BY <2>7 DEF Return, Looping
    <3>2. PICK k \in DOMAIN sums[c] :
            DOMAIN sums[c] = {k} /\ result' = [result EXCEPT ![c] = sums[c][k]]
      BY <2>7 DEF Return
    <3>3. Becomes(c, "returned", arg[c], i[c], sums[c], sums[c][k])
      BY <2>1, <2>3, <2>7, <3>2 DEF Return, Becomes
    <3>4. Holds("returned", arg[c], i[c], sums[c], sums[c][k]) /\ sums[c][k] \in Int
      BY <2>1, <2>2, <3>1, <3>2, ReturnHolds
    <3> QED BY <2>2, <3>3, <3>4, OneCaller
  <2> QED BY <1>2, <2>4, <2>5, <2>6, <2>7 DEF Step
<1> QED BY <1>1, <1>2 DEF Next

-----------------------------------------------------------------------------
\* The partial sums of every call are kept as they should be.
THEOREM Invariance == Spec => []IInv
  BY InitInv, NextInv, PTL DEF Spec

\* The type invariant.
THEOREM TypeCorrect == Spec => []TypeOK
<1>1. IInv => TypeOK
  BY DEF IInv
<1> QED BY <1>1, Invariance, PTL

\* When every partial sum of a vector is exact, the comparison of the benchmark
\* holds whatever order the additions are made in (jit_test.go:107-110 and 179).
THEOREM ExactSumsCorrect == Spec => []ExactSumsAgree
<1>1. IInv => ExactSumsAgree
  BY DEF IInv
<1> QED BY <1>1, Invariance, PTL

\* Whatever order the additions are made in, the result is within the bound on
\* the error of any order: n - 1 roundings, each of one part in 2^Precision.
THEOREM ErrorBoundCorrect == Spec => []ErrorBounded
<1>1. IInv => ErrorBounded
  BY DEF IInv
<1> QED BY <1>1, Invariance, PTL
=============================================================================
