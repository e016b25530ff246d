------------------------- MODULE ScalarFieldProofs -------------------------
(***************************************************************************)
(* The arithmetic of ScalarField, for every prime curve order and every    *)
(* length of the sequences: reduction, the inverse of modInverseOrder,     *)
(* the value evalPolynomial computes, interpolation by combineSignatures,  *)
(* and the ECDSA equation; and what loops keep and primes divide.          *)
(*                                                                         *)
(* The library states no facts about its folds.  What a fold returns is    *)
(* found by unfolding its definition: a function on the subsets of the     *)
(* positions that satisfies the recursive equation exists, and induction   *)
(* over the positions tells what every such function is.                   *)
(***************************************************************************)
EXTENDS ScalarField, FiniteSets, FiniteSetTheorems, WellFoundedInduction, TLAPS

-----------------------------------------------------------------------------
(* Congruence modulo the curve order *)

\* a and b are the same scalar.
Cong(a, b) == \E k \in Int : a = b + k * CURVE_ORDER

\* Congruence is an equivalence.
LEMMA CongEquivalence ==
    /\ \A a \in Int : Cong(a, a)
    /\ \A a, b \in Int : Cong(a, b) => Cong(b, a)
    /\ \A a, b, c \in Int : Cong(a, b) /\ Cong(b, c) => Cong(a, c)
  <1> DEFINE p == CURVE_ORDER
  <1>0. p \in Int
    BY CurveOrderAssumption
  <1> HIDE DEF p
  <1>1. ASSUME NEW a \in Int PROVE \E k \in Int : a = a + k * p
    <2>1. a = a + 0 * p
      BY <1>0
    <2> QED
      BY <2>1
  <1>2. ASSUME NEW a \in Int, NEW b \in Int, \E k \in Int : a = b + k * p
        PROVE  \E k \in Int : b = a + k * p
    <2>1. PICK k \in Int : a = b + k * p
      BY <1>2
    <2>2. (-k) * p = -(k * p) /\ k * p \in Int
      BY <1>0
    <2>3. b = a + (-k) * p /\ -k \in Int
      BY <2>1, <2>2
    <2> QED
      BY <2>3
  <1>3. ASSUME NEW a \in Int, NEW b \in Int, NEW c \in Int,
               \E k \in Int : a = b + k * p, \E k \in Int : b = c + k * p
        PROVE  \E k \in Int : a = c + k * p
    <2>1. PICK k \in Int : a = b + k * p
      BY <1>3
    <2>2. PICK l \in Int : b = c + l * p
      BY <1>3
    <2>3. (k + l) * p = k * p + l * p /\ k * p \in Int /\ l * p \in Int
      BY <1>0
    <2>4. a = c + (k + l) * p /\ k + l \in Int
      BY <2>1, <2>2, <2>3
    <2> QED
      BY <2>4
  <1> QED
    BY <1>1, <1>2, <1>3 DEF Cong, p

\* Sums and products of congruent numbers are congruent.
LEMMA CongArithmetic ==
    ASSUME NEW a \in Int, NEW b \in Int, NEW c \in Int, NEW d \in Int, Cong(a, b), Cong(c, d)
    PROVE  Cong(a + c, b + d) /\ Cong(a - c, b - d) /\ Cong(a * c, b * d)
  <1> DEFINE p == CURVE_ORDER
  <1>0. p \in Int
    BY CurveOrderAssumption
  <1>1. PICK k \in Int : a = b + k * p
    BY DEF Cong
  <1>2. PICK l \in Int : c = d + l * p
    BY DEF Cong
  <1> HIDE DEF p
  <1>3. (k + l) * p = k * p + l * p /\ (k - l) * p = k * p - l * p
        /\ k * p \in Int /\ l * p \in Int
    BY <1>0
  <1>4. a + c = b + d + (k + l) * p /\ a - c = b - d + (k - l) * p
    BY <1>1, <1>2, <1>3
  <1>5. (b + k * p) * (d + l * p) = b * d + (b * l + k * d + (k * l) * p) * p
    BY <1>0
  <1>6. a * c = b * d + (b * l + k * d + (k * l) * p) * p
    BY <1>1, <1>2, <1>5
  <1>7. k + l \in Int /\ k - l \in Int /\ b * l + k * d + (k * l) * p \in Int
    BY <1>0
  <1> QED
    BY <1>4, <1>6, <1>7 DEF Cong, p

\* Different scalars are not congruent.
LEMMA ScalarsDiffer ==
    ASSUME NEW a \in Scalar, NEW b \in Scalar, Cong(a, b)
    PROVE  a = b
  <1> DEFINE p == CURVE_ORDER
  <1>1. p \in Nat /\ p > 0 /\ a \in Nat /\ b \in Nat /\ a < p /\ b < p
    BY CurveOrderAssumption DEF Scalar
  <1>2. PICK k \in Int : a = b + k * p
    BY DEF Cong
  <1> HIDE DEF p
  <1>3. k >= 1 => k * p >= p
    BY <1>1
  <1>4. k <= -1 => k * p <= -p
    BY <1>1
  <1>5. k = 0
    BY <1>1, <1>2, <1>3, <1>4
  <1> QED
    BY <1>1, <1>2, <1>5

\* Remainders are congruent to what is divided, whatever its sign.
LEMMA Remainders ==
    \A x \in Int : /\ x % CURVE_ORDER \in Scalar /\ Cong(x % CURVE_ORDER, x)
                   /\ ModN(x) \in Scalar /\ Cong(ModN(x), x)
                   /\ JSRem(JSRem(x, CURVE_ORDER) + CURVE_ORDER, CURVE_ORDER) = ModN(x)
  <1> SUFFICES ASSUME NEW x \in Int
               PROVE  /\ x % CURVE_ORDER \in Scalar /\ Cong(x % CURVE_ORDER, x)
                      /\ ModN(x) \in Scalar /\ Cong(ModN(x), x)
                      /\ JSRem(JSRem(x, CURVE_ORDER) + CURVE_ORDER, CURVE_ORDER) = ModN(x)
    OBVIOUS
  <1> DEFINE p == CURVE_ORDER
  <1>1. p \in Nat /\ p > 0
    BY CurveOrderAssumption
  <1>2. ASSUME NEW y \in Int
        PROVE  /\ y % p \in 0..(p - 1) /\ \E k \in Int : y % p = y + k * p
    <2> HIDE DEF p
    <2>1. y % p \in 0..(p - 1) /\ y = p * (y \div p) + (y % p) /\ y \div p \in Int
      BY <1>1
    <2> DEFINE q == y \div p
               r == y % p
    <2>2. y = p * q + r /\ q \in Int /\ r \in Int
      BY <2>1
    <2> HIDE DEF q, r
    <2>3. (-q) * p = -(p * q) /\ p * q \in Int
      BY <1>1, <2>2
    <2>4. r = y + (-q) * p /\ -q \in Int
      BY <2>2, <2>3
    <2> QED
      BY <2>1, <2>4 DEF q, r
  <1>3. x % p \in Scalar /\ Cong(x % p, x)
    BY <1>2 DEF Scalar, Cong
  <1>4. CASE x >= 0
    <2>1. JSRem(x, p) = x % p /\ ~(x % p < 0)
      BY <1>1, <1>2, <1>4 DEF JSRem
    <2>2. ModN(x) = x % p
      BY <2>1 DEF ModN
    <2>3. ((x % p) + p) % p = x % p
      <3> DEFINE r == x % p
      <3>1. r \in 0..(p - 1)
        BY <1>2
      <3> HIDE DEF p, r
      <3>2. (r + p) % p = r
        BY <1>1, <3>1
      <3> QED
        BY <3>2 DEF r
    <2>4. JSRem((x % p) + p, p) = x % p
      BY <1>1, <1>2, <2>3 DEF JSRem
    <2> QED
      BY <1>3, <2>1, <2>2, <2>4
  <1>5. CASE ~(x >= 0)
    <2> DEFINE r == (-x) % p
    <2>1. r \in 0..(p - 1) /\ JSRem(x, p) = -r
      BY <1>1, <1>2, <1>5 DEF JSRem
    <2>2. PICK k \in Int : r = -x + k * p
      BY <1>2
    <2> DEFINE s == IF r = 0 THEN 0 ELSE p - r
    <2>3. ModN(x) = s
      BY <1>1, <2>1 DEF ModN
    <2> HIDE DEF r
    <2>4. s \in Scalar
      BY <1>1, <2>1 DEF Scalar
    <2>5. JSRem(-r + p, p) = s
      <3> HIDE DEF p
      <3>1. (p - r) % p = s
        BY <1>1, <2>1
      <3> QED
        BY <1>1, <2>1, <3>1 DEF JSRem
    <2>6. \E l \in Int : s = x + l * p
      <3> HIDE DEF p
      <3>1. (-k) * p = -(k * p) /\ (1 - k) * p = p - k * p /\ k * p \in Int
        BY <1>1
      <3>2. CASE r = 0
        <4>1. s = x + (-k) * p /\ -k \in Int
          BY <2>2, <3>1, <3>2
        <4> QED
          BY <4>1
      <3>3. CASE r # 0
        <4>1. s = x + (1 - k) * p /\ 1 - k \in Int
          BY <1>1, <2>1, <2>2, <3>1, <3>3
        <4> QED
          BY <4>1
      <3> QED
        BY <3>2, <3>3
    <2> QED
      BY <1>3, <2>1, <2>3, <2>4, <2>5, <2>6 DEF Cong
  <1> QED
    BY <1>4, <1>5

-----------------------------------------------------------------------------
(* Recursive functions *)

\* A nonempty set of naturals has a least element.
LEMMA LeastNatural ==
    ASSUME NEW S \in SUBSET Nat, S # {}
    PROVE  \E n \in S : \A m \in S : n <= m
  <1>1. PICK n \in S : \A m \in S : ~(<<m, n>> \in OpToRel(<, Nat))
    BY WFMin, NatLessThanWellFounded
  <1>2. ASSUME NEW m \in Nat, NEW k \in Nat, m < k
        PROVE  <<m, k>> \in OpToRel(<, Nat)
    <2> DEFINE pair == <<m, k>>
    <2>1. pair \in Nat \X Nat /\ pair[1] = m /\ pair[2] = k
      OBVIOUS
    <2> HIDE DEF pair
    <2>2. pair[1] < pair[2]
      BY <1>2, <2>1
    <2>3. pair \in OpToRel(<, Nat)
      BY <2>1, <2>2, Zenon DEF OpToRel
    <2> QED
      BY <2>3 DEF pair
  <1>3. ASSUME NEW m \in S PROVE ~(m < n)
    BY <1>1, <1>2
  <1> QED
    BY <1>3


\* f[x] is base[x] when the measure m is zero, and else F of x and f[next[x]].
IsRecursive(f, D, m, base, next, F) ==
    \A x \in D : f[x] = IF m[x] = 0 THEN base[x] ELSE F[<<x, f[next[x]]>>]

\* A recursion whose measure goes down defines a function.
LEMMA RecursionExists ==
    ASSUME NEW X, NEW V, NEW m \in [X -> Nat], NEW base \in [X -> V], NEW next \in [X -> X],
           NEW F \in [X \X V -> V], \A x \in X : m[x] # 0 => m[next[x]] < m[x]
    PROVE  \E f \in [X -> V] : IsRecursive(f, X, m, base, next, F)
  <1> DEFINE Below(n) == {x \in X : m[x] <= n}
             Upto(n) == {f \in [Below(n) -> V] : IsRecursive(f, Below(n), m, base, next, F)}
             Bad == {n \in Nat : Upto(n) = {}}
  <1>1. ASSUME NEW n \in Nat, n = 0 \/ Upto(n - 1) # {} PROVE Upto(n) # {}
    <2>1. CASE n = 0
      <3> DEFINE g == [x \in Below(0) |-> base[x]]
      <3>1. g \in [Below(0) -> V] /\ \A x \in Below(0) : m[x] = 0
        OBVIOUS
      <3>2. IsRecursive(g, Below(0), m, base, next, F)
        BY <3>1 DEF IsRecursive
      <3> QED
        BY <2>1, <3>1, <3>2
    <2>2. CASE n # 0
      <3>1. PICK f \in [Below(n - 1) -> V] : IsRecursive(f, Below(n - 1), m, base, next, F)
        BY <1>1, <2>2
      <3> DEFINE g == [x \in Below(n) |-> IF m[x] = 0 THEN base[x] ELSE F[<<x, f[next[x]]>>]]
      <3>2. ASSUME NEW x \in Below(n), m[x] # 0 PROVE next[x] \in Below(n - 1)
        BY <2>2, <3>2
      <3>3. g \in [Below(n) -> V]
        <4> HIDE DEF Below
        <4>1. \A x \in Below(n) : x \in X
          BY DEF Below
        <4>2. ASSUME NEW x \in Below(n), m[x] # 0 PROVE F[<<x, f[next[x]]>>] \in V
          <5>1. x \in X /\ f[next[x]] \in V
            BY <3>1, <3>2, <4>1, <4>2
          <5> QED
            BY <5>1
        <4> QED
          BY <4>1, <4>2
      <3>4. ASSUME NEW x \in Below(n - 1) PROVE x \in Below(n) /\ g[x] = f[x]
        <4>1. x \in Below(n)
          OBVIOUS
        <4> QED
          BY <3>1, <4>1 DEF IsRecursive
      <3>5. IsRecursive(g, Below(n), m, base, next, F)
        <4>1. ASSUME NEW x \in Below(n)
              PROVE  g[x] = IF m[x] = 0 THEN base[x] ELSE F[<<x, g[next[x]]>>]
          <5> HIDE DEF Below
          <5>1. m[x] # 0 => g[next[x]] = f[next[x]]
            BY <3>2, <3>4
          <5>2. g[x] = IF m[x] = 0 THEN base[x] ELSE F[<<x, f[next[x]]>>]
            OBVIOUS
          <5> HIDE DEF g
          <5> QED
            BY <5>1, <5>2
        <4> HIDE DEF g, Below
        <4> QED
          BY <4>1 DEF IsRecursive
      <3> HIDE DEF g
      <3> QED
        BY <3>3, <3>5
    <2> QED
      BY <2>1, <2>2
  <1>2. \A n \in Nat : Upto(n) # {}
    <2> HIDE DEF Upto
    <2>1. SUFFICES ASSUME Bad # {} PROVE FALSE
      OBVIOUS
    <2>2. PICK n \in Bad : \A k \in Bad : n <= k
      <3> HIDE DEF Bad
      <3>1. Bad \in SUBSET Nat
        BY DEF Bad
      <3> QED
        BY <2>1, <3>1, LeastNatural
    <2>3. n = 0 \/ Upto(n - 1) # {}
      <3>1. n # 0 => n - 1 \in Nat /\ n - 1 \notin Bad
        BY <2>2
      <3> QED
        BY <3>1
    <2> QED
      BY <1>1, <2>3
  <1> DEFINE h == [n \in Nat |-> CHOOSE f : f \in Upto(n)]
             f == [x \in X |-> h[m[x]][x]]
  <1>3. ASSUME NEW n \in Nat PROVE h[n] \in Upto(n)
    <2> HIDE DEF Upto
    <2>1. \E g : g \in Upto(n)
      BY <1>2
    <2>2. h[n] = CHOOSE g : g \in Upto(n)
      OBVIOUS
    <2> HIDE DEF h
    <2> QED
      BY <2>1, <2>2, Zenon
  <1> HIDE DEF h
  <1>4. ASSUME NEW n \in Nat, NEW x \in X, m[x] <= n
        PROVE  h[n][x] \in V /\ (m[x] # 0 => h[n][x] = F[<<x, h[n][next[x]]>>])
    <2>1. h[n] \in Upto(n) /\ x \in Below(n)
      BY <1>3, <1>4
    <2> QED
      BY <2>1 DEF IsRecursive
  <1>8. ASSUME NEW n \in Nat, NEW x \in X, m[x] = 0 PROVE h[n][x] = base[x]
    <2>1. m[x] <= n
      BY <1>8
    <2>2. h[n] \in Upto(n) /\ x \in Below(n)
      BY <1>3, <2>1
    <2> QED
      BY <2>2, <1>8 DEF IsRecursive
  <1> HIDE DEF Upto
  <1> DEFINE Differ == {k \in Nat : \E x \in X, n \in Nat :
                                       m[x] = k /\ k <= n /\ h[n][x] # h[k][x]}
  <1>5. Differ = {}
    <2>1. SUFFICES ASSUME Differ # {} PROVE FALSE
      OBVIOUS
    <2>2. PICK k \in Differ : \A l \in Differ : k <= l
      <3> HIDE DEF Differ
      <3>1. Differ \in SUBSET Nat
        BY DEF Differ
      <3> QED
        BY <2>1, <3>1, LeastNatural
    <2>3. PICK x \in X, n \in Nat : m[x] = k /\ k <= n /\ h[n][x] # h[k][x]
      OBVIOUS
    <2>4. k # 0
      BY <1>8, <2>3
    <2>5. /\ h[n][x] = F[<<x, h[n][next[x]]>>] /\ h[k][x] = F[<<x, h[k][next[x]]>>]
          /\ m[next[x]] < k /\ next[x] \in X
      BY <1>4, <2>3, <2>4
    <2>6. m[next[x]] \in Nat /\ m[next[x]] \notin Differ
      BY <2>2, <2>5
    <2>7. h[n][next[x]] = h[m[next[x]]][next[x]] /\ h[k][next[x]] = h[m[next[x]]][next[x]]
      BY <2>3, <2>5, <2>6
    <2> QED
      BY <2>3, <2>5, <2>7
  <1>6. f \in [X -> V]
    <2>1. ASSUME NEW x \in X PROVE h[m[x]][x] \in V
      <3>1. m[x] \in Nat /\ m[x] <= m[x]
        OBVIOUS
      <3> QED
        BY <1>4, <3>1
    <2> QED
      BY <2>1
  <1>7. ASSUME NEW x \in X PROVE f[x] = IF m[x] = 0 THEN base[x] ELSE F[<<x, f[next[x]]>>]
    <2>1. CASE m[x] = 0
      BY <1>8, <2>1
    <2>2. CASE m[x] # 0
      <3>1. f[x] = F[<<x, h[m[x]][next[x]]>>] /\ m[next[x]] < m[x] /\ next[x] \in X /\ m[x] \in Nat
        BY <1>4, <2>2
      <3>2. m[next[x]] \in Nat /\ m[next[x]] \notin Differ
        BY <1>5, <3>1
      <3>3. h[m[x]][next[x]] = h[m[next[x]]][next[x]]
        BY <3>1, <3>2
      <3> QED
        BY <2>2, <3>1, <3>3
    <2> QED
      BY <2>1, <2>2
  <1> HIDE DEF f
  <1> QED
    BY <1>6, <1>7 DEF IsRecursive

-----------------------------------------------------------------------------
(* The inverse of a scalar *)

\* The loop of modInverseOrder is what its recursive definition says.
LEMMA EuclidUnfolds ==
    ASSUME NEW t \in Int, NEW newt \in Int, NEW r \in Nat, NEW newr \in Nat
    PROVE  Euclid[<<t, newt, r, newr>>] =
             IF newr = 0 THEN <<r, t>>
             ELSE Euclid[<<newt, t - (r \div newr) * newt, newr, r - (r \div newr) * newr>>]
  <1> DEFINE X == Int \X Int \X Nat \X Nat
             V == Nat \X Int
             Rest(x) == <<x[2], x[1] - (x[3] \div x[4]) * x[2],
                           x[4], x[3] - (x[3] \div x[4]) * x[4]>>
             m == [x \in X |-> x[4]]
             base == [x \in X |-> <<x[3], x[1]>>]
             next == [x \in X |-> IF x[4] = 0 THEN x ELSE Rest(x)]
             F == [y \in X \X V |-> y[2]]
  <1>1. ASSUME NEW a \in Nat, NEW n \in Nat, n # 0
        PROVE  a \div n \in Int /\ a - (a \div n) * n \in Nat /\ a - (a \div n) * n < n
    <2>1. a = n * (a \div n) + (a % n) /\ a \div n \in Nat /\ a % n \in Nat /\ a % n < n
      BY <1>1
    <2> DEFINE q == a \div n
    <2>2. a = n * q + (a % n) /\ q \in Nat
      BY <2>1
    <2> HIDE DEF q
    <2>3. a - q * n = a % n
      BY <2>1, <2>2
    <2> QED
      BY <2>1, <2>3 DEF q
  <1>2. m \in [X -> Nat] /\ base \in [X -> V]
    OBVIOUS
  <1>3. ASSUME NEW x \in X, x[4] # 0 PROVE Rest(x) \in X /\ Rest(x)[4] < x[4]
    <2>1. x[1] \in Int /\ x[2] \in Int /\ x[3] \in Nat /\ x[4] \in Nat
      OBVIOUS
    <2>2. x[3] \div x[4] \in Int
      BY <1>1, <1>3, <2>1
    <2> DEFINE q == x[3] \div x[4]
    <2>3. x[3] - q * x[4] \in Nat /\ x[3] - q * x[4] < x[4]
      BY <1>1, <1>3, <2>1
    <2>4. x[1] - q * x[2] \in Int
      <3> HIDE DEF q
      <3>1. \A a, b, c \in Int : a - b * c \in Int
        OBVIOUS
      <3> QED
        BY <2>1, <2>2, <3>1 DEF q
    <2> QED
      BY <2>1, <2>3, <2>4
  <1>4. next \in [X -> X] /\ \A x \in X : m[x] # 0 => m[next[x]] < m[x]
    <2> HIDE DEF Rest, X
    <2>1. \A x \in X : x[4] \in Nat
      BY DEF X
    <2>2. next \in [X -> X]
      BY <1>3
    <2>3. ASSUME NEW x \in X, m[x] # 0 PROVE m[next[x]] < m[x]
      <3>1. x[4] # 0 /\ next[x] = Rest(x) /\ Rest(x) \in X /\ m[Rest(x)] = Rest(x)[4]
        BY <1>3, <2>3
      <3> QED
        BY <1>3, <3>1
    <2> QED
      BY <2>2, <2>3
  <1>5. PICK f \in [X -> V] : IsRecursive(f, X, m, base, next, F)
    <2>1. F \in [X \X V -> V]
      <3> HIDE DEF X, V
      <3> QED
        OBVIOUS
    <2> HIDE DEF X, V, m, base, next, F
    <2> QED
      BY <1>2, <1>4, <2>1, RecursionExists
  <1>6. f = [x \in X |-> IF x[4] = 0 THEN <<x[3], x[1]>> ELSE f[Rest(x)]]
    <2> HIDE DEF Rest
    <2>1. ASSUME NEW x \in X PROVE f[x] = IF x[4] = 0 THEN <<x[3], x[1]>> ELSE f[Rest(x)]
      <3>1. f[x] = IF m[x] = 0 THEN base[x] ELSE F[<<x, f[next[x]]>>]
        BY <1>5 DEF IsRecursive
      <3>2. m[x] = x[4] /\ base[x] = <<x[3], x[1]>> /\ (x[4] # 0 => next[x] = Rest(x))
        OBVIOUS
      <3>3. \A v \in V : F[<<x, v>>] = v
        <4> HIDE DEF X, V
        <4> QED
          OBVIOUS
      <3>4. f[next[x]] \in V
        BY <1>4, <1>5
      <3> HIDE DEF X, V, m, base, next, F
      <3> QED
        BY <3>1, <3>2, <3>3, <3>4
    <2> QED
      BY <2>1
  <1>7. Euclid = [x \in X |-> IF x[4] = 0 THEN <<x[3], x[1]>> ELSE Euclid[Rest(x)]]
    BY <1>6, Zenon DEF Euclid
  <1> DEFINE E == Euclid
             x == <<t, newt, r, newr>>
  <1>8. \A y \in X : E[y] = IF y[4] = 0 THEN <<y[3], y[1]>> ELSE E[Rest(y)]
    <2> HIDE DEF Rest
    <2>1. E = [y \in X |-> IF y[4] = 0 THEN <<y[3], y[1]>> ELSE E[Rest(y)]]
      BY <1>7
    <2> HIDE DEF E
    <2> QED
      BY <2>1
  <1> HIDE DEF E
  <1>9. x \in X /\ x[1] = t /\ x[2] = newt /\ x[3] = r /\ x[4] = newr
    OBVIOUS
  <1> HIDE DEF x, X
  <1>10. E[x] = IF newr = 0 THEN <<r, t>>
               ELSE E[<<newt, t - (r \div newr) * newt, newr, r - (r \div newr) * newr>>]
    BY <1>8, <1>9
  <1> QED
    BY <1>10 DEF E, x

\* d divides n.
Divides(d, n) == \E k \in Int : n = k * d

\* What the loop returns from r and newr: a divisor g of both, with a u that
\* multiplies k to g.
Bezout(e, k, r, newr) ==
    /\ e[1] \in Nat /\ e[1] > 0 /\ e[2] \in Int
    /\ Divides(e[1], r) /\ Divides(e[1], newr) /\ Cong(e[1], e[2] * k)

\* The invariant of the loop: t and newt multiply k to r and newr.
Multiplies(k, t, newt, r, newr) ==
    /\ t \in Int /\ newt \in Int /\ r \in Nat /\ newr \in Nat /\ r + newr > 0
    /\ Cong(r, t * k) /\ Cong(newr, newt * k)

\* The loop keeps its invariant, and ends with the greatest common divisor.
LEMMA EuclidSound ==
    ASSUME NEW k \in Int, NEW t, NEW newt, NEW r, NEW newr, Multiplies(k, t, newt, r, newr)
    PROVE  Bezout(Euclid[<<t, newt, r, newr>>], k, r, newr)
  <1> DEFINE Bad == {n \in Nat : \E a, b \in Int, s \in Nat :
                        Multiplies(k, a, b, s, n) /\ ~Bezout(Euclid[<<a, b, s, n>>], k, s, n)}
  <1>1. Bad = {}
    <2>1. SUFFICES ASSUME Bad # {} PROVE FALSE
      OBVIOUS
    <2>2. PICK n \in Bad : \A i \in Bad : n <= i
      <3> HIDE DEF Bad
      <3>1. Bad \in SUBSET Nat
        BY DEF Bad
      <3> QED
        BY <2>1, <3>1, LeastNatural
    <2>3. PICK a \in Int, b \in Int, s \in Nat :
              Multiplies(k, a, b, s, n) /\ ~Bezout(Euclid[<<a, b, s, n>>], k, s, n)
      OBVIOUS
    <2> HIDE DEF Bad
    <2>0. n \in Nat
      BY DEF Bad
    <2>6. ASSUME NEW d \in Nat, d < n, NEW b1 \in Int, NEW c1 \in Int,
                 Multiplies(k, b1, c1, n, d)
          PROVE  Bezout(Euclid[<<b1, c1, n, d>>], k, n, d)
      <3>1. d \notin Bad
        BY <2>0, <2>2, <2>6
      <3> QED
        BY <2>0, <2>6, <3>1 DEF Bad
    <2>4. ASSUME n = 0 PROVE FALSE
      <3>1. Euclid[<<a, b, s, n>>] = <<s, a>>
        BY <2>0, <2>4, EuclidUnfolds
      <3>2. s = 1 * s /\ n = 0 * s /\ s > 0
        BY <2>3, <2>4 DEF Multiplies
      <3>3. Divides(s, s) /\ Divides(s, n)
        BY <3>2 DEF Divides
      <3> QED
        BY <2>3, <3>1, <3>2, <3>3 DEF Bezout, Multiplies
    <2>5. ASSUME n # 0 PROVE FALSE
      <3> DEFINE q == s \div n
      <3>1. q \in Int /\ s - q * n \in Nat /\ s - q * n < n
        <4>1. s = n * (s \div n) + (s % n) /\ s \div n \in Nat /\ s % n \in Nat /\ s % n < n
          BY <2>0, <2>5
        <4>2. s = n * q + (s % n) /\ q \in Nat
          BY <4>1
        <4> HIDE DEF q
        <4>3. s - q * n = s % n
          BY <2>0, <4>1, <4>2
        <4> QED
          BY <4>1, <4>2, <4>3
      <3>2. Euclid[<<a, b, s, n>>] = Euclid[<<b, a - q * b, n, s - q * n>>]
        BY <2>0, <2>5, <3>1, EuclidUnfolds
      <3> HIDE DEF q
      <3> DEFINE d == s - q * n
                 c == a - q * b
      <3>3. d \in Nat /\ d < n /\ c \in Int /\ Euclid[<<a, b, s, n>>] = Euclid[<<b, c, n, d>>]
        BY <3>1, <3>2
      <3>4. Cong(d, c * k)
        <4>1. Cong(s, a * k) /\ Cong(n, b * k)
          BY <2>3 DEF Multiplies
        <4>2. Cong(q, q)
          BY <3>1, CongEquivalence
        <4>3. /\ q * n \in Int /\ b * k \in Int /\ q * (b * k) \in Int /\ a * k \in Int
              /\ Cong(q * n, q * (b * k))
          <5>1. q * n \in Int /\ b * k \in Int /\ q * (b * k) \in Int /\ a * k \in Int
            BY <2>0, <3>1
          <5> QED
            BY <2>0, <3>1, <4>1, <4>2, <5>1, CongArithmetic
        <4>4. Cong(s - q * n, a * k - q * (b * k))
          BY <4>1, <4>3, CongArithmetic
        <4>5. a * k - q * (b * k) = (a - q * b) * k
          BY <3>1
        <4> QED
          BY <4>4, <4>5
      <3>5. Multiplies(k, b, c, n, d)
        BY <2>3, <2>5, <3>3, <3>4 DEF Multiplies
      <3> HIDE DEF c
      <3>6. Bezout(Euclid[<<b, c, n, d>>], k, n, d)
        <4> HIDE DEF d
        <4> QED
          BY <2>6, <3>3, <3>5
      <3> DEFINE e == Euclid[<<b, c, n, d>>]
      <3>7. Divides(e[1], n) /\ Divides(e[1], d) /\ e[1] \in Nat
        BY <3>6 DEF Bezout
      <3> HIDE DEF e
      <3>8. PICK i \in Int : n = i * e[1]
        BY <3>7 DEF Divides
      <3>9. PICK j \in Int : d = j * e[1]
        BY <3>7 DEF Divides
      <3>10. s = (j + q * i) * e[1] /\ j + q * i \in Int
        <4>1. s = d + q * n
          BY <2>0, <3>1
        <4>2. s = j * e[1] + q * (i * e[1])
          BY <4>1, <3>8, <3>9
        <4> HIDE DEF d
        <4>3. j * e[1] + q * (i * e[1]) = (j + q * i) * e[1]
          BY <3>1, <3>7
        <4> QED
          BY <3>1, <4>2, <4>3
      <3>11. Divides(e[1], s)
        BY <3>10 DEF Divides
      <3>12. Bezout(Euclid[<<b, c, n, d>>], k, s, n)
        BY <3>6, <3>11, <3>7 DEF Bezout, e
      <3> HIDE DEF d
      <3> QED
        BY <2>3, <3>3, <3>12
    <2> QED
      BY <2>4, <2>5
  <1> HIDE DEF Bad
  <1>2. newr \notin Bad
    BY <1>1
  <1> QED
    BY <1>2 DEF Bad, Multiplies

\* The quotient of a prime by a divisor is seen by its remainder.
LEMMA MultipleHasNoRemainder ==
    ASSUME NEW g \in Nat, g > 0, NEW i \in Int
    PROVE  (i * g) % g = 0
  <1> DEFINE n == i * g
             q == n \div g
             r == n % g
  <1>1. n \in Int
    OBVIOUS
  <1> HIDE DEF n
  <1>2. n = g * q + r /\ q \in Int /\ r \in Nat /\ r < g
    BY <1>1
  <1> HIDE DEF q, r
  <1>3. r = (i - q) * g
    <2>1. i * g = g * q + r
      BY <1>2 DEF n
    <2>2. (i - q) * g = i * g - g * q /\ i * g \in Int /\ g * q \in Int
      BY <1>2
    <2> QED
      BY <1>2, <2>1, <2>2
  <1>4. i - q >= 1 => (i - q) * g >= g
    BY <1>2
  <1>5. i - q <= -1 => (i - q) * g <= -g
    BY <1>2
  <1>6. i - q = 0
    BY <1>2, <1>3, <1>4, <1>5
  <1>7. r = 0
    BY <1>2, <1>3, <1>6
  <1> QED
    BY <1>7 DEF r, n

\* As the curve order is prime, the loop of modInverseOrder ends with the inverse of every
\* number but the multiples of it.
THEOREM InverseWorks ==
    ASSUME NEW k \in Int, ~Cong(k, 0)
    PROVE  ModInverseOrder(k) \in Int /\ Cong(ModInverseOrder(k) * k, 1)
  <1> DEFINE p == CURVE_ORDER
             m == ModN(k)
             e == Euclid[<<0, 1, p, m>>]
  <1>1. p \in Nat /\ p > 1
    BY CurveOrderAssumption
  <1>2. m \in Nat /\ m > 0 /\ m < p /\ Cong(m, k)
    <2>1. ModN(k) \in Scalar /\ Cong(ModN(k), k)
      BY Remainders
    <2>2. ASSUME m = 0 PROVE FALSE
      BY <2>1, <2>2, CongEquivalence
    <2> QED
      BY <1>1, <2>1, <2>2 DEF Scalar
  <1>3. ModInverseOrder(k) = IF e[1] > 1 THEN NotInvertible
                             ELSE IF e[2] < 0 THEN e[2] + p ELSE e[2]
    <2>1. JSRem(JSRem(k, p) + p, p) = m
      BY Remainders
    <2> QED
      BY <2>1 DEF ModInverseOrder
  <1> HIDE DEF m
  <1>4. Multiplies(m, 0, 1, p, m)
    <2>1. p = 0 * m + 1 * p /\ m = 1 * m /\ 0 * m = 0
      BY <1>1, <1>2
    <2>2. Cong(p, 0 * m)
      BY <2>1 DEF Cong
    <2>3. Cong(m, 1 * m)
      BY <1>2, <2>1, CongEquivalence
    <2> QED
      BY <1>1, <1>2, <2>2, <2>3 DEF Multiplies
  <1>5. Bezout(e, m, p, m)
    BY <1>2, <1>4, EuclidSound
  <1> HIDE DEF e
  <1> DEFINE g == e[1]
             u == e[2]
  <1>6. g \in Nat /\ g > 0 /\ u \in Int /\ Divides(g, p) /\ Divides(g, m) /\ Cong(g, u * m)
    BY <1>5 DEF Bezout
  <1> HIDE DEF g, u
  <1>7. g < p
    <2>1. PICK j \in Int : m = j * g
      BY <1>6 DEF Divides
    <2>2. j <= 0 => j * g <= 0
      BY <1>6
    <2>3. j >= 1 => j * g >= g
      BY <1>6
    <2> DEFINE w == j * g
    <2>4. w <= 0 \/ w >= g
      BY <2>2, <2>3
    <2>5. m = w
      BY <2>1
    <2> HIDE DEF w
    <2> QED
      BY <1>1, <1>2, <1>6, <2>4, <2>5
  <1>8. g = 1
    <2>1. SUFFICES ASSUME g # 1 PROVE FALSE
      OBVIOUS
    <2>2. PICK i \in Int : p = i * g
      BY <1>6 DEF Divides
    <2>3. p % g = 0
      <3>1. (i * g) % g = 0
        BY <1>6, MultipleHasNoRemainder
      <3> QED
        BY <2>2, <3>1
    <2>4. g \in 2..(p - 1)
      BY <1>1, <1>6, <1>7, <2>1
    <2> QED
      BY <2>3, <2>4, CurveOrderAssumption
  <1> DEFINE v == IF u < 0 THEN u + p ELSE u
  <1>9. ModInverseOrder(k) = v
    BY <1>3, <1>8 DEF g, u
  <1>10. v \in Int /\ Cong(v, u)
    <2>1. u + p = u + 1 * p
      BY <1>1, <1>6
    <2>2. Cong(u + p, u) /\ Cong(u, u)
      <3>1. Cong(u, u)
        BY <1>6, CongEquivalence
      <3> QED
        BY <2>1, <3>1 DEF Cong
    <2> QED
      BY <1>1, <1>6, <2>2
  <1> HIDE DEF v
  <1>11. Cong(v * k, u * m)
    BY <1>2, <1>6, <1>10, CongEquivalence, CongArithmetic
  <1>12. v * k \in Int /\ u * m \in Int
    BY <1>2, <1>6, <1>10
  <1>13. Cong(u * m, 1)
    BY <1>6, <1>8, <1>12, CongEquivalence
  <1>14. Cong(v * k, 1)
    BY <1>11, <1>12, <1>13, CongEquivalence
  <1> QED
    BY <1>9, <1>10, <1>14

\* Factors that are not zero can be cancelled.
LEMMA Cancel ==
    ASSUME NEW d \in Int, NEW a \in Int, NEW b \in Int, ~Cong(d, 0), Cong(d * a, d * b)
    PROVE  Cong(a, b)
  <1> DEFINE v == ModInverseOrder(d)
  <1>1. v \in Int /\ Cong(v * d, 1)
    BY InverseWorks
  <1> HIDE DEF v
  <1>2. /\ v * d \in Int /\ d * a \in Int /\ d * b \in Int
        /\ v * (d * a) \in Int /\ v * (d * b) \in Int
        /\ v * (d * a) = (v * d) * a /\ v * (d * b) = (v * d) * b /\ 1 * a = a /\ 1 * b = b
    BY <1>1
  <1>3. Cong(v, v) /\ Cong(a, a) /\ Cong(b, b)
    BY <1>1, CongEquivalence
  <1>4. Cong(v * (d * a), v * (d * b))
    BY <1>1, <1>2, <1>3, CongArithmetic
  <1>5. Cong((v * d) * a, 1 * a) /\ Cong((v * d) * b, 1 * b)
    BY <1>1, <1>2, <1>3, CongArithmetic
  <1>6. Cong(v * (d * a), a) /\ Cong(v * (d * b), b)
    BY <1>2, <1>5
  <1>7. Cong(a, v * (d * a))
    BY <1>2, <1>6, CongEquivalence
  <1>8. Cong(a, v * (d * b))
    BY <1>2, <1>4, <1>7, CongEquivalence
  <1> QED
    BY <1>2, <1>6, <1>8, CongEquivalence

\* A product is zero only if a factor is.
LEMMA NonzeroProduct ==
    ASSUME NEW a \in Int, NEW b \in Int, ~Cong(a, 0), ~Cong(b, 0)
    PROVE  ~Cong(a * b, 0)
  <1>1. SUFFICES ASSUME Cong(a * b, 0) PROVE FALSE
    OBVIOUS
  <1>2. a * 0 = 0
    OBVIOUS
  <1>3. Cong(a * b, a * 0)
    BY <1>1, <1>2
  <1> QED
    BY <1>3, Cancel

-----------------------------------------------------------------------------
(* Sums and products over 1..n *)

\* A set of naturals with 0 that is closed under successor is all of them.
LEMMA NaturalsByInduction ==
    ASSUME NEW S, 0 \in S, \A n \in Nat : n \in S => n + 1 \in S
    PROVE  \A n \in Nat : n \in S
  <1> DEFINE Bad == {n \in Nat : n \notin S}
  <1>1. SUFFICES ASSUME Bad # {} PROVE FALSE
    OBVIOUS
  <1>2. PICK n \in Bad : \A i \in Bad : n <= i
    <2> HIDE DEF Bad
    <2>1. Bad \in SUBSET Nat
      BY DEF Bad
    <2> QED
      BY <1>1, <2>1, LeastNatural
  <1>3. n \in Nat /\ n # 0 /\ n \notin S
    OBVIOUS
  <1>4. n - 1 \in Nat /\ n - 1 \notin Bad
    BY <1>2, <1>3
  <1>5. n - 1 \in S /\ (n - 1) + 1 = n
    BY <1>3, <1>4
  <1> QED
    BY <1>3, <1>4, <1>5

\* Primitive recursion.
LEMMA PrimitiveRecursion ==
    ASSUME NEW b \in Int, NEW F \in [Nat \X Int -> Int]
    PROVE  \E f \in [Nat -> Int] : f[0] = b /\ \A n \in Nat : f[n + 1] = F[<<n + 1, f[n]>>]
  <1> DEFINE m == [n \in Nat |-> n]
             base == [n \in Nat |-> b]
             next == [n \in Nat |-> IF n = 0 THEN 0 ELSE n - 1]
  <1>1. /\ m \in [Nat -> Nat] /\ base \in [Nat -> Int] /\ next \in [Nat -> Nat]
        /\ \A n \in Nat : m[n] # 0 => m[next[n]] < m[n]
    OBVIOUS
  <1>2. PICK f \in [Nat -> Int] : IsRecursive(f, Nat, m, base, next, F)
    <2> HIDE DEF m, base, next
    <2> QED
      BY <1>1, RecursionExists
  <1>3. ASSUME NEW n \in Nat PROVE f[n] = IF m[n] = 0 THEN base[n] ELSE F[<<n, f[next[n]]>>]
    BY <1>2 DEF IsRecursive
  <1>4. ASSUME NEW n \in Nat
        PROVE  m[0] = 0 /\ base[0] = b /\ n + 1 \in Nat /\ m[n + 1] # 0 /\ next[n + 1] = n
    OBVIOUS
  <1> HIDE DEF m, base, next
  <1>5. f[0] = b
    BY <1>3, <1>4
  <1>6. ASSUME NEW n \in Nat PROVE f[n + 1] = F[<<n + 1, f[n]>>]
    BY <1>3, <1>4
  <1> QED
    BY <1>5, <1>6

Numbers == [Nat -> Int]

IsSums(s, v) == s \in Numbers /\ s[0] = 0 /\ \A n \in Nat : s[n + 1] = s[n] + v[n + 1]

\* v[1] + ... + v[n]
Total(v, n) == (CHOOSE s : IsSums(s, v))[n]

IsProducts(s, v) == s \in Numbers /\ s[0] = 1 /\ \A n \in Nat : s[n + 1] = s[n] * v[n + 1]

\* v[1] * ... * v[n]
Product(v, n) == (CHOOSE s : IsProducts(s, v))[n]

\* One summand more.
LEMMA TotalStep ==
    ASSUME NEW v \in Numbers
    PROVE  /\ Total(v, 0) = 0
           /\ \A n \in Nat : Total(v, n) \in Int /\ Total(v, n + 1) = Total(v, n) + v[n + 1]
  <1> DEFINE F == [p \in Nat \X Int |-> p[2] + v[p[1]]]
  <1>1. F \in [Nat \X Int -> Int] /\ \A n \in Nat, i \in Int : F[<<n, i>>] = i + v[n]
    BY DEF Numbers
  <1> HIDE DEF F
  <1>2. PICK f \in [Nat -> Int] : f[0] = 0 /\ \A n \in Nat : f[n + 1] = F[<<n + 1, f[n]>>]
    <2> DEFINE b == 0
    <2>1. b \in Int
      OBVIOUS
    <2> HIDE DEF b
    <2>2. \E f \in [Nat -> Int] : f[0] = b /\ \A n \in Nat : f[n + 1] = F[<<n + 1, f[n]>>]
      BY <1>1, <2>1, PrimitiveRecursion
    <2> QED
      BY <2>2 DEF b
  <1>3. ASSUME NEW n \in Nat PROVE f[n + 1] = f[n] + v[n + 1]
    <2>1. n + 1 \in Nat /\ f[n] \in Int /\ f[n + 1] = F[<<n + 1, f[n]>>]
      BY <1>2
    <2> QED
      BY <1>1, <2>1
  <1>4. IsSums(f, v)
    BY <1>2, <1>3 DEF IsSums, Numbers
  <1> DEFINE s == CHOOSE s : IsSums(s, v)
  <1>5. IsSums(s, v)
    BY <1>4, Zenon
  <1>6. \A n \in Nat : Total(v, n) = s[n]
    BY DEF Total
  <1> HIDE DEF s
  <1> QED
    BY <1>5, <1>6 DEF IsSums, Numbers

\* One factor more.
LEMMA ProductStep ==
    ASSUME NEW v \in Numbers
    PROVE  /\ Product(v, 0) = 1
           /\ \A n \in Nat : Product(v, n) \in Int /\ Product(v, n + 1) = Product(v, n) * v[n + 1]
  <1> DEFINE F == [p \in Nat \X Int |-> p[2] * v[p[1]]]
  <1>1. F \in [Nat \X Int -> Int] /\ \A n \in Nat, i \in Int : F[<<n, i>>] = i * v[n]
    <2>1. \A p \in Nat \X Int : p[2] * v[p[1]] \in Int
      BY DEF Numbers
    <2> QED
      BY <2>1
  <1> HIDE DEF F
  <1>2. PICK f \in [Nat -> Int] : f[0] = 1 /\ \A n \in Nat : f[n + 1] = F[<<n + 1, f[n]>>]
    <2> DEFINE b == 1
    <2>1. b \in Int
      OBVIOUS
    <2> HIDE DEF b
    <2>2. \E f \in [Nat -> Int] : f[0] = b /\ \A n \in Nat : f[n + 1] = F[<<n + 1, f[n]>>]
      BY <1>1, <2>1, PrimitiveRecursion
    <2> QED
      BY <2>2 DEF b
  <1>3. ASSUME NEW n \in Nat PROVE f[n + 1] = f[n] * v[n + 1]
    <2>1. n + 1 \in Nat /\ f[n] \in Int /\ f[n + 1] = F[<<n + 1, f[n]>>]
      BY <1>2
    <2> QED
      BY <1>1, <2>1
  <1>4. IsProducts(f, v)
    BY <1>2, <1>3 DEF IsProducts, Numbers
  <1> DEFINE s == CHOOSE s : IsProducts(s, v)
  <1>5. IsProducts(s, v)
    BY <1>4, Zenon
  <1>6. \A n \in Nat : Product(v, n) = s[n]
    BY DEF Product
  <1> HIDE DEF s
  <1> QED
    BY <1>5, <1>6 DEF IsProducts, Numbers

\* u is c times v plus d times w on 1..n.
Combines(u, c, v, d, w, n) == \A i \in 1..n : Cong(u[i], c * v[i] + d * w[i])

\* Sums are linear.
LEMMA TotalLinear ==
    ASSUME NEW u \in Numbers, NEW v \in Numbers, NEW w \in Numbers, NEW c \in Int, NEW d \in Int,
           NEW n \in Nat, Combines(u, c, v, d, w, n)
    PROVE  Cong(Total(u, n), c * Total(v, n) + d * Total(w, n))
  <1> DEFINE S == {i \in Nat : i <= n => Cong(Total(u, i), c * Total(v, i) + d * Total(w, i))}
  <1>1. 0 \in S
    <2>1. Total(u, 0) = 0 /\ c * Total(v, 0) + d * Total(w, 0) = 0
      <3>1. Total(u, 0) = 0 /\ Total(v, 0) = 0 /\ Total(w, 0) = 0
        BY TotalStep
      <3> QED
        BY <3>1
    <2> QED
      BY <2>1, CongEquivalence
  <1>2. ASSUME NEW i \in Nat, i \in S, i + 1 <= n
        PROVE  Cong(Total(u, i + 1), c * Total(v, i + 1) + d * Total(w, i + 1))
    <2> DEFINE a == Total(u, i)
               b == Total(v, i)
               e == Total(w, i)
               x == u[i + 1]
               y == v[i + 1]
               z == w[i + 1]
    <2>1. a \in Int /\ b \in Int /\ e \in Int /\ x \in Int /\ y \in Int /\ z \in Int
      BY TotalStep DEF Numbers
    <2>2. Total(u, i + 1) = a + x /\ Total(v, i + 1) = b + y /\ Total(w, i + 1) = e + z
      BY TotalStep
    <2>3. Cong(a, c * b + d * e) /\ Cong(x, c * y + d * z)
      <3>1. i <= n /\ i + 1 \in 1..n
        BY <1>2
      <3> QED
        BY <1>2, <3>1 DEF Combines
    <2> HIDE DEF a, b, e, x, y, z
    <2>4. /\ c * b + d * e \in Int /\ c * y + d * z \in Int
          /\ c * (b + y) + d * (e + z) = (c * b + d * e) + (c * y + d * z)
      BY <2>1
    <2>5. Cong(a + x, (c * b + d * e) + (c * y + d * z))
      BY <2>1, <2>3, <2>4, CongArithmetic
    <2> QED
      BY <2>2, <2>4, <2>5
  <1>3. \A i \in Nat : i \in S => i + 1 \in S
    <2>1. ASSUME NEW i \in Nat, i \in S PROVE i + 1 \in S
      BY <1>2, <2>1
    <2> QED
      BY <2>1
  <1> HIDE DEF S
  <1>4. n \in S
    BY <1>1, <1>3, NaturalsByInduction
  <1> QED
    BY <1>4 DEF S

\* A sum with one summand that is not zero.
LEMMA TotalOfOne ==
    ASSUME NEW v \in Numbers, NEW n \in Nat, NEW a \in 1..n, \A i \in 1..n : i # a => v[i] = 0
    PROVE  Total(v, n) = v[a]
  <1> DEFINE S == {i \in Nat : i <= n => Total(v, i) = IF i < a THEN 0 ELSE v[a]}
  <1>1. 0 \in S
    BY TotalStep
  <1>2. ASSUME NEW i \in Nat, i \in S, i + 1 <= n
        PROVE  Total(v, i + 1) = IF i + 1 < a THEN 0 ELSE v[a]
    <2>1. Total(v, i) = (IF i < a THEN 0 ELSE v[a]) /\ i + 1 \in 1..n
      BY <1>2
    <2>2. Total(v, i + 1) = Total(v, i) + v[i + 1] /\ v[a] \in Int
      BY TotalStep DEF Numbers
    <2>3. i + 1 # a => v[i + 1] = 0
      BY <2>1
    <2> QED
      BY <2>1, <2>2, <2>3
  <1>3. \A i \in Nat : i \in S => i + 1 \in S
    <2>1. ASSUME NEW i \in Nat, i \in S PROVE i + 1 \in S
      BY <1>2, <2>1
    <2> QED
      BY <2>1
  <1> HIDE DEF S
  <1>4. n \in S
    BY <1>1, <1>3, NaturalsByInduction
  <1> QED
    BY <1>4 DEF S

\* One factor can be taken out of a product.
LEMMA ProductTakesOne ==
    ASSUME NEW v \in Numbers, NEW w \in Numbers, NEW n \in Nat, NEW a \in 1..n, w[a] = 1,
           \A i \in 1..n : i # a => w[i] = v[i]
    PROVE  Product(v, n) = v[a] * Product(w, n)
  <1> DEFINE S == {i \in Nat : i <= n => Product(v, i) = IF i < a THEN Product(w, i)
                                                       ELSE v[a] * Product(w, i)}
  <1>1. 0 \in S
    BY ProductStep
  <1>2. ASSUME NEW i \in Nat, i \in S, i + 1 <= n
        PROVE  Product(v, i + 1) = IF i + 1 < a THEN Product(w, i + 1) ELSE v[a] * Product(w, i + 1)
    <2> DEFINE b == Product(v, i)
               c == Product(w, i)
               x == v[i + 1]
               y == w[i + 1]
               z == v[a]
    <2>1. b = (IF i < a THEN c ELSE z * c) /\ i + 1 \in 1..n
      BY <1>2
    <2>2. Product(v, i + 1) = b * x /\ Product(w, i + 1) = c * y
      BY ProductStep
    <2>3. b \in Int /\ c \in Int /\ x \in Int /\ y \in Int /\ z \in Int
      BY ProductStep DEF Numbers
    <2>4. (i + 1 # a => y = x) /\ (i + 1 = a => y = 1 /\ x = z)
      BY <2>1
    <2> HIDE DEF b, c, x, y, z
    <2>5. CASE i + 1 < a
      <3>1. b = c /\ y = x /\ i < a
        BY <2>1, <2>4, <2>5
      <3> QED
        BY <2>2, <2>5, <3>1 DEF z
    <2>6. CASE i + 1 = a
      <3>1. b = c /\ y = 1 /\ x = z /\ ~(i + 1 < a)
        BY <2>1, <2>4, <2>6
      <3>2. b * x = z * (c * y)
        BY <2>3, <3>1
      <3> QED
        BY <2>2, <3>1, <3>2 DEF z
    <2>7. CASE i + 1 > a
      <3>1. b = z * c /\ y = x /\ ~(i + 1 < a)
        BY <2>1, <2>4, <2>7
      <3>2. b * x = z * (c * y)
        BY <2>3, <3>1
      <3> QED
        BY <2>2, <3>1, <3>2 DEF z
    <2> QED
      BY <2>5, <2>6, <2>7
  <1>3. \A i \in Nat : i \in S => i + 1 \in S
    <2>1. ASSUME NEW i \in Nat, i \in S PROVE i + 1 \in S
      BY <1>2, <2>1
    <2> QED
      BY <2>1
  <1> HIDE DEF S
  <1>4. n \in S
    BY <1>1, <1>3, NaturalsByInduction
  <1> QED
    BY <1>4 DEF S

\* A product of scalars that are not zero is not zero.
LEMMA ProductNonzero ==
    ASSUME NEW v \in Numbers, NEW n \in Nat, \A i \in 1..n : ~Cong(v[i], 0)
    PROVE  ~Cong(Product(v, n), 0)
  <1> DEFINE S == {i \in Nat : i <= n => ~Cong(Product(v, i), 0)}
  <1>1. 0 \in S
    <2>1. 1 \in Scalar /\ 0 \in Scalar
      BY CurveOrderAssumption DEF Scalar
    <2> QED
      BY <2>1, ProductStep, ScalarsDiffer
  <1>2. ASSUME NEW i \in Nat, i \in S, i + 1 <= n PROVE ~Cong(Product(v, i + 1), 0)
    <2>1. i <= n /\ i + 1 \in 1..n
      BY <1>2
    <2>2. ~Cong(Product(v, i), 0) /\ ~Cong(v[i + 1], 0)
      BY <1>2, <2>1
    <2>3. Product(v, i) \in Int /\ v[i + 1] \in Int
      BY ProductStep DEF Numbers
    <2>4. Product(v, i + 1) = Product(v, i) * v[i + 1]
      BY ProductStep
    <2> QED
      BY <2>2, <2>3, <2>4, NonzeroProduct
  <1>3. \A i \in Nat : i \in S => i + 1 \in S
    <2>1. ASSUME NEW i \in Nat, i \in S PROVE i + 1 \in S
      BY <1>2, <2>1
    <2> QED
      BY <2>1
  <1> HIDE DEF S
  <1>4. n \in S
    BY <1>1, <1>3, NaturalsByInduction
  <1> QED
    BY <1>4 DEF S

-----------------------------------------------------------------------------
(* Interpolation at zero, over any nonempty set I of the nodes x[1], ..., x[n] *)

\* The nodes are different scalars, and none is zero.
Nodes(x, n) ==
    /\ x \in Numbers
    /\ \A i \in 1..n : ~Cong(x[i], 0)
    /\ \A i, j \in 1..n : i # j => ~Cong(x[j] - x[i], 0)

Numerators(x, I, i) == [j \in Nat |-> IF j \in I /\ j # i THEN x[j] ELSE 1]
Denominators(x, I, i) == [j \in Nat |-> IF j \in I /\ j # i THEN x[j] - x[i] ELSE 1]

\* The Lagrange coefficient of node i.
Weight(x, I, n, i) ==
    Product(Numerators(x, I, i), n) * ModInverseOrder(Product(Denominators(x, I, i), n))

Weighted(x, I, n, h) == [i \in Nat |-> IF i \in I THEN h[i] * Weight(x, I, n, i) ELSE 0]

\* The value at zero of the polynomial through the points x[i], h[i] for i in I.
Interpolate(x, I, n, h) == Total(Weighted(x, I, n, h), n)

\* Both are numbers.
LEMMA FactorsAreNumbers ==
    ASSUME NEW x \in Numbers, NEW I, NEW i \in Nat
    PROVE  Numerators(x, I, i) \in Numbers /\ Denominators(x, I, i) \in Numbers
  BY DEF Numbers, Numerators, Denominators

\* The weight of a node is the quotient of its numerator and its denominator.
LEMMA WeightIsQuotient ==
    ASSUME NEW n \in Nat, NEW x, Nodes(x, n), NEW I \in SUBSET (1..n), NEW i \in I
    PROVE  /\ Weight(x, I, n, i) \in Int
           /\ Product(Denominators(x, I, i), n) \in Int
           /\ ~Cong(Product(Denominators(x, I, i), n), 0)
           /\ Product(Numerators(x, I, i), n) \in Int
           /\ Cong(Product(Denominators(x, I, i), n) * Weight(x, I, n, i),
                   Product(Numerators(x, I, i), n))
  <1> DEFINE N == Product(Numerators(x, I, i), n)
             D == Product(Denominators(x, I, i), n)
             v == ModInverseOrder(D)
  <1>1. x \in Numbers /\ i \in 1..n /\ i \in Nat
    BY DEF Nodes
  <1>2. Numerators(x, I, i) \in Numbers /\ Denominators(x, I, i) \in Numbers
    BY <1>1, FactorsAreNumbers
  <1>3. N \in Int /\ D \in Int
    BY <1>2, ProductStep
  <1>4. ~Cong(D, 0)
    <2>1. ~Cong(1, 0)
      <3>1. 1 \in Scalar /\ 0 \in Scalar
        BY CurveOrderAssumption DEF Scalar
      <3> QED
        BY <3>1, ScalarsDiffer
    <2>2. \A j \in 1..n : ~Cong(Denominators(x, I, i)[j], 0)
      BY <1>1, <2>1 DEF Denominators, Nodes
    <2> QED
      BY <1>2, <2>2, ProductNonzero
  <1> HIDE DEF D, N
  <1>5. v \in Int /\ Cong(v * D, 1)
    BY <1>3, <1>4, InverseWorks
  <1>6. Weight(x, I, n, i) = N * v
    BY DEF Weight, N, D
  <1> HIDE DEF v
  <1>7. D * (N * v) = (v * D) * N /\ v * D \in Int /\ N * v \in Int /\ 1 * N = N
    BY <1>3, <1>5
  <1>8. Cong((v * D) * N, 1 * N)
    BY <1>3, <1>5, <1>7, CongEquivalence, CongArithmetic
  <1>9. Cong(D * (N * v), N)
    BY <1>7, <1>8
  <1> QED
    BY <1>3, <1>4, <1>6, <1>7, <1>9 DEF N, D

\* What a weight becomes when another node a is left out.
LEMMA WeightWithout ==
    ASSUME NEW n \in Nat, NEW x, Nodes(x, n), NEW I \in SUBSET (1..n), NEW a \in I, NEW i \in I,
           i # a
    PROVE  Cong((x[a] - x[i]) * Weight(x, I, n, i), x[a] * Weight(x, I \ {a}, n, i))
  <1> DEFINE J == I \ {a}
             N == Product(Numerators(x, I, i), n)
             D == Product(Denominators(x, I, i), n)
             M == Product(Numerators(x, J, i), n)
             E == Product(Denominators(x, J, i), n)
             w == Weight(x, I, n, i)
             u == Weight(x, J, n, i)
             b == x[a]
             d == x[a] - x[i]
  <1>1. x \in Numbers /\ i \in Nat /\ a \in 1..n /\ J \in SUBSET (1..n) /\ i \in J
    BY DEF Nodes
  <1>2. N = b * M
    <2>1. Numerators(x, I, i) \in Numbers /\ Numerators(x, J, i) \in Numbers
      BY <1>1, FactorsAreNumbers
    <2>2. /\ Numerators(x, I, i)[a] = b /\ Numerators(x, J, i)[a] = 1
          /\ \A j \in 1..n : j # a => Numerators(x, J, i)[j] = Numerators(x, I, i)[j]
      BY <1>1 DEF Numerators
    <2> HIDE DEF J
    <2> QED
      BY <1>1, <2>1, <2>2, ProductTakesOne
  <1>3. D = d * E
    <2>1. Denominators(x, I, i) \in Numbers /\ Denominators(x, J, i) \in Numbers
      BY <1>1, FactorsAreNumbers
    <2>2. /\ Denominators(x, I, i)[a] = d /\ Denominators(x, J, i)[a] = 1
          /\ \A j \in 1..n : j # a => Denominators(x, J, i)[j] = Denominators(x, I, i)[j]
      BY <1>1 DEF Denominators
    <2> HIDE DEF J
    <2> QED
      BY <1>1, <2>1, <2>2, ProductTakesOne
  <1>4. w \in Int /\ D \in Int /\ N \in Int /\ Cong(D * w, N)
    BY WeightIsQuotient
  <1>5. u \in Int /\ E \in Int /\ ~Cong(E, 0) /\ M \in Int /\ Cong(E * u, M)
    <2> HIDE DEF J
    <2> QED
      BY <1>1, WeightIsQuotient
  <1>6. b \in Int /\ d \in Int
    BY <1>1 DEF Numbers
  <1> HIDE DEF N, D, M, E, w, u, b, d
  <1>7. E * (d * w) = D * w /\ E * (b * u) = b * (E * u) /\ d * w \in Int /\ b * u \in Int
        /\ D * w \in Int /\ E * u \in Int /\ b * (E * u) \in Int /\ b * M \in Int
    BY <1>3, <1>4, <1>5, <1>6
  <1>8. Cong(b * (E * u), b * M)
    BY <1>5, <1>6, <1>7, CongEquivalence, CongArithmetic
  <1>9. Cong(b * M, b * (E * u))
    BY <1>7, <1>8, CongEquivalence
  <1>10. Cong(E * (d * w), E * (b * u))
    BY <1>2, <1>4, <1>7, <1>9, CongEquivalence
  <1>11. Cong(d * w, b * u)
    BY <1>5, <1>7, <1>10, Cancel
  <1> QED
    BY <1>11 DEF d, w, b, u

\* Weighted values are numbers.
LEMMA WeightedNumbers ==
    ASSUME NEW n \in Nat, NEW x, Nodes(x, n), NEW I \in SUBSET (1..n), NEW h \in Numbers
    PROVE  Weighted(x, I, n, h) \in Numbers /\ Interpolate(x, I, n, h) \in Int
  <1>1. \A i \in I : Weight(x, I, n, i) \in Int /\ h[i] \in Int
    BY WeightIsQuotient DEF Numbers
  <1>2. \A i \in Nat : Weighted(x, I, n, h)[i] \in Int
    BY <1>1 DEF Weighted
  <1>3. Weighted(x, I, n, h) \in Numbers
    BY <1>2 DEF Weighted, Numbers
  <1> QED
    BY <1>3, TotalStep DEF Interpolate

\* The values h times the node.
Shifted(x, h) == [i \in Nat |-> x[i] * h[i]]

\* Interpolating values times the node: any node a can be taken out.
LEMMA InterpolateShifted ==
    ASSUME NEW n \in Nat, NEW x, Nodes(x, n), NEW I \in SUBSET (1..n), NEW a \in I,
           NEW h \in Numbers
    PROVE  Cong(Interpolate(x, I, n, Shifted(x, h)),
                x[a] * Interpolate(x, I, n, h) + (-x[a]) * Interpolate(x, I \ {a}, n, h))
  <1> DEFINE J == I \ {a}
             u == Weighted(x, I, n, Shifted(x, h))
             v == Weighted(x, I, n, h)
             w == Weighted(x, J, n, h)
             c == x[a]
             e == -x[a]
  <1>1. x \in Numbers /\ J \in SUBSET (1..n) /\ a \in 1..n
    BY DEF Nodes
  <1>2. Shifted(x, h) \in Numbers /\ c \in Int /\ e \in Int
    <2>1. \A i \in Nat : x[i] * h[i] \in Int
      BY <1>1 DEF Numbers
    <2> QED
      BY <1>1, <2>1 DEF Shifted, Numbers
  <1>3. u \in Numbers /\ v \in Numbers /\ w \in Numbers
    <2> HIDE DEF J
    <2> QED
      BY <1>1, <1>2, WeightedNumbers
  <1>4. ASSUME NEW i \in 1..n PROVE Cong(u[i], c * v[i] + e * w[i])
    <2>1. CASE i \notin I
      <3>1. u[i] = 0 /\ v[i] = 0 /\ w[i] = 0
        BY <2>1 DEF Weighted
      <3>2. c * 0 + e * 0 = 0
        BY <1>2
      <3> QED
        BY <3>1, <3>2, CongEquivalence
    <2>2. CASE i = a
      <3> DEFINE y == h[a]
                 q == Weight(x, I, n, a)
      <3>1. y \in Int /\ q \in Int
        BY <1>1, WeightIsQuotient DEF Numbers
      <3>2. u[a] = (c * y) * q /\ v[a] = y * q /\ w[a] = 0
        BY <1>1 DEF Weighted, Shifted
      <3> HIDE DEF y, q, c, e, u, v, w
      <3>3. (c * y) * q = c * (y * q) + e * 0 /\ (c * y) * q \in Int
        BY <1>2, <3>1
      <3>4. u[a] = c * v[a] + e * w[a] /\ u[a] \in Int
        BY <3>2, <3>3
      <3>5. Cong(u[a], u[a])
        BY <3>4, CongEquivalence
      <3> QED
        BY <2>2, <3>4, <3>5
    <2>3. CASE i \in I /\ i # a
      <3> DEFINE y == h[i]
                 z == x[i]
                 q == Weight(x, I, n, i)
                 r == Weight(x, J, n, i)
      <3>0. i \in J
        BY <2>3
      <3>1. y \in Int /\ z \in Int /\ q \in Int
        BY <1>1, <2>3, WeightIsQuotient DEF Numbers
      <3>2. r \in Int
        <4> HIDE DEF J
        <4> QED
          BY <1>1, <3>0, WeightIsQuotient
      <3>3. u[i] = (z * y) * q /\ v[i] = y * q /\ w[i] = y * r
        BY <2>3 DEF Weighted, Shifted
      <3>4. Cong((c - z) * q, c * r)
        BY <2>3, WeightWithout
      <3>5. e = -c
        OBVIOUS
      <3> HIDE DEF y, q, z, r, c, e, u, v, w
      <3>6. /\ (c - z) * q \in Int /\ c * r \in Int /\ y * ((c - z) * q) \in Int
            /\ y * (c * r) \in Int /\ c * (y * q) \in Int
        BY <1>2, <3>1, <3>2
      <3>7. Cong(y * ((c - z) * q), y * (c * r))
        BY <3>1, <3>4, <3>6, CongEquivalence, CongArithmetic
      <3>8. Cong(c * (y * q) - y * ((c - z) * q), c * (y * q) - y * (c * r))
        BY <3>6, <3>7, CongEquivalence, CongArithmetic
      <3>9. c * (y * q) - y * ((c - z) * q) = (z * y) * q
        BY <1>2, <3>1
      <3>10. c * (y * q) - y * (c * r) = c * (y * q) + e * (y * r)
        BY <1>2, <3>1, <3>2, <3>5
      <3> QED
        BY <3>3, <3>8, <3>9, <3>10
    <2> QED
      BY <2>1, <2>2, <2>3
  <1> HIDE DEF u, v, w, c, e
  <1>5. Combines(u, c, v, e, w, n)
    BY <1>4 DEF Combines
  <1>6. Cong(Total(u, n), c * Total(v, n) + e * Total(w, n))
    BY <1>2, <1>3, <1>5, TotalLinear
  <1> QED
    BY <1>6 DEF u, v, w, c, e, Interpolate

Ones == [i \in Nat |-> 1]

\* A product of ones.
LEMMA ProductOfOnes ==
    ASSUME NEW v \in Numbers, NEW n \in Nat, \A i \in 1..n : v[i] = 1
    PROVE  Product(v, n) = 1
  <1> DEFINE S == {i \in Nat : i <= n => Product(v, i) = 1}
  <1>1. 0 \in S
    BY ProductStep
  <1>2. ASSUME NEW i \in Nat, i \in S, i + 1 <= n PROVE Product(v, i + 1) = 1
    <2>1. Product(v, i) = 1 /\ v[i + 1] = 1
      BY <1>2
    <2>2. Product(v, i + 1) = Product(v, i) * v[i + 1]
      BY ProductStep
    <2> QED
      BY <2>1, <2>2
  <1>3. \A i \in Nat : i \in S => i + 1 \in S
    <2>1. ASSUME NEW i \in Nat, i \in S PROVE i + 1 \in S
      BY <1>2, <2>1
    <2> QED
      BY <2>1
  <1> HIDE DEF S
  <1>4. n \in S
    BY <1>1, <1>3, NaturalsByInduction
  <1> QED
    BY <1>4 DEF S

\* The weight of a node alone.
LEMMA WeightAlone ==
    ASSUME NEW n \in Nat, NEW x, Nodes(x, n), NEW a \in 1..n
    PROVE  Cong(Interpolate(x, {a}, n, Ones), 1)
  <1> DEFINE I == {a}
             w == Weight(x, I, n, a)
  <1>1. x \in Numbers /\ a \in Nat /\ I \in SUBSET (1..n) /\ a \in I /\ Ones \in Numbers
    BY DEF Nodes, Ones, Numbers
  <1>2. Interpolate(x, I, n, Ones) = w
    <2>1. Weighted(x, I, n, Ones) \in Numbers
      <3> HIDE DEF I
      <3> QED
        BY <1>1, WeightedNumbers
    <2>2. \A i \in 1..n : i # a => Weighted(x, I, n, Ones)[i] = 0
      BY DEF Weighted
    <2>3. Weighted(x, I, n, Ones)[a] = 1 * w
      BY <1>1 DEF Weighted, Ones
    <2>4. w \in Int
      <3> HIDE DEF I
      <3> QED
        BY <1>1, WeightIsQuotient
    <2> HIDE DEF I, w
    <2>5. 1 * w = w
      BY <2>4
    <2> QED
      BY <2>1, <2>2, <2>3, <2>5, TotalOfOne DEF Interpolate
  <1>3. Product(Numerators(x, I, a), n) = 1 /\ Product(Denominators(x, I, a), n) = 1
    <2>1. Numerators(x, I, a) \in Numbers /\ Denominators(x, I, a) \in Numbers
      BY <1>1, FactorsAreNumbers
    <2>2. \A i \in 1..n : Numerators(x, I, a)[i] = 1 /\ Denominators(x, I, a)[i] = 1
      BY DEF Numerators, Denominators
    <2> HIDE DEF I
    <2> QED
      BY <2>1, <2>2, ProductOfOnes
  <1>4. w \in Int /\ Cong(1 * w, 1)
    <2> HIDE DEF I
    <2>1. w \in Int /\ Cong(Product(Denominators(x, I, a), n) * w, Product(Numerators(x, I, a), n))
      BY <1>1, WeightIsQuotient
    <2> QED
      BY <1>3, <2>1
  <1> HIDE DEF w
  <1> QED
    BY <1>2, <1>4

\* The sets of nodes are finite.
LEMMA NodeSetsFinite ==
    ASSUME NEW n \in Nat
    PROVE  \A I \in SUBSET (1..n) : IsFiniteSet(I) /\ Cardinality(I) \in Nat
  <1>1. IsFiniteSet(1..n)
    <2> DEFINE o == 1
    <2>1. o \in Int
      OBVIOUS
    <2> HIDE DEF o
    <2>2. IsFiniteSet(o..n)
      BY <2>1, FS_Interval
    <2> QED
      BY <2>2 DEF o
  <1> QED
    BY <1>1, FS_Subset, FS_CardinalityType

\* The weights add up to one: interpolation is right for constants.
LEMMA WeightsAddUp ==
    ASSUME NEW n \in Nat, NEW x, Nodes(x, n)
    PROVE  \A I \in SUBSET (1..n) : I # {} => Cong(Interpolate(x, I, n, Ones), 1)
  <1> DEFINE S == {k \in Nat : \A I \in SUBSET (1..n) :
                                  Cardinality(I) = k + 1 => Cong(Interpolate(x, I, n, Ones), 1)}
  <1>0. x \in Numbers /\ Ones \in Numbers
    BY DEF Nodes, Ones, Numbers
  <1>1. \A I \in SUBSET (1..n) : IsFiniteSet(I) /\ Cardinality(I) \in Nat
    BY NodeSetsFinite
  <1>2. 0 \in S
    <2>1. ASSUME NEW I \in SUBSET (1..n), Cardinality(I) = 1
          PROVE  Cong(Interpolate(x, I, n, Ones), 1)
      <3>1. \E a : I = {a}
        BY <1>1, <2>1, FS_Singleton
      <3>2. PICK a \in 1..n : I = {a}
        BY <3>1
      <3> QED
        BY <3>2, WeightAlone
    <2> QED
      BY <2>1
  <1>3. ASSUME NEW k \in Nat, k \in S, NEW I \in SUBSET (1..n), Cardinality(I) = k + 2
        PROVE  Cong(Interpolate(x, I, n, Ones), 1)
    <2>1. PICK a \in I : TRUE
      <3>1. I # {}
        BY <1>3, FS_EmptySet
      <3> QED
        BY <3>1
    <2>2. PICK b \in I : b # a
      <3>1. Cardinality(I \ {a}) = k + 1
        <4>1. Cardinality(I \ {a}) = Cardinality(I) - 1
          BY <1>1, <2>1, FS_RemoveElement
        <4> QED
          BY <1>3, <4>1
      <3>2. I \ {a} # {}
        BY <3>1, FS_EmptySet
      <3> QED
        BY <3>2
    <2> DEFINE A == Interpolate(x, I, n, Ones)
               B == Interpolate(x, I, n, Shifted(x, Ones))
    <2>3. A \in Int /\ B \in Int
      <3>1. Shifted(x, Ones) \in Numbers
        BY <1>0 DEF Shifted, Ones, Numbers
      <3> QED
        BY <1>0, <3>1, WeightedNumbers
    <2>4. ASSUME NEW e \in I PROVE Cong(B, x[e] * A + (-x[e]) * 1) /\ x[e] \in Int
      <3> DEFINE J == I \ {e}
                 C == Interpolate(x, J, n, Ones)
                 y == x[e]
                 z == -x[e]
      <3>1. J \in SUBSET (1..n) /\ Cardinality(J) = k + 1
        BY <1>1, <1>3, FS_RemoveElement
      <3> HIDE DEF J
      <3>2. C \in Int /\ Cong(C, 1)
        BY <1>0, <1>3, <3>1, WeightedNumbers
      <3>3. Cong(B, y * A + z * C)
        BY <1>0, InterpolateShifted DEF J
      <3>4. y \in Int /\ z \in Int
        BY <1>0 DEF Numbers
      <3> HIDE DEF A, B, C, y, z
      <3>5. Cong(z * C, z * 1) /\ Cong(y * A, y * A)
            /\ z * C \in Int /\ z * 1 \in Int /\ y * A \in Int
        <4> DEFINE o == 1
        <4>1. o \in Int /\ Cong(C, o) /\ Cong(z, z)
          BY <3>2, <3>4, CongEquivalence
        <4> HIDE DEF o
        <4>2. Cong(z * C, z * o)
          BY <3>2, <3>4, <4>1, CongArithmetic
        <4>3. z * C \in Int /\ z * 1 \in Int /\ y * A \in Int
          BY <2>3, <3>2, <3>4
        <4> QED
          BY <4>2, <4>3, CongEquivalence DEF o
      <3>6. Cong(y * A + z * C, y * A + z * 1)
        BY <3>5, CongArithmetic
      <3>7. Cong(B, y * A + z * 1)
        BY <2>3, <3>3, <3>5, <3>6, CongEquivalence
      <3> QED
        BY <3>4, <3>7 DEF y, z
    <2> DEFINE y == x[a]
               z == x[b]
               d == x[b] - x[a]
    <2>5. y \in Int /\ z \in Int /\ Cong(B, y * A + (-y) * 1) /\ Cong(B, z * A + (-z) * 1)
      BY <2>4
    <2>6. d = z - y /\ d \in Int /\ ~Cong(d, 0)
      <3>1. a \in 1..n /\ b \in 1..n
        OBVIOUS
      <3> QED
        BY <2>2, <2>5, <3>1 DEF Nodes
    <2> HIDE DEF A, B, y, z, d
    <2>7. /\ y * A + (-y) * 1 \in Int /\ z * A + (-z) * 1 \in Int /\ d * A \in Int /\ d * 1 \in Int
          /\ (z * A + (-z) * 1) - (y * A + (-y) * 1) = d * A - d * 1
      BY <2>3, <2>5, <2>6
    <2>8. Cong(B - B, (z * A + (-z) * 1) - (y * A + (-y) * 1))
      BY <2>3, <2>5, <2>7, CongArithmetic
    <2>9. Cong(0, d * A - d * 1)
      BY <2>3, <2>7, <2>8
    <2>12. Cong(d * A, d * 1)
      <3> DEFINE u == d * A
                 v == d * 1
                 o == 0
      <3>1. u \in Int /\ v \in Int /\ o \in Int /\ u - v \in Int /\ Cong(o, u - v)
        BY <2>7, <2>9
      <3>2. o + v = v /\ (u - v) + v = u
        BY <3>1
      <3> HIDE DEF u, v, o
      <3>3. Cong(o + v, (u - v) + v)
        BY <3>1, CongEquivalence, CongArithmetic
      <3>4. Cong(u, v)
        BY <3>1, <3>2, <3>3, CongEquivalence
      <3> QED
        BY <3>4 DEF u, v
    <2>13. Cong(A, 1)
      <3> DEFINE o == 1
      <3>1. o \in Int /\ Cong(d * A, d * o)
        BY <2>12
      <3> HIDE DEF o
      <3>2. Cong(A, o)
        BY <2>3, <2>6, <3>1, Cancel
      <3> QED
        BY <3>2 DEF o
    <2> QED
      BY <2>13 DEF A
  <1>4. \A k \in Nat : k \in S => k + 1 \in S
    <2>1. ASSUME NEW k \in Nat, k \in S PROVE k + 1 \in S
      <3>1. (k + 1) + 1 = k + 2
        OBVIOUS
      <3> QED
        BY <1>3, <2>1, <3>1
    <2> QED
      BY <2>1
  <1> HIDE DEF S
  <1>5. \A k \in Nat : k \in S
    BY <1>2, <1>4, NaturalsByInduction
  <1>6. ASSUME NEW I \in SUBSET (1..n), I # {} PROVE Cong(Interpolate(x, I, n, Ones), 1)
    <2>1. Cardinality(I) \in Nat /\ Cardinality(I) # 0
      BY <1>1, <1>6, FS_EmptySet
    <2>2. Cardinality(I) - 1 \in S
      BY <1>5, <2>1
    <2>3. (Cardinality(I) - 1) + 1 = Cardinality(I)
      BY <2>1
    <2> QED
      BY <2>2, <2>3 DEF S
  <1> QED
    BY <1>6

\* y to the k.
Pow(y, k) == Product([j \in Nat |-> y], k)

\* One power more.
LEMMA PowStep ==
    ASSUME NEW y \in Int
    PROVE  /\ Pow(y, 0) = 1
           /\ \A k \in Nat : Pow(y, k) \in Int /\ Pow(y, k + 1) = y * Pow(y, k)
  <1> DEFINE v == [j \in Nat |-> y]
  <1>1. v \in Numbers /\ \A k \in Nat : v[k] = y
    BY DEF Numbers
  <1>2. \A k : Pow(y, k) = Product(v, k)
    BY DEF Pow
  <1> HIDE DEF v
  <1>3. Product(v, 0) = 1
    BY <1>1, ProductStep
  <1>4. ASSUME NEW k \in Nat
        PROVE  Product(v, k) \in Int /\ Product(v, k + 1) = y * Product(v, k)
    <2>1. Product(v, k) \in Int /\ Product(v, k + 1) = Product(v, k) * v[k + 1]
      BY <1>1, ProductStep
    <2>2. v[k + 1] = y
      BY <1>1
    <2> QED
      BY <2>1, <2>2
  <1> QED
    BY <1>2, <1>3, <1>4

\* The k-th powers of the nodes.
PowersOf(x, k) == [i \in Nat |-> Pow(x[i], k)]

\* One power more is the power before times the node.
LEMMA PowersStep ==
    ASSUME NEW x \in Numbers
    PROVE  /\ PowersOf(x, 0) = Ones
           /\ \A k \in Nat : /\ PowersOf(x, k) \in Numbers
                             /\ PowersOf(x, k + 1) = Shifted(x, PowersOf(x, k))
  <1>1. ASSUME NEW i \in Nat, NEW k \in Nat
        PROVE  Pow(x[i], 0) = 1 /\ Pow(x[i], k) \in Int /\ Pow(x[i], k + 1) = x[i] * Pow(x[i], k)
    <2>1. x[i] \in Int
      BY DEF Numbers
    <2> QED
      BY <2>1, PowStep
  <1>2. PowersOf(x, 0) = Ones
    BY <1>1 DEF Ones, PowersOf
  <1>3. ASSUME NEW k \in Nat
        PROVE  PowersOf(x, k) \in Numbers /\ PowersOf(x, k + 1) = Shifted(x, PowersOf(x, k))
    <2>1. PowersOf(x, k) \in Numbers /\ \A i \in Nat : PowersOf(x, k)[i] = Pow(x[i], k)
      BY <1>1 DEF Numbers, PowersOf
    <2>2. \A i \in Nat : Pow(x[i], k + 1) = x[i] * PowersOf(x, k)[i]
      BY <1>1, <2>1
    <2>3. PowersOf(x, k + 1) = [i \in Nat |-> x[i] * PowersOf(x, k)[i]]
      BY <2>2 DEF PowersOf
    <2> QED
      BY <2>1, <2>3 DEF Shifted
  <1> QED
    BY <1>2, <1>3

\* Interpolation of powers gives zero, as long as there are more nodes.
LEMMA PowersVanish ==
    ASSUME NEW n \in Nat, NEW x, Nodes(x, n)
    PROVE  \A k \in Nat : \A I \in SUBSET (1..n) :
              k + 1 < Cardinality(I) => Cong(Interpolate(x, I, n, PowersOf(x, k + 1)), 0)
  <1> DEFINE S == {k \in Nat : \A I \in SUBSET (1..n) :
                k + 1 < Cardinality(I) => Cong(Interpolate(x, I, n, PowersOf(x, k + 1)), 0)}
  <1>0. x \in Numbers
    BY DEF Nodes
  <1>1. \A I \in SUBSET (1..n) : IsFiniteSet(I) /\ Cardinality(I) \in Nat
    BY NodeSetsFinite
  <1>2. ASSUME NEW k \in Nat, k = 0 \/ k - 1 \in S, NEW I \in SUBSET (1..n), k + 1 < Cardinality(I)
        PROVE  Cong(Interpolate(x, I, n, PowersOf(x, k + 1)), 0)
    <2>1. PICK a \in I : TRUE
      <3>1. I # {}
        BY <1>2, FS_EmptySet
      <3> QED
        BY <3>1
    <2> DEFINE J == I \ {a}
               h == PowersOf(x, k)
               A == Interpolate(x, I, n, h)
               C == Interpolate(x, J, n, h)
               B == Interpolate(x, I, n, PowersOf(x, k + 1))
               y == x[a]
               z == -x[a]
    <2>2. J \in SUBSET (1..n) /\ k < Cardinality(J)
      BY <1>1, <1>2, FS_RemoveElement
    <2>3. h \in Numbers /\ PowersOf(x, k + 1) = Shifted(x, h) /\ PowersOf(x, k + 1) \in Numbers
      <3>1. k + 1 \in Nat
        OBVIOUS
      <3> QED
        BY <1>0, <3>1, PowersStep
    <2>4. Cong(B, y * A + z * C)
      <3> HIDE DEF h
      <3> QED
        BY <2>3, InterpolateShifted
    <2> HIDE DEF J
    <2>5. A \in Int /\ B \in Int /\ C \in Int
      <3> HIDE DEF h
      <3> QED
        BY <2>2, <2>3, WeightedNumbers
    <2>6. y \in Int /\ z = -y
      BY <1>0 DEF Numbers
    <2>7. Cong(A, C)
      <3>1. CASE k = 0
        <4>1. h = Ones
          BY <1>0, <3>1, PowersStep
        <4>3. I # {} /\ J # {}
          BY <2>1, <2>2, FS_EmptySet
        <4>2. Cong(A, 1) /\ Cong(C, 1)
          BY <2>2, <4>1, <4>3, WeightsAddUp
        <4> HIDE DEF A, C
        <4> QED
          BY <2>5, <4>2, CongEquivalence
      <3>2. CASE k # 0
        <4>1. k - 1 \in S /\ (k - 1) + 1 = k
          BY <1>2, <3>2
        <4>2. k < Cardinality(I) /\ k < Cardinality(J)
          BY <1>1, <1>2, <2>2
        <4>3. Cong(A, 0) /\ Cong(C, 0)
          BY <2>2, <4>1, <4>2
        <4> HIDE DEF A, C
        <4> QED
          BY <2>5, <4>3, CongEquivalence
      <3> QED
        BY <3>1, <3>2
    <2> HIDE DEF A, B, C, y, z
    <2>8. /\ y * A \in Int /\ z * C \in Int /\ z * A \in Int /\ y * A + z * C \in Int
          /\ y * A + z * A = 0
      BY <2>5, <2>6
    <2>9. Cong(C, A)
      BY <2>5, <2>7, CongEquivalence
    <2>10. Cong(z * C, z * A)
      <3>1. z \in Int /\ Cong(z, z)
        BY <2>6, CongEquivalence
      <3> QED
        BY <2>5, <2>9, <3>1, CongArithmetic
    <2>11. Cong(y * A + z * C, y * A + z * A)
      BY <2>8, <2>10, CongEquivalence, CongArithmetic
    <2>12. Cong(B, 0)
      BY <2>4, <2>5, <2>8, <2>11, CongEquivalence
    <2> QED
      BY <2>12 DEF B
  <1>3. 0 \in S
    BY <1>2
  <1>4. \A k \in Nat : k \in S => k + 1 \in S
    <2>1. ASSUME NEW k \in Nat, k \in S PROVE k + 1 \in S
      <3>1. k + 1 \in Nat /\ (k + 1) - 1 = k
        OBVIOUS
      <3> QED
        BY <1>2, <2>1, <3>1
    <2> QED
      BY <2>1
  <1> HIDE DEF S
  <1>5. \A k \in Nat : k \in S
    BY <1>3, <1>4, NaturalsByInduction
  <1> QED
    BY <1>5 DEF S

Monomials(c, y) == [k \in Nat |-> IF k = 0 THEN 0 ELSE c[k] * Pow(y, k - 1)]

\* c[1] + c[2] * y + ... + c[m] * y^(m - 1)
Poly(c, y, m) == Total(Monomials(c, y), m)

\* One coefficient more.
LEMMA PolyStep ==
    ASSUME NEW c \in Numbers, NEW y \in Int
    PROVE  /\ Poly(c, y, 0) = 0
           /\ \A m \in Nat : Poly(c, y, m) \in Int
                             /\ Poly(c, y, m + 1) = Poly(c, y, m) + c[m + 1] * Pow(y, m)
  <1> DEFINE v == Monomials(c, y)
  <1>1. v \in Numbers
    <2>1. ASSUME NEW k \in Nat, k # 0 PROVE c[k] * Pow(y, k - 1) \in Int
      <3>1. k - 1 \in Nat /\ c[k] \in Int
        BY <2>1 DEF Numbers
      <3>2. Pow(y, k - 1) \in Int
        BY <3>1, PowStep
      <3> QED
        BY <3>1, <3>2
    <2> QED
      BY <2>1 DEF Monomials, Numbers
  <1>2. ASSUME NEW m \in Nat PROVE v[m + 1] = c[m + 1] * Pow(y, m)
    <2>1. m + 1 \in Nat /\ m + 1 # 0 /\ (m + 1) - 1 = m
      OBVIOUS
    <2> QED
      BY <2>1 DEF Monomials
  <1> HIDE DEF v
  <1> QED
    BY <1>1, <1>2, TotalStep DEF Poly, v

\* The values of the polynomial at the nodes.
PolyValues(c, x, m) == [i \in Nat |-> Poly(c, x[i], m)]

\* Interpolation is linear.
LEMMA InterpolateLinear ==
    ASSUME NEW n \in Nat, NEW x, Nodes(x, n), NEW I \in SUBSET (1..n),
           NEW f \in Numbers, NEW g \in Numbers, NEW h \in Numbers, NEW c \in Int, NEW d \in Int,
           Combines(f, c, g, d, h, n)
    PROVE  Cong(Interpolate(x, I, n, f), c * Interpolate(x, I, n, g) + d * Interpolate(x, I, n, h))
  <1> DEFINE u == Weighted(x, I, n, f)
             v == Weighted(x, I, n, g)
             w == Weighted(x, I, n, h)
  <1>1. u \in Numbers /\ v \in Numbers /\ w \in Numbers
    BY WeightedNumbers
  <1>2. ASSUME NEW i \in 1..n PROVE Cong(u[i], c * v[i] + d * w[i])
    <2>1. CASE i \notin I
      <3>1. u[i] = 0 /\ v[i] = 0 /\ w[i] = 0 /\ c * 0 + d * 0 = 0
        BY <2>1 DEF Weighted
      <3> QED
        BY <3>1, CongEquivalence
    <2>2. CASE i \in I
      <3> DEFINE q == Weight(x, I, n, i)
                 a == f[i]
                 b == g[i]
                 e == h[i]
      <3>1. q \in Int /\ a \in Int /\ b \in Int /\ e \in Int
        BY <2>2, WeightIsQuotient DEF Numbers
      <3>2. u[i] = a * q /\ v[i] = b * q /\ w[i] = e * q
        BY <2>2 DEF Weighted
      <3>3. Cong(a, c * b + d * e)
        BY DEF Combines
      <3> HIDE DEF u, v, w, q, a, b, e
      <3>4. (c * b + d * e) * q = c * (b * q) + d * (e * q) /\ c * b + d * e \in Int
        BY <3>1
      <3>5. Cong(a * q, (c * b + d * e) * q)
        BY <3>1, <3>3, <3>4, CongEquivalence, CongArithmetic
      <3> QED
        BY <3>2, <3>4, <3>5
    <2> QED
      BY <2>1, <2>2
  <1> HIDE DEF u, v, w
  <1>3. Combines(u, c, v, d, w, n)
    BY <1>2 DEF Combines
  <1>4. Cong(Total(u, n), c * Total(v, n) + d * Total(w, n))
    BY <1>1, <1>3, TotalLinear
  <1> QED
    BY <1>4 DEF u, v, w, Interpolate

\* At least as many nodes as coefficients interpolate a polynomial to its constant one.
LEMMA InterpolatePolynomial ==
    ASSUME NEW n \in Nat, NEW x, Nodes(x, n), NEW I \in SUBSET (1..n), NEW c \in Numbers,
           NEW m \in Nat, 0 < m, m <= Cardinality(I)
    PROVE  Cong(Interpolate(x, I, n, PolyValues(c, x, m)), c[1])
  <1> DEFINE Constant(k) == IF k = 0 THEN 0 ELSE c[1]
             V(k) == PolyValues(c, x, k)
             T(k) == Interpolate(x, I, n, V(k))
             S == {k \in Nat : k <= m => Cong(T(k), Constant(k))}
  <1>0. x \in Numbers /\ c[1] \in Int /\ Ones \in Numbers
    BY DEF Nodes, Numbers, Ones
  <1>1. ASSUME NEW k \in Nat
        PROVE  /\ V(k) \in Numbers /\ T(k) \in Int
               /\ \A i \in Nat : /\ V(k)[i] = Poly(c, x[i], k)
                                 /\ V(k + 1)[i] = V(k)[i] + c[k + 1] * Pow(x[i], k)
               /\ \A i \in Nat : V(0)[i] = 0
    <2>1. ASSUME NEW i \in Nat
          PROVE  /\ Poly(c, x[i], k) \in Int /\ Poly(c, x[i], 0) = 0
                 /\ Poly(c, x[i], k + 1) = Poly(c, x[i], k) + c[k + 1] * Pow(x[i], k)
      <3>1. x[i] \in Int
        BY <1>0 DEF Numbers
      <3> QED
        BY <3>1, PolyStep
    <2>2. V(k) \in Numbers
      BY <2>1 DEF PolyValues, Numbers
    <2>3. T(k) \in Int
      <3> DEFINE h == V(k)
      <3> HIDE DEF h
      <3>1. h \in Numbers
        BY <2>2 DEF h
      <3>2. Interpolate(x, I, n, h) \in Int
        BY <3>1, WeightedNumbers
      <3> QED
        BY <3>2 DEF h
    <2>4. \A i \in Nat : /\ V(k)[i] = Poly(c, x[i], k)
                         /\ V(k + 1)[i] = V(k)[i] + c[k + 1] * Pow(x[i], k)
                         /\ V(0)[i] = 0
      BY <2>1 DEF PolyValues
    <2> QED
      BY <2>2, <2>3, <2>4
  <1>2. 0 \in S
    <2> DEFINE h == V(0)
               z == 0
    <2>1. h \in Numbers /\ z \in Int /\ \A i \in 1..n : h[i] = z * Ones[i] + z * Ones[i]
      <3>1. h \in Numbers /\ \A i \in Nat : h[i] = 0
        BY <1>1
      <3>2. \A i \in 1..n : z * Ones[i] + z * Ones[i] = 0
        BY DEF Ones
      <3> HIDE DEF h
      <3> QED
        BY <3>1, <3>2
    <2>2. Combines(h, z, Ones, z, Ones, n)
      <3> HIDE DEF h, z
      <3>1. \A i \in 1..n : h[i] \in Int
        BY <2>1 DEF Numbers
      <3>2. \A i \in 1..n : Cong(h[i], h[i])
        BY <3>1, CongEquivalence
      <3> QED
        BY <2>1, <3>2 DEF Combines
    <2> DEFINE o == Interpolate(x, I, n, Ones)
    <2>3. o \in Int /\ Cong(Interpolate(x, I, n, h), z * o + z * o)
      <3> HIDE DEF h, z
      <3> QED
        BY <1>0, <2>1, <2>2, InterpolateLinear, WeightedNumbers
    <2> HIDE DEF o
    <2>4. z * o + z * o = 0
      BY <2>3
    <2> QED
      BY <2>3, <2>4
  <1> HIDE DEF V
  <1>3. ASSUME NEW k \in Nat, k \in S, k + 1 <= m PROVE Cong(T(k + 1), Constant(k + 1))
    <2> DEFINE f == V(k + 1)
               g == V(k)
               h == PowersOf(x, k)
               o == 1
               d == c[k + 1]
               A == Interpolate(x, I, n, g)
               B == Interpolate(x, I, n, h)
               F == Interpolate(x, I, n, f)
    <2>1. /\ f \in Numbers /\ g \in Numbers /\ h \in Numbers /\ o \in Int /\ d \in Int
          /\ A \in Int /\ F \in Int
      <3>1. k + 1 \in Nat /\ k \in Nat
        OBVIOUS
      <3>2. f \in Numbers /\ g \in Numbers /\ F \in Int /\ A \in Int
        <4>1. V(k + 1) \in Numbers /\ T(k + 1) \in Int /\ V(k) \in Numbers /\ T(k) \in Int
          BY <1>1, <3>1
        <4> HIDE DEF V
        <4> QED
          BY <4>1
      <3>3. h \in Numbers
        BY <1>0, <3>1, PowersStep
      <3>4. d \in Int
        BY <1>0, <3>1 DEF Numbers
      <3> QED
        BY <3>2, <3>3, <3>4
    <2>2. \A i \in 1..n : f[i] = o * g[i] + d * h[i] /\ f[i] \in Int
      <3>1. ASSUME NEW i \in 1..n PROVE f[i] = o * g[i] + d * h[i] /\ f[i] \in Int
        <4>1. f[i] = g[i] + d * h[i] /\ g[i] \in Int
          BY <1>1, <2>1 DEF PowersOf, Numbers
        <4>2. f[i] \in Int /\ o * g[i] = g[i]
          BY <2>1, <4>1 DEF Numbers
        <4> QED
          BY <4>1, <4>2
      <3> QED
        BY <3>1
    <2> HIDE DEF f, g, h, o, d
    <2>3. Combines(f, o, g, d, h, n)
      BY <2>2, CongEquivalence DEF Combines
    <2>4. Cong(F, o * A + d * B) /\ B \in Int
      BY <2>1, <2>3, InterpolateLinear, WeightedNumbers
    <2>5. Cong(A, Constant(k))
      BY <1>3 DEF g
    <2>6. CASE k = 0
      <3>1. Cong(A, 0) /\ h = Ones /\ d = c[1]
        BY <1>0, <2>5, <2>6, PowersStep DEF h, d
      <3>2. Cong(B, 1)
        <4>1. I # {}
          <5>1. Cardinality(I) # 0
            <6>1. Cardinality(I) \in Nat
              BY NodeSetsFinite
            <6> QED
              BY <6>1
          <5> QED
            BY <5>1, FS_EmptySet
        <4> QED
          BY <3>1, <4>1, WeightsAddUp
      <3> HIDE DEF A, B, F
      <3>3. Cong(o * A, o * 0) /\ Cong(d * B, d * 1)
        <4> DEFINE z == 0
                   e == 1
        <4>1. Cong(A, z) /\ Cong(B, e) /\ z \in Int /\ e \in Int /\ Cong(o, o) /\ Cong(d, d)
          BY <2>1, <3>1, <3>2, CongEquivalence
        <4> HIDE DEF z, e
        <4>2. Cong(o * A, o * z) /\ Cong(d * B, d * e)
          BY <2>1, <2>4, <4>1, CongArithmetic
        <4> QED
          BY <4>2 DEF z, e
      <3>4. Cong(o * A + d * B, o * 0 + d * 1)
        BY <2>1, <2>4, <3>3, CongArithmetic
      <3>5. o * 0 + d * 1 = d /\ o * A + d * B \in Int
        BY <2>1, <2>4
      <3>6. Cong(F, d)
        BY <2>1, <2>4, <3>4, <3>5, CongEquivalence
      <3> QED
        BY <2>6, <3>1, <3>6 DEF F, f
    <2>7. CASE k # 0
      <3>1. Cong(A, c[1])
        BY <2>5, <2>7
      <3>2. Cong(B, 0)
        <4>1. Cardinality(I) \in Nat
          BY NodeSetsFinite
        <4>2. k - 1 \in Nat /\ (k - 1) + 1 = k /\ k < Cardinality(I)
          BY <1>3, <2>7, <4>1
        <4>3. Cong(Interpolate(x, I, n, PowersOf(x, (k - 1) + 1)), 0)
          BY <4>2, PowersVanish
        <4> QED
          BY <4>2, <4>3 DEF h
      <3> DEFINE b == c[1]
      <3>0. b \in Int /\ Cong(A, b)
        BY <1>0, <3>1
      <3> HIDE DEF A, B, F, b
      <3>3. Cong(o * A, o * b) /\ Cong(d * B, d * 0)
        <4> DEFINE z == 0
        <4>1. Cong(B, z) /\ z \in Int /\ Cong(o, o) /\ Cong(d, d)
          BY <2>1, <3>2, CongEquivalence
        <4> HIDE DEF z
        <4>2. Cong(o * A, o * b) /\ Cong(d * B, d * z)
          BY <2>1, <2>4, <3>0, <4>1, CongArithmetic
        <4> QED
          BY <4>2 DEF z
      <3>4. Cong(o * A + d * B, o * b + d * 0)
        BY <2>1, <2>4, <3>0, <3>3, CongArithmetic
      <3>5. o * b + d * 0 = b /\ o * A + d * B \in Int
        BY <2>1, <2>4, <3>0 DEF o
      <3>6. Cong(F, b)
        BY <2>1, <2>4, <3>0, <3>4, <3>5, CongEquivalence
      <3> QED
        BY <2>7, <3>6 DEF F, f, b
    <2> QED
      BY <2>6, <2>7
  <1>4. \A k \in Nat : k \in S => k + 1 \in S
    <2>1. ASSUME NEW k \in Nat, k \in S PROVE k + 1 \in S
      <3>1. k + 1 <= m => Cong(T(k + 1), Constant(k + 1))
        BY <1>3, <2>1
      <3> HIDE DEF T, Constant
      <3> QED
        BY <3>1
    <2> QED
      BY <2>1
  <1> HIDE DEF S
  <1>5. m \in S
    BY <1>2, <1>4, NaturalsByInduction
  <1> QED
    BY <1>5 DEF S, V
-----------------------------------------------------------------------------
(* Folds over finite sets, by induction over their subsets *)

\* G has every set of S that it has with any one element less.
Closed(S, G) == \A T \in SUBSET S : (\A x \in T : T \ {x} \in G) => T \in G

\* What a subset has as soon as it is had with any one element less, every subset
\* of a finite set has.
LEMMA SubsetsFromSmaller ==
    ASSUME NEW S, IsFiniteSet(S), NEW G, Closed(S, G)
    PROVE  SUBSET S \subseteq G
  <1> DEFINE Bad == {n \in Nat : \E T \in SUBSET S : Cardinality(T) = n /\ T \notin G}
  <1>1. ASSUME NEW T \in SUBSET S PROVE IsFiniteSet(T) /\ Cardinality(T) \in Nat
    BY FS_Subset, FS_CardinalityType
  <1>2. SUFFICES ASSUME Bad # {} PROVE FALSE
    BY <1>1
  <1>3. PICK n \in Bad : \A m \in Bad : n <= m
    <2> HIDE DEF Bad
    <2>1. Bad \in SUBSET Nat
      BY DEF Bad
    <2> QED
      BY <1>2, <2>1, LeastNatural
  <1>4. PICK T \in SUBSET S : Cardinality(T) = n /\ T \notin G
    OBVIOUS
  <1>5. ASSUME NEW x \in T PROVE T \ {x} \in G
    <2>1. T \ {x} \in SUBSET S /\ Cardinality(T \ {x}) = n - 1 /\ Cardinality(T \ {x}) \in Nat
      BY <1>1, <1>4, FS_RemoveElement
    <2>2. n - 1 \notin Bad
      BY <1>3
    <2> QED
      BY <2>1, <2>2
  <1> QED
    BY <1>4, <1>5 DEF Closed

\* c takes an element of every nonempty set of S.
Chooses(c, S) == \A s \in SUBSET S : s # {} => c[s] \in s

\* g folds F over the subsets of S in D, taking the element c[s] of s first.
IsFold(g, D, c, base, F) ==
    \A s \in D : g[s] = IF s = {} THEN base ELSE F[<<c[s], g[s \ {c[s]}]>>]

\* By induction over their size, the subsets of a finite set can be folded.
LEMMA FoldExists ==
    ASSUME NEW S, IsFiniteSet(S), NEW V, NEW base \in V, NEW F \in [S \X V -> V],
           NEW c, Chooses(c, S)
    PROVE  \E g \in [SUBSET S -> V] : IsFold(g, SUBSET S, c, base, F)
  <1> DEFINE Level(n) == {s \in SUBSET S : Cardinality(s) <= n}
             Foldable(n) == \E g \in [Level(n) -> V] : IsFold(g, Level(n), c, base, F)
             Bad == {n \in Nat : ~Foldable(n)}
  <1>1. ASSUME NEW T \in SUBSET S
        PROVE  IsFiniteSet(T) /\ Cardinality(T) \in Nat /\ Cardinality(T) <= Cardinality(S)
    BY FS_Subset, FS_CardinalityType
  <1>2. Foldable(0)
    <2> DEFINE g == [s \in Level(0) |-> base]
    <2>1. \A s \in Level(0) : s = {}
      BY <1>1, FS_EmptySet
    <2>2. IsFold(g, Level(0), c, base, F)
      BY <2>1 DEF IsFold
    <2> QED
      BY <2>2
  <1>3. ASSUME NEW n \in Nat, n > 0, Foldable(n - 1) PROVE Foldable(n)
    <2>1. PICK h \in [Level(n - 1) -> V] : IsFold(h, Level(n - 1), c, base, F)
      BY <1>3
    <2> DEFINE g == [s \in Level(n) |-> IF s = {} THEN base ELSE F[<<c[s], h[s \ {c[s]}]>>]]
    <2>2. ASSUME NEW s \in Level(n), s # {}
          PROVE  s \ {c[s]} \in Level(n - 1) /\ F[<<c[s], h[s \ {c[s]}]>>] \in V
      <3>1. c[s] \in s /\ s \in SUBSET S
        BY <2>2 DEF Chooses
      <3>2. Cardinality(s \ {c[s]}) = Cardinality(s) - 1
        BY <1>1, <3>1, FS_RemoveElement
      <3>3. s \ {c[s]} \in Level(n - 1)
        BY <1>1, <3>1, <3>2
      <3>4. h[s \ {c[s]}] \in V
        BY <3>3
      <3>5. <<c[s], h[s \ {c[s]}]>> \in S \X V
        BY <3>1, <3>4
      <3> QED
        BY <3>3, <3>5
    <2>3. g \in [Level(n) -> V]
      BY <2>2
    <2>4. \A s \in Level(n - 1) : s \in Level(n) /\ g[s] = h[s]
      <3>1. \A s \in Level(n - 1) : s \in Level(n)
        BY <1>1
      <3> QED
        BY <2>1, <3>1 DEF IsFold
    <2>5. \A s \in Level(n) : s # {} => g[s \ {c[s]}] = h[s \ {c[s]}]
      <3> HIDE DEF g, Level
      <3> QED
        BY <2>2, <2>4
    <2>6. IsFold(g, Level(n), c, base, F)
      BY <2>5 DEF IsFold
    <2> QED
      BY <2>3, <2>6
  <1> HIDE DEF Foldable
  <1>4. \A n \in Nat : Foldable(n)
    <2>1. SUFFICES ASSUME Bad # {} PROVE FALSE
      OBVIOUS
    <2>2. PICK n \in Bad : \A m \in Bad : n <= m
      <3> HIDE DEF Bad
      <3>1. Bad \in SUBSET Nat
        BY DEF Bad
      <3> QED
        BY <2>1, <3>1, LeastNatural
    <2>3. n # 0 /\ n \in Nat
      BY <1>2
    <2>4. n - 1 \in Nat /\ n - 1 \notin Bad
      BY <2>2, <2>3
    <2> QED
      BY <1>3, <2>3, <2>4
  <1>5. Cardinality(S) \in Nat /\ Level(Cardinality(S)) = SUBSET S
    BY <1>1
  <1>6. Foldable(Cardinality(S))
    BY <1>4, <1>5
  <1> HIDE DEF Level
  <1>7. \E g \in [Level(Cardinality(S)) -> V] : IsFold(g, Level(Cardinality(S)), c, base, F)
    BY <1>6 DEF Foldable
  <1> QED
    BY <1>5, <1>7

\* SequencesExt takes the largest index first.
Largest(s) == SeqOps!Max(s)

\* A nonempty set of indices has a largest one.
LEMMA LargestIndex ==
    ASSUME NEW n \in Nat, NEW s \in SUBSET (1..n), s # {}
    PROVE  Largest(s) \in s
  <1> DEFINE D == {n - i : i \in s}
  <1>1. D \subseteq Nat
    <2>1. \A i \in s : n - i \in Nat
      OBVIOUS
    <2> QED
      BY <2>1
  <1>2. D \in SUBSET Nat /\ D # {} /\ \A j \in s : n - j \in D
    BY <1>1
  <1>3. \A d \in D : \E i \in s : d = n - i
    OBVIOUS
  <1> HIDE DEF D
  <1>4. PICK d \in D : \A e \in D : d <= e
    BY <1>2, LeastNatural
  <1>5. PICK i \in s : d = n - i
    BY <1>3
  <1>6. ASSUME NEW j \in s PROVE i >= j
    <2>1. n - i <= n - j /\ i \in Int /\ j \in Int
      BY <1>2, <1>4, <1>5
    <2> QED
      BY <2>1
  <1> QED
    BY <1>6 DEF Largest, SeqOps!Max

-----------------------------------------------------------------------------
(* Evaluation of polynomials *)

\* The fold of a sequence of length n, the last index outermost, with F for its steps.
FoldOf(h, n, base, F) ==
    h = [s \in SUBSET (1..n) |->
            IF s = {} THEN base ELSE F[<<Largest(s), h[s \ {Largest(s)}]>>]]

\* There is a fold.
LEMMA FoldOfExists ==
    ASSUME NEW n \in Nat, NEW V, NEW base \in V, NEW F \in [(1..n) \X V -> V]
    PROVE  \E h \in [SUBSET (1..n) -> V] : FoldOf(h, n, base, F)
  <1> DEFINE c == [s \in SUBSET (1..n) |-> Largest(s)]
             I == 1..n
  <1>1. IsFiniteSet(I)
    BY FS_Interval
  <1>2. Chooses(c, I) /\ \A s \in SUBSET I : c[s] = Largest(s)
    BY LargestIndex DEF Chooses
  <1>3. F \in [I \X V -> V]
    OBVIOUS
  <1> HIDE DEF c, I
  <1>4. PICK g \in [SUBSET I -> V] : IsFold(g, SUBSET I, c, base, F)
    BY <1>1, <1>2, <1>3, FoldExists, Zenon
  <1>5. g = [s \in SUBSET I |-> IF s = {} THEN base ELSE F[<<Largest(s), g[s \ {Largest(s)}]>>]]
    <2>1. ASSUME NEW s \in SUBSET I
          PROVE  g[s] = IF s = {} THEN base ELSE F[<<Largest(s), g[s \ {Largest(s)}]>>]
      BY <1>2, <1>4 DEF IsFold
    <2> QED
      BY <2>1
  <1> QED
    BY <1>4, <1>5 DEF FoldOf, I

\* The largest of the first k indices is k.
LEMMA LargestOfFirst ==
    ASSUME NEW k \in Nat, k # 0
    PROVE  Largest(1..k) = k /\ (1..k) \ {Largest(1..k)} = 1..(k - 1)
  <1>1. Largest(1..k) = k
    BY DEF Largest, SeqOps!Max
  <1> QED
    BY <1>1

\* The local variables of EvalPolynomial.
Accumulator == [value : Scalar, power : Scalar]

\* One step of EvalPolynomial from accumulator a, for the coefficient k.
EvalStep(a, k, x) == [value |-> (a.value + k * a.power) % CURVE_ORDER,
                      power |-> (a.power * x) % CURVE_ORDER]

\* The evaluation of a polynomial folds its coefficients, the last index outermost.
EvalFold(h, seq, x) ==
    h = [s \in SUBSET DOMAIN seq |->
            IF s = {} THEN [value |-> 0, power |-> 1]
            ELSE EvalStep(h[s \ {Largest(s)}], seq[Largest(s)], x)]

\* A step of the evaluation computes with scalars.
LEMMA EvalStepType ==
    ASSUME NEW a \in Accumulator, NEW k \in Int, NEW x \in Int
    PROVE  /\ EvalStep(a, k, x) \in Accumulator
           /\ Cong(EvalStep(a, k, x).value, a.value + k * a.power)
           /\ Cong(EvalStep(a, k, x).power, a.power * x)
  <1>1. a.value \in Int /\ a.power \in Int
    BY CurveOrderAssumption DEF Accumulator, Scalar
  <1>2. k * a.power \in Int /\ a.power * x \in Int
    BY <1>1
  <1>3. a.value + k * a.power \in Int
    BY <1>1, <1>2
  <1>4. /\ (a.value + k * a.power) % CURVE_ORDER \in Scalar
        /\ (a.power * x) % CURVE_ORDER \in Scalar
        /\ Cong((a.value + k * a.power) % CURVE_ORDER, a.value + k * a.power)
        /\ Cong((a.power * x) % CURVE_ORDER, a.power * x)
    BY <1>2, <1>3, Remainders
  <1> QED
    BY <1>4 DEF Accumulator, EvalStep

\* The evaluation takes the coefficients one after the other.
LEMMA EvalUnfolds ==
    ASSUME NEW n \in Nat, NEW seq \in [1..n -> Int], NEW x \in Int
    PROVE  \E h : /\ EvalPolynomial(seq, x) = h[1..n].value
                  /\ h[1..0] = [value |-> 0, power |-> 1]
                  /\ \A k \in 1..n : h[1..k] = EvalStep(h[1..(k - 1)], seq[k], x)
  <1> DEFINE F == [p \in (1..n) \X Accumulator |-> EvalStep(p[2], seq[p[1]], x)]
             base == [value |-> 0, power |-> 1]
  <1>1. base \in Accumulator
    BY CurveOrderAssumption DEF Accumulator, Scalar
  <1>2. F \in [(1..n) \X Accumulator -> Accumulator]
    <2>1. ASSUME NEW p \in (1..n) \X Accumulator PROVE EvalStep(p[2], seq[p[1]], x) \in Accumulator
      <3>1. seq[p[1]] \in Int /\ p[2] \in Accumulator
        OBVIOUS
      <3> QED
        BY <3>1, EvalStepType
    <2> QED
      BY <2>1
  <1>3. \A i \in 1..n, a \in Accumulator : F[<<i, a>>] = EvalStep(a, seq[i], x)
    OBVIOUS
  <1> HIDE DEF F, base
  <1>4. PICK g \in [SUBSET (1..n) -> Accumulator] : FoldOf(g, n, base, F)
    BY <1>1, <1>2, FoldOfExists, Zenon
  <1>5. EvalFold(g, seq, x)
    <2>1. ASSUME NEW s \in SUBSET (1..n)
          PROVE  g[s] = IF s = {} THEN [value |-> 0, power |-> 1]
                        ELSE EvalStep(g[s \ {Largest(s)}], seq[Largest(s)], x)
      <3>1. g[s] = IF s = {} THEN base ELSE F[<<Largest(s), g[s \ {Largest(s)}]>>]
        BY <1>4 DEF FoldOf
      <3>2. ASSUME s # {} PROVE Largest(s) \in 1..n /\ g[s \ {Largest(s)}] \in Accumulator
        <4>1. Largest(s) \in s
          BY <3>2, LargestIndex
        <4> QED
          BY <4>1
      <3> QED
        BY <1>3, <3>1, <3>2 DEF base
    <2>2. DOMAIN seq = 1..n
      OBVIOUS
    <2>3. g = [s \in SUBSET (1..n) |->
                 IF s = {} THEN [value |-> 0, power |-> 1]
                 ELSE EvalStep(g[s \ {Largest(s)}], seq[Largest(s)], x)]
      BY <2>1
    <2> QED
      BY <2>2, <2>3 DEF EvalFold
  <1>6. PICK h : EvalFold(h, seq, x) /\ EvalPolynomial(seq, x) = h[DOMAIN seq].value
    BY <1>5, Zenon
       DEF EvalPolynomial, SeqOps!FoldLeft, SeqOps!MapThenFoldSet, EvalFold, EvalStep, Largest
  <1>7. DOMAIN seq = 1..n /\ 1..0 = {}
    OBVIOUS
  <1>8. ASSUME NEW k \in 1..n PROVE h[1..k] = EvalStep(h[1..(k - 1)], seq[k], x)
    <2>1. Largest(1..k) = k /\ (1..k) \ {Largest(1..k)} = 1..(k - 1)
      BY LargestOfFirst
    <2>2. 1..k \in SUBSET (1..n) /\ 1..k # {}
      OBVIOUS
    <2>3. h[1..k] = EvalStep(h[(1..k) \ {Largest(1..k)}], seq[Largest(1..k)], x)
      BY <1>6, <1>7, <2>2 DEF EvalFold
    <2> QED
      BY <2>1, <2>3
  <1>9. h[1..0] = [value |-> 0, power |-> 1]
    BY <1>6, <1>7 DEF EvalFold
  <1> QED
    BY <1>6, <1>7, <1>8, <1>9

\* Extends c as a sequence by zeros.
Padded(c, n) == [k \in Nat |-> IF k \in 1..n THEN c[k] ELSE 0]

\* EvalPolynomial computes the value of the polynomial, as a scalar.
LEMMA EvalPolynomialValue ==
    ASSUME NEW n \in Nat, NEW seq \in [1..n -> Int], NEW x \in Int
    PROVE  /\ EvalPolynomial(seq, x) \in Scalar
           /\ Cong(EvalPolynomial(seq, x), Poly(Padded(seq, n), x, n))
  <1> DEFINE c == Padded(seq, n)
  <1>1. c \in Numbers /\ \A k \in 1..n : c[k] = seq[k]
    BY DEF Padded, Numbers
  <1> HIDE DEF c
  <1>2. PICK h : /\ EvalPolynomial(seq, x) = h[1..n].value
                 /\ h[1..0] = [value |-> 0, power |-> 1]
                 /\ \A k \in 1..n : h[1..k] = EvalStep(h[1..(k - 1)], seq[k], x)
    BY EvalUnfolds
  <1> DEFINE Right(a, k) == a \in Accumulator /\ Cong(a.value, Poly(c, x, k))
                                              /\ Cong(a.power, Pow(x, k))
             S == {k \in Nat : k <= n => Right(h[1..k], k)}
  <1>3. 0 \in S
    <2>1. Poly(c, x, 0) = 0 /\ Pow(x, 0) = 1
      BY <1>1, PolyStep, PowStep
    <2>2. [value |-> 0, power |-> 1] \in Accumulator
      BY CurveOrderAssumption DEF Accumulator, Scalar
    <2>3. Cong(0, 0) /\ Cong(1, 1)
      BY CongEquivalence
    <2> QED
      BY <1>2, <2>1, <2>2, <2>3
  <1>4. ASSUME NEW k \in Nat, k \in S, k + 1 <= n PROVE Right(h[1..(k + 1)], k + 1)
    <2> DEFINE a == h[1..k]
               b == h[1..(k + 1)]
               s == seq[k + 1]
               v == a.value
               w == a.power
               V == Poly(c, x, k)
               W == Pow(x, k)
    <2>1. Right(a, k)
      BY <1>4
    <2>2. k + 1 \in 1..n /\ (k + 1) - 1 = k
      BY <1>4
    <2>3. b = EvalStep(a, s, x) /\ s \in Int /\ c[k + 1] = s
      BY <1>1, <1>2, <2>2
    <2>4. /\ V \in Int /\ W \in Int /\ Poly(c, x, k + 1) = V + s * W
          /\ Pow(x, k + 1) = x * W
      <3>1. V \in Int /\ Poly(c, x, k + 1) = V + c[k + 1] * W
        BY <1>1, PolyStep
      <3>2. W \in Int /\ Pow(x, k + 1) = x * W
        BY PowStep
      <3> QED
        BY <2>3, <3>1, <3>2
    <2>5. /\ a \in Accumulator /\ v \in Int /\ w \in Int /\ Cong(v, V) /\ Cong(w, W)
      BY <2>1, CurveOrderAssumption DEF Accumulator, Scalar
    <2>6. b \in Accumulator /\ Cong(b.value, v + s * w) /\ Cong(b.power, w * x)
      BY <2>3, <2>5, EvalStepType
    <2> DEFINE bv == b.value
               bp == b.power
    <2>7. bv \in Int /\ bp \in Int
      BY <2>6, CurveOrderAssumption DEF Accumulator, Scalar
    <2> HIDE DEF a, b, s, v, w, V, W
    <2>8. Cong(bv, v + s * w) /\ Cong(bp, w * x)
      BY <2>6
    <2> HIDE DEF bv, bp
    <2>9. Cong(s, s) /\ Cong(x, x)
      BY <2>3, CongEquivalence
    <2>10. Cong(s * w, s * W) /\ s * w \in Int /\ s * W \in Int
      BY <2>3, <2>4, <2>5, <2>9, CongArithmetic
    <2>11. Cong(v + s * w, V + s * W) /\ v + s * w \in Int /\ V + s * W \in Int
      <3> DEFINE e == s * w
                 f == s * W
      <3>1. e \in Int /\ f \in Int /\ Cong(e, f)
        BY <2>10
      <3> HIDE DEF e, f
      <3>2. Cong(v + e, V + f) /\ v + e \in Int /\ V + f \in Int
        BY <2>4, <2>5, <3>1, CongArithmetic
      <3> QED
        BY <3>2 DEF e, f
    <2>12. Cong(w * x, W * x) /\ W * x = x * W /\ w * x \in Int /\ W * x \in Int
      BY <2>4, <2>5, <2>9, CongArithmetic
    <2>13. Cong(bv, V + s * W) /\ Cong(bp, x * W)
      BY <2>7, <2>8, <2>11, <2>12, CongEquivalence
    <2> QED
      BY <2>4, <2>6, <2>13 DEF b, bv, bp
  <1>5. \A k \in Nat : k \in S => k + 1 \in S
    BY <1>4
  <1> HIDE DEF S
  <1>6. n \in S
    BY <1>3, <1>5, NaturalsByInduction
  <1> QED
    BY <1>2, <1>6 DEF S, Accumulator, c

-----------------------------------------------------------------------------
(* Products without one factor, as lagrangeCoefficient folds them *)

\* g folds the indices 1..n, the last one outermost, with values in V.
Folds(g, n, V, base, F) ==
    /\ g = [s \in SUBSET (1..n) |-> g[s]]
    /\ g[{}] = base
    /\ \A s \in SUBSET (1..n) :
          s # {} => /\ Largest(s) \in 1..n /\ g[s \ {Largest(s)}] \in V
                    /\ g[s] = F[<<Largest(s), g[s \ {Largest(s)}]>>]

\* A fold, with the typing of its steps.
LEMMA FoldFound ==
    ASSUME NEW n \in Nat, NEW V, NEW base \in V, NEW F \in [(1..n) \X V -> V]
    PROVE  \E g : Folds(g, n, V, base, F)
  <1>1. PICK g \in [SUBSET (1..n) -> V] : FoldOf(g, n, base, F)
    BY FoldOfExists
  <1>2. g[{}] = base
    BY <1>1 DEF FoldOf
  <1>3. ASSUME NEW s \in SUBSET (1..n), s # {}
        PROVE  /\ Largest(s) \in 1..n /\ g[s \ {Largest(s)}] \in V
               /\ g[s] = F[<<Largest(s), g[s \ {Largest(s)}]>>]
    <2>1. Largest(s) \in s
      BY <1>3, LargestIndex
    <2> QED
      BY <1>1, <1>3, <2>1 DEF FoldOf
  <1> QED
    BY <1>2, <1>3 DEF Folds

\* h multiplies the numbers u[1], ..., u[n] but u[i], reducing after every factor.
ProductSteps(h, n, i, u) ==
    /\ h[1..0] = 1
    /\ \A k \in 1..n :
          h[1..k] = IF k = i THEN h[1..(k - 1)] ELSE ModN(h[1..(k - 1)] * u[k])

Masked(u, n, i) == [j \in Nat |-> IF j \in 1..n /\ j # i THEN u[j] ELSE 1]

\* The result is the product as a scalar.
LEMMA MaskedProduct ==
    ASSUME NEW n \in Nat, NEW i \in 1..n, NEW u \in Numbers, NEW h, ProductSteps(h, n, i, u)
    PROVE  /\ Masked(u, n, i) \in Numbers
           /\ h[1..n] \in Scalar /\ Cong(h[1..n], Product(Masked(u, n, i), n))
  <1> DEFINE w == Masked(u, n, i)
             Right(a, k) == a \in Scalar /\ Cong(a, Product(w, k))
             S == {k \in Nat : k <= n => Right(h[1..k], k)}
  <1>1. w \in Numbers /\ \A k \in 1..n : w[k] = IF k = i THEN 1 ELSE u[k]
    BY DEF Masked, Numbers
  <1> HIDE DEF w
  <1>2. 0 \in S
    <2>1. Product(w, 0) = 1 /\ 1 \in Scalar /\ Cong(1, 1)
      BY <1>1, ProductStep, CurveOrderAssumption, CongEquivalence DEF Scalar
    <2> QED
      BY <2>1 DEF ProductSteps
  <1>3. ASSUME NEW k \in Nat, k \in S, k + 1 <= n PROVE Right(h[1..(k + 1)], k + 1)
    <2> DEFINE a == h[1..k]
               b == h[1..(k + 1)]
               q == Product(w, k)
               f == u[k + 1]
    <2>1. k + 1 \in 1..n /\ (k + 1) - 1 = k /\ k + 1 \in Nat
      BY <1>3
    <2>2. a \in Scalar /\ a \in Int /\ Cong(a, q)
      BY <1>3, CurveOrderAssumption DEF Scalar
    <2>3. q \in Int /\ Product(w, k + 1) = q * w[k + 1] /\ f \in Int
      BY <1>1, <2>1, ProductStep DEF Numbers
    <2>4. b = IF k + 1 = i THEN a ELSE ModN(a * f)
      BY <2>1 DEF ProductSteps
    <2>5. w[k + 1] = IF k + 1 = i THEN 1 ELSE f
      BY <1>1, <2>1
    <2> HIDE DEF a, b, q, f
    <2>6. CASE k + 1 = i
      <3>1. Product(w, k + 1) = q /\ b = a
        BY <2>3, <2>4, <2>5, <2>6
      <3> QED
        BY <2>2, <3>1 DEF b
    <2>7. CASE k + 1 # i
      <3>1. Product(w, k + 1) = q * f /\ b = ModN(a * f)
        BY <2>3, <2>4, <2>5, <2>7
      <3>2. a * f \in Int /\ q * f \in Int
        BY <2>2, <2>3
      <3>3. b \in Scalar /\ Cong(b, a * f) /\ b \in Int
        BY <3>1, <3>2, Remainders, CurveOrderAssumption DEF Scalar
      <3>4. Cong(a * f, q * f)
        BY <2>2, <2>3, CongEquivalence, CongArithmetic
      <3>5. Cong(b, q * f)
        BY <3>2, <3>3, <3>4, CongEquivalence
      <3> QED
        BY <3>1, <3>3, <3>5 DEF b
    <2> QED
      BY <2>6, <2>7
  <1>4. \A k \in Nat : k \in S => k + 1 \in S
    BY <1>3
  <1> HIDE DEF S
  <1>5. n \in S
    BY <1>2, <1>4, NaturalsByInduction
  <1> QED
    BY <1>1, <1>5 DEF S, w

\* One step of the two products in lagrangeCoefficient.
NumStep(acc, j, indices, i) == IF j = i THEN acc ELSE ModN(acc * indices[j])
DenStep(acc, j, indices, i) == IF j = i THEN acc ELSE ModN(acc * (indices[j] - indices[i]))

NumFold(h, indices, i) ==
    h = [s \in SUBSET DOMAIN Positions(indices) |->
            IF s = {} THEN 1
            ELSE NumStep(h[s \ {Largest(s)}], Positions(indices)[Largest(s)], indices, i)]

DenFold(h, indices, i) ==
    h = [s \in SUBSET DOMAIN Positions(indices) |->
            IF s = {} THEN 1
            ELSE DenStep(h[s \ {Largest(s)}], Positions(indices)[Largest(s)], indices, i)]

NumProduct(indices, i) == (CHOOSE h : NumFold(h, indices, i))[DOMAIN Positions(indices)]
DenProduct(indices, i) == (CHOOSE h : DenFold(h, indices, i))[DOMAIN Positions(indices)]

\* A Lagrange coefficient is made of the two products.
LEMMA LagrangeOfProducts ==
    ASSUME NEW indices, NEW i
    PROVE  LagrangeCoefficient(indices, i)
             = ModN(NumProduct(indices, i) * ModInverseOrder(DenProduct(indices, i)))
  BY Zenon DEF LagrangeCoefficient, SeqOps!FoldLeft, SeqOps!MapThenFoldSet, Largest, NumProduct,
               DenProduct, NumFold, DenFold, NumStep, DenStep

\* Multiples of congruent numbers are congruent.
LEMMA CongTimes ==
    ASSUME NEW a \in Int, NEW b \in Int, NEW c \in Int, Cong(a, b)
    PROVE  Cong(c * a, c * b) /\ c * a \in Int /\ c * b \in Int
  <1>1. Cong(c, c)
    BY CongEquivalence
  <1> QED
    BY <1>1, CongArithmetic

\* A reduced number is a number.
LEMMA ReducedIsNumber ==
    ASSUME NEW a \in Int
    PROVE  ModN(a) \in Int /\ ModN(a) \in Scalar /\ Cong(ModN(a), a)
  <1>1. ModN(a) \in Scalar /\ Cong(ModN(a), a)
    BY Remainders
  <1> QED
    BY <1>1, CurveOrderAssumption DEF Scalar

\* The length and the positions of a function on 1..n.
LEMMA FunctionIsSequence ==
    ASSUME NEW n \in Nat, NEW S, NEW s \in [1..n -> S]
    PROVE  s \in Seq(S) /\ Len(s) = n /\ DOMAIN s = 1..n /\ Positions(s) = [j \in 1..n |-> j]
  <1>1. s \in Seq(S) /\ DOMAIN s = 1..n
    OBVIOUS
  <1>2. Len(s) = n
    BY <1>1
  <1> QED
    BY <1>1, <1>2 DEF Positions

\* The positions of a sequence of numbers.
LEMMA PositionsOf ==
    ASSUME NEW n \in Nat, NEW s \in [1..n -> Int]
    PROVE  DOMAIN Positions(s) = 1..n /\ \A j \in 1..n : Positions(s)[j] = j
  <1> DEFINE V == Int
  <1>1. s \in [1..n -> V]
    OBVIOUS
  <1> HIDE DEF V
  <1>2. Positions(s) = [j \in 1..n |-> j]
    BY <1>1, FunctionIsSequence
  <1> QED
    BY <1>2

\* The first indices are a set of indices.
LEMMA FirstIndices ==
    ASSUME NEW n \in Nat, NEW k \in 1..n
    PROVE  /\ 1..k \in SUBSET (1..n) /\ 1..k # {}
           /\ Largest(1..k) = k /\ (1..k) \ {Largest(1..k)} = 1..(k - 1)
  BY LargestOfFirst

\* A fold of numbers.
LEMMA NumberFoldFound ==
    ASSUME NEW n \in Nat, NEW base \in Int, NEW F \in [(1..n) \X Int -> Int]
    PROVE  \E g : Folds(g, n, Int, base, F)
  <1> DEFINE V == Int
  <1>1. F \in [(1..n) \X V -> V] /\ base \in V
    OBVIOUS
  <1> HIDE DEF V
  <1>2. \E g : Folds(g, n, V, base, F)
    BY <1>1, FoldFound
  <1> QED
    BY <1>2 DEF V

\* The differences of the indices to index i.
Differences(indices, n, i) ==
    [j \in Nat |-> IF j \in 1..n THEN indices[j] - indices[i] ELSE 0]

\* The numerator multiplies one position after the other.
LEMMA NumSteps ==
    ASSUME NEW n \in Nat, NEW indices \in [1..n -> Int], NEW i \in 1..n
    PROVE  \E h : ProductSteps(h, n, i, Padded(indices, n)) /\ NumProduct(indices, i) = h[1..n]
  <1> DEFINE F == [p \in (1..n) \X Int |-> NumStep(p[2], p[1], indices, i)]
             o == 1
             u == Padded(indices, n)
  <1>1. DOMAIN Positions(indices) = 1..n /\ \A j \in 1..n : Positions(indices)[j] = j
    BY PositionsOf
  <1>2. \A a \in Int, j \in 1..n :
           NumStep(a, j, indices, i) = (IF j = i THEN a ELSE ModN(a * u[j])) /\ a * u[j] \in Int
    <2>1. \A j \in 1..n : u[j] \in Int /\ u[j] = indices[j]
      BY DEF Padded
    <2> HIDE DEF u
    <2>2. \A a \in Int, j \in 1..n : a * u[j] \in Int
      BY <2>1
    <2>3. \A a \in Int, j \in 1..n :
             NumStep(a, j, indices, i) = (IF j = i THEN a ELSE ModN(a * u[j]))
      BY <2>1, Zenon DEF NumStep
    <2> QED
      BY <2>2, <2>3
  <1>3. F \in [(1..n) \X Int -> Int]
    <2>1. ASSUME NEW p \in (1..n) \X Int PROVE NumStep(p[2], p[1], indices, i) \in Int
      <3> DEFINE a == p[2]
                 j == p[1]
      <3>1. a \in Int /\ j \in 1..n
        OBVIOUS
      <3> HIDE DEF a, j
      <3>2. a * u[j] \in Int
        BY <1>2, <3>1
      <3>3. ModN(a * u[j]) \in Int
        BY <3>2, ReducedIsNumber
      <3>4. NumStep(a, j, indices, i) \in Int
        BY <1>2, <3>1, <3>3
      <3> QED
        BY <3>4 DEF a, j
    <2> QED
      BY <2>1
  <1>4. \A j \in 1..n, a \in Int : F[<<j, a>>] = NumStep(a, j, indices, i)
    OBVIOUS
  <1>5. o \in Int
    OBVIOUS
  <1> HIDE DEF F, o, u
  <1>6. PICK g : Folds(g, n, Int, o, F)
    BY <1>3, <1>5, NumberFoldFound
  <1>7. NumFold(g, indices, i)
    <2>1. ASSUME NEW s \in SUBSET (1..n)
          PROVE  g[s] = IF s = {} THEN 1
                        ELSE NumStep(g[s \ {Largest(s)}], Positions(indices)[Largest(s)],
                                     indices, i)
      BY <1>1, <1>4, <1>6 DEF o, Folds
    <2>2. g = [s \in SUBSET (1..n) |-> g[s]]
      BY <1>6 DEF Folds
    <2>3. g = [s \in SUBSET (1..n) |->
                 IF s = {} THEN 1
                 ELSE NumStep(g[s \ {Largest(s)}], Positions(indices)[Largest(s)], indices, i)]
      BY <2>1, <2>2
    <2> QED
      BY <1>1, <2>3 DEF NumFold
  <1> DEFINE h == CHOOSE h : NumFold(h, indices, i)
  <1>8. NumFold(h, indices, i)
    BY <1>7, Zenon
  <1>9. NumProduct(indices, i) = h[1..n]
    BY <1>1 DEF NumProduct
  <1> HIDE DEF h
  <1>10. h[1..0] = 1
    <2>1. 1..0 = {} /\ {} \in SUBSET (1..n)
      OBVIOUS
    <2> QED
      BY <1>1, <1>8, <2>1 DEF NumFold
  <1>11. ASSUME NEW k \in 1..n
         PROVE  h[1..k] = NumStep(h[1..(k - 1)], k, indices, i)
    <2>1. /\ 1..k \in SUBSET (1..n) /\ 1..k # {}
          /\ Largest(1..k) = k /\ (1..k) \ {Largest(1..k)} = 1..(k - 1)
      BY FirstIndices
    <2>3. h[1..k] = NumStep(h[(1..k) \ {Largest(1..k)}], Positions(indices)[Largest(1..k)],
                            indices, i)
      BY <1>1, <1>8, <2>1 DEF NumFold
    <2> QED
      BY <1>1, <2>1, <2>3
  <1>12. ASSUME NEW k \in 1..n
         PROVE  h[1..k] = IF k = i THEN h[1..(k - 1)] ELSE ModN(h[1..(k - 1)] * u[k])
    <2>1. u[k] = indices[k]
      BY DEF u, Padded
    <2> QED
      BY <1>11, <2>1, Zenon DEF NumStep
  <1> QED
    BY <1>9, <1>10, <1>12 DEF ProductSteps, u

\* The denominator multiplies one position after the other.
LEMMA DenSteps ==
    ASSUME NEW n \in Nat, NEW indices \in [1..n -> Int], NEW i \in 1..n
    PROVE  \E h : /\ ProductSteps(h, n, i, Differences(indices, n, i))
                  /\ DenProduct(indices, i) = h[1..n]
  <1> DEFINE F == [p \in (1..n) \X Int |-> DenStep(p[2], p[1], indices, i)]
             o == 1
             u == Differences(indices, n, i)
  <1>1. DOMAIN Positions(indices) = 1..n /\ \A j \in 1..n : Positions(indices)[j] = j
    BY PositionsOf
  <1>2. \A a \in Int, j \in 1..n :
           DenStep(a, j, indices, i) = (IF j = i THEN a ELSE ModN(a * u[j])) /\ a * u[j] \in Int
    <2>1. \A j \in 1..n : u[j] \in Int /\ u[j] = indices[j] - indices[i]
      BY DEF Differences
    <2> HIDE DEF u
    <2>2. \A a \in Int, j \in 1..n : a * u[j] \in Int
      BY <2>1
    <2>3. \A a \in Int, j \in 1..n :
             DenStep(a, j, indices, i) = (IF j = i THEN a ELSE ModN(a * u[j]))
      BY <2>1, Zenon DEF DenStep
    <2> QED
      BY <2>2, <2>3
  <1>3. F \in [(1..n) \X Int -> Int]
    <2>1. ASSUME NEW p \in (1..n) \X Int PROVE DenStep(p[2], p[1], indices, i) \in Int
      <3> DEFINE a == p[2]
                 j == p[1]
      <3>1. a \in Int /\ j \in 1..n
        OBVIOUS
      <3> HIDE DEF a, j
      <3>2. a * u[j] \in Int
        BY <1>2, <3>1
      <3>3. ModN(a * u[j]) \in Int
        BY <3>2, ReducedIsNumber
      <3>4. DenStep(a, j, indices, i) \in Int
        BY <1>2, <3>1, <3>3
      <3> QED
        BY <3>4 DEF a, j
    <2> QED
      BY <2>1
  <1>4. \A j \in 1..n, a \in Int : F[<<j, a>>] = DenStep(a, j, indices, i)
    OBVIOUS
  <1>5. o \in Int
    OBVIOUS
  <1> HIDE DEF F, o, u
  <1>6. PICK g : Folds(g, n, Int, o, F)
    BY <1>3, <1>5, NumberFoldFound
  <1>7. DenFold(g, indices, i)
    <2>1. ASSUME NEW s \in SUBSET (1..n)
          PROVE  g[s] = IF s = {} THEN 1
                        ELSE DenStep(g[s \ {Largest(s)}], Positions(indices)[Largest(s)],
                                     indices, i)
      BY <1>1, <1>4, <1>6 DEF o, Folds
    <2>2. g = [s \in SUBSET (1..n) |-> g[s]]
      BY <1>6 DEF Folds
    <2>3. g = [s \in SUBSET (1..n) |->
                 IF s = {} THEN 1
                 ELSE DenStep(g[s \ {Largest(s)}], Positions(indices)[Largest(s)], indices, i)]
      BY <2>1, <2>2
    <2> QED
      BY <1>1, <2>3 DEF DenFold
  <1> DEFINE h == CHOOSE h : DenFold(h, indices, i)
  <1>8. DenFold(h, indices, i)
    BY <1>7, Zenon
  <1>9. DenProduct(indices, i) = h[1..n]
    BY <1>1 DEF DenProduct
  <1> HIDE DEF h
  <1>10. h[1..0] = 1
    <2>1. 1..0 = {} /\ {} \in SUBSET (1..n)
      OBVIOUS
    <2> QED
      BY <1>1, <1>8, <2>1 DEF DenFold
  <1>11. ASSUME NEW k \in 1..n
         PROVE  h[1..k] = DenStep(h[1..(k - 1)], k, indices, i)
    <2>1. /\ 1..k \in SUBSET (1..n) /\ 1..k # {}
          /\ Largest(1..k) = k /\ (1..k) \ {Largest(1..k)} = 1..(k - 1)
      BY FirstIndices
    <2>3. h[1..k] = DenStep(h[(1..k) \ {Largest(1..k)}], Positions(indices)[Largest(1..k)],
                            indices, i)
      BY <1>1, <1>8, <2>1 DEF DenFold
    <2> QED
      BY <1>1, <2>1, <2>3
  <1>12. ASSUME NEW k \in 1..n
         PROVE  h[1..k] = IF k = i THEN h[1..(k - 1)] ELSE ModN(h[1..(k - 1)] * u[k])
    <2>1. u[k] = indices[k] - indices[i]
      BY DEF u, Differences
    <2> QED
      BY <1>11, <2>1, Zenon DEF DenStep
  <1> QED
    BY <1>9, <1>10, <1>12 DEF ProductSteps, u

\* lagrangeCoefficient at distinct nonzero indices is the weight of the index.
LEMMA LagrangeCoefficientIsWeight ==
    ASSUME NEW n \in Nat, NEW indices \in [1..n -> Int], NEW i \in 1..n,
           NEW x, x = Padded(indices, n), Nodes(x, n)
    PROVE  /\ LagrangeCoefficient(indices, i) \in Scalar
           /\ Cong(LagrangeCoefficient(indices, i), Weight(x, 1..n, n, i))
  <1> DEFINE I == 1..n
             v == Differences(indices, n, i)
             p == NumProduct(indices, i)
             q == DenProduct(indices, i)
             P == Product(Numerators(x, I, i), n)
             Q == Product(Denominators(x, I, i), n)
             W == Weight(x, I, n, i)
             e == ModInverseOrder(q)
             l == LagrangeCoefficient(indices, i)
  <1>1. x \in Numbers /\ v \in Numbers
    BY DEF Nodes, Numbers, Differences
  <1>2. Masked(x, n, i) = Numerators(x, I, i) /\ Masked(v, n, i) = Denominators(x, I, i)
    BY DEF Masked, Numerators, Denominators, Differences, Padded
  <1>3. p \in Scalar /\ Cong(p, P)
    <2>1. PICK h : ProductSteps(h, n, i, x) /\ NumProduct(indices, i) = h[1..n]
      BY NumSteps
    <2> QED
      BY <1>1, <1>2, <2>1, MaskedProduct
  <1>4. q \in Scalar /\ Cong(q, Q)
    <2>1. PICK h : ProductSteps(h, n, i, v) /\ DenProduct(indices, i) = h[1..n]
      BY DenSteps
    <2> QED
      BY <1>1, <1>2, <2>1, MaskedProduct
  <1>5. W \in Int /\ Q \in Int /\ ~Cong(Q, 0) /\ P \in Int /\ Cong(Q * W, P)
    BY WeightIsQuotient
  <1>6. p \in Int /\ q \in Int /\ l = ModN(p * e)
    BY <1>3, <1>4, LagrangeOfProducts, CurveOrderAssumption DEF Scalar
  <1>7. ~Cong(q, 0)
    <2> DEFINE z == 0
    <2>1. z \in Int
      OBVIOUS
    <2> HIDE DEF z
    <2>2. Cong(Q, q)
      BY <1>4, <1>5, <1>6, CongEquivalence
    <2>3. Cong(q, z) => Cong(Q, z)
      BY <1>5, <1>6, <2>1, <2>2, CongEquivalence
    <2> QED
      BY <1>5, <2>3 DEF z
  <1>8. e \in Int /\ Cong(e * q, 1)
    BY <1>6, <1>7, InverseWorks
  <1> HIDE DEF p, q, P, Q, W, e, l
  <1>9. l \in Scalar /\ l \in Int /\ Cong(l, p * e) /\ p * e \in Int
    <2>1. p * e \in Int
      BY <1>6, <1>8
    <2> QED
      BY <1>6, <2>1, Remainders, CurveOrderAssumption DEF Scalar
  <1>10. Cong(q * l, p)
    <2> DEFINE a == p * e
               b == e * q
               o == 1
    <2>1. o \in Int /\ a \in Int /\ b \in Int /\ Cong(l, a) /\ Cong(b, o)
      BY <1>6, <1>8, <1>9
    <2>2. q * a = p * b /\ p * o = p /\ q * a \in Int /\ p * o \in Int /\ p * b \in Int
      BY <1>6, <1>8
    <2> HIDE DEF a, b, o
    <2>3. Cong(q * l, q * a) /\ q * l \in Int
      BY <1>6, <1>9, <2>1, CongTimes
    <2>4. Cong(p * b, p * o)
      BY <1>6, <2>1, CongTimes
    <2> DEFINE r == q * l
               t == q * a
    <2>5. r \in Int /\ t \in Int /\ Cong(r, t) /\ Cong(t, p)
      BY <2>2, <2>3, <2>4
    <2> HIDE DEF r, t
    <2>6. Cong(r, p)
      BY <1>6, <2>5, CongEquivalence
    <2> QED
      BY <2>6 DEF r
  <1>11. Cong(q * W, P)
    <2> DEFINE r == q * W
               t == Q * W
    <2>1. Cong(r, t) /\ r \in Int /\ t \in Int
      <3>1. q * W = W * q /\ Q * W = W * Q
        BY <1>5, <1>6
      <3> QED
        BY <1>4, <1>5, <1>6, <3>1, CongTimes
    <2>2. Cong(t, P)
      BY <1>5
    <2> HIDE DEF r, t
    <2>3. Cong(r, P)
      BY <1>5, <2>1, <2>2, CongEquivalence
    <2> QED
      BY <2>3 DEF r
  <1>12. Cong(q * l, q * W)
    <2> DEFINE r == q * l
               t == q * W
    <2>1. r \in Int /\ t \in Int /\ Cong(r, p) /\ Cong(t, P)
      BY <1>5, <1>6, <1>9, <1>10, <1>11
    <2> HIDE DEF r, t
    <2>2. Cong(P, t)
      BY <1>5, <2>1, CongEquivalence
    <2>3. Cong(r, P)
      BY <1>3, <1>5, <1>6, <2>1, CongEquivalence
    <2>4. Cong(r, t)
      BY <1>5, <2>1, <2>2, <2>3, CongEquivalence
    <2> QED
      BY <2>4 DEF r, t
  <1>13. Cong(l, W)
    BY <1>5, <1>6, <1>7, <1>9, <1>12, Cancel
  <1> QED
    BY <1>9, <1>13 DEF l, W

-----------------------------------------------------------------------------
(* combineSignatures interpolates *)

\* One step of combineSignatures.
CombineStep(acc, i, sigs, indices) == ModN(acc + sigs[i] * LagrangeCoefficient(indices, i))

CombineFold(h, sigs, indices) ==
    h = [s \in SUBSET DOMAIN Positions(sigs) |->
            IF s = {} THEN 0
            ELSE CombineStep(h[s \ {Largest(s)}], Positions(sigs)[Largest(s)], sigs, indices)]

Combined(sigs, indices) == (CHOOSE h : CombineFold(h, sigs, indices))[DOMAIN Positions(sigs)]

\* combineSignatures is that fold.
LEMMA CombineIsFold ==
    ASSUME NEW sigs, NEW indices
    PROVE  CombineSignatures(sigs, indices) = Combined(sigs, indices)
  BY Zenon DEF CombineSignatures, SeqOps!FoldLeft, SeqOps!MapThenFoldSet, Largest, Combined,
               CombineFold, CombineStep

\* A step of combineSignatures adds a scalar.
LEMMA CombineStepType ==
    ASSUME NEW n \in Nat, NEW indices \in [1..n -> Int], NEW sigs \in [1..n -> Int],
           Nodes(Padded(indices, n), n), NEW i \in 1..n, NEW a \in Int
    PROVE  /\ LagrangeCoefficient(indices, i) \in Int
           /\ sigs[i] * LagrangeCoefficient(indices, i) \in Int
           /\ CombineStep(a, i, sigs, indices) \in Int
           /\ CombineStep(a, i, sigs, indices) \in Scalar
           /\ Cong(CombineStep(a, i, sigs, indices), a + sigs[i] * LagrangeCoefficient(indices, i))
  <1> DEFINE l == LagrangeCoefficient(indices, i)
             x == Padded(indices, n)
             e == sigs[i]
  <1>1. l \in Scalar
    <2>1. x = Padded(indices, n) /\ Nodes(x, n)
      OBVIOUS
    <2> HIDE DEF x
    <2> QED
      BY <2>1, LagrangeCoefficientIsWeight
  <1>2. l \in Int /\ e \in Int
    BY <1>1, CurveOrderAssumption DEF Scalar
  <1> HIDE DEF l, e
  <1>3. e * l \in Int /\ a + e * l \in Int
    BY <1>2
  <1>4. ModN(a + e * l) \in Int /\ ModN(a + e * l) \in Scalar /\ Cong(ModN(a + e * l), a + e * l)
    BY <1>3, ReducedIsNumber
  <1> QED
    BY <1>2, <1>3, <1>4 DEF CombineStep, l, e

\* combineSignatures takes one partial signature after the other.
LEMMA CombineSteps ==
    ASSUME NEW n \in Nat, NEW indices \in [1..n -> Int], NEW sigs \in [1..n -> Int],
           Nodes(Padded(indices, n), n)
    PROVE  \E h : /\ CombineSignatures(sigs, indices) = h[1..n]
                  /\ h[1..0] = 0
                  /\ \A k \in 1..n : h[1..k] = CombineStep(h[1..(k - 1)], k, sigs, indices)
  <1> DEFINE F == [p \in (1..n) \X Int |-> CombineStep(p[2], p[1], sigs, indices)]
             o == 0
  <1>1. DOMAIN Positions(sigs) = 1..n /\ \A j \in 1..n : Positions(sigs)[j] = j
    BY PositionsOf
  <1>2. \A j \in 1..n, a \in Int : CombineStep(a, j, sigs, indices) \in Int
    BY CombineStepType
  <1>3. F \in [(1..n) \X Int -> Int]
    <2>1. ASSUME NEW p \in (1..n) \X Int PROVE CombineStep(p[2], p[1], sigs, indices) \in Int
      <3>1. p[1] \in 1..n /\ p[2] \in Int
        OBVIOUS
      <3> QED
        BY <1>2, <3>1
    <2> QED
      BY <2>1
  <1>4. \A j \in 1..n, a \in Int : F[<<j, a>>] = CombineStep(a, j, sigs, indices)
    OBVIOUS
  <1>5. o \in Int
    OBVIOUS
  <1> HIDE DEF F, o
  <1>6. PICK g : Folds(g, n, Int, o, F)
    BY <1>3, <1>5, NumberFoldFound
  <1>7. CombineFold(g, sigs, indices)
    <2>1. ASSUME NEW s \in SUBSET (1..n)
          PROVE  g[s] = IF s = {} THEN 0
                        ELSE CombineStep(g[s \ {Largest(s)}], Positions(sigs)[Largest(s)],
                                         sigs, indices)
      <3>1. CASE s = {}
        BY <1>6, <3>1 DEF o, Folds
      <3>2. CASE s # {}
        <4> DEFINE j == Largest(s)
                   a == g[s \ {Largest(s)}]
        <4>1. j \in 1..n /\ a \in Int /\ g[s] = F[<<j, a>>]
          BY <1>6, <3>2 DEF Folds
        <4> HIDE DEF j, a
        <4>2. g[s] = CombineStep(a, Positions(sigs)[j], sigs, indices)
          BY <1>1, <1>4, <4>1
        <4> QED
          BY <3>2, <4>2 DEF j, a
      <3> QED
        BY <3>1, <3>2
    <2>2. g = [s \in SUBSET (1..n) |-> g[s]]
      BY <1>6 DEF Folds
    <2>3. g = [s \in SUBSET (1..n) |->
                 IF s = {} THEN 0
                 ELSE CombineStep(g[s \ {Largest(s)}], Positions(sigs)[Largest(s)], sigs, indices)]
      BY <2>1, <2>2
    <2> QED
      BY <1>1, <2>3 DEF CombineFold
  <1> DEFINE h == CHOOSE h : CombineFold(h, sigs, indices)
  <1>8. CombineFold(h, sigs, indices)
    BY <1>7, Zenon
  <1>9. CombineSignatures(sigs, indices) = h[1..n]
    BY <1>1, CombineIsFold DEF Combined
  <1> HIDE DEF h
  <1>10. h[1..0] = 0
    <2>1. 1..0 = {} /\ {} \in SUBSET (1..n)
      OBVIOUS
    <2> QED
      BY <1>1, <1>8, <2>1 DEF CombineFold
  <1>11. ASSUME NEW k \in 1..n
         PROVE  h[1..k] = CombineStep(h[1..(k - 1)], k, sigs, indices)
    <2>1. /\ 1..k \in SUBSET (1..n) /\ 1..k # {}
          /\ Largest(1..k) = k /\ (1..k) \ {Largest(1..k)} = 1..(k - 1)
      BY FirstIndices
    <2>2. h[1..k] = CombineStep(h[(1..k) \ {Largest(1..k)}], Positions(sigs)[Largest(1..k)],
                                sigs, indices)
      BY <1>1, <1>8, <2>1 DEF CombineFold
    <2> QED
      BY <1>1, <2>1, <2>2
  <1> QED
    BY <1>9, <1>10, <1>11

\* combineSignatures interpolates the partial signatures at the indices.
LEMMA CombineInterpolates ==
    ASSUME NEW n \in Nat, NEW indices \in [1..n -> Int], NEW sigs \in [1..n -> Int],
           NEW x, x = Padded(indices, n), Nodes(x, n), NEW y, y = Padded(sigs, n)
    PROVE  /\ CombineSignatures(sigs, indices) \in Scalar
           /\ Cong(CombineSignatures(sigs, indices), Interpolate(x, 1..n, n, y))
  <1> DEFINE I == 1..n
             v == Weighted(x, I, n, y)
             Right(a, k) == a \in Scalar /\ Cong(a, Total(v, k))
  <1>1. y \in Numbers /\ \A j \in 1..n : y[j] = sigs[j]
    BY DEF Padded, Numbers
  <1>2. v \in Numbers /\ \A j \in 1..n : v[j] = y[j] * Weight(x, I, n, j)
    <2>1. v \in Numbers
      BY <1>1, WeightedNumbers
    <2> QED
      BY <2>1 DEF Weighted
  <1> HIDE DEF v
  <1>3. PICK h : /\ CombineSignatures(sigs, indices) = h[1..n]
                 /\ h[1..0] = 0
                 /\ \A k \in 1..n : h[1..k] = CombineStep(h[1..(k - 1)], k, sigs, indices)
    BY CombineSteps
  <1> DEFINE S == {k \in Nat : k <= n => Right(h[1..k], k)}
  <1>4. 0 \in S
    <2>1. Total(v, 0) = 0 /\ 0 \in Scalar /\ Cong(0, 0)
      BY <1>2, TotalStep, CurveOrderAssumption, CongEquivalence DEF Scalar
    <2> QED
      BY <1>3, <2>1
  <1>5. ASSUME NEW k \in Nat, k \in S, k + 1 <= n PROVE Right(h[1..(k + 1)], k + 1)
    <2> DEFINE j == k + 1
               a == h[1..k]
               b == h[1..j]
               q == Total(v, k)
               e == sigs[j]
               l == LagrangeCoefficient(indices, j)
               w == Weight(x, I, n, j)
    <2>1. j \in 1..n /\ j - 1 = k /\ Total(v, k + 1) = Total(v, j)
      BY <1>5
    <2>2. a \in Scalar /\ a \in Int /\ Cong(a, q)
      BY <1>5, CurveOrderAssumption DEF Scalar
    <2>3. q \in Int /\ Total(v, j) = q + v[j]
      BY <1>2, TotalStep
    <2>4. b = CombineStep(a, j, sigs, indices) /\ v[j] = e * w /\ e \in Int
      BY <1>1, <1>2, <1>3, <2>1
    <2> HIDE DEF j, a, q
    <2>5. l \in Int /\ Cong(l, w)
      <3>1. l \in Scalar /\ Cong(l, w)
        BY <2>1, LagrangeCoefficientIsWeight
      <3> QED
        BY <3>1, CurveOrderAssumption DEF Scalar
    <2>6. w \in Int
      BY <2>1, WeightIsQuotient
    <2>7. b \in Int /\ b \in Scalar /\ Cong(b, a + e * l)
      <3>1. Nodes(Padded(indices, n), n)
        OBVIOUS
      <3>2. /\ CombineStep(a, j, sigs, indices) \in Int
            /\ CombineStep(a, j, sigs, indices) \in Scalar
            /\ Cong(CombineStep(a, j, sigs, indices),
                    a + sigs[j] * LagrangeCoefficient(indices, j))
        BY <2>1, <2>2, <3>1, CombineStepType
      <3> QED
        BY <2>4, <3>2
    <2> DEFINE f == e * l
               g == e * w
    <2> HIDE DEF b, e, l, w
    <2>8. Cong(f, g) /\ f \in Int /\ g \in Int
      BY <2>4, <2>5, <2>6, CongTimes
    <2>9. Cong(b, a + f) /\ Total(v, j) = q + g
      BY <2>3, <2>4, <2>7
    <2> HIDE DEF f, g
    <2>10. Cong(a + f, q + g) /\ a + f \in Int /\ q + g \in Int
      BY <2>2, <2>3, <2>8, CongArithmetic
    <2> DEFINE r == a + f
               t == q + g
    <2>11. r \in Int /\ t \in Int /\ Cong(b, r) /\ Cong(r, t)
      BY <2>9, <2>10
    <2> HIDE DEF r, t
    <2>12. Cong(b, t)
      BY <2>7, <2>11, CongEquivalence
    <2> QED
      BY <2>1, <2>7, <2>9, <2>12 DEF b, t, j
  <1>6. \A k \in Nat : k \in S => k + 1 \in S
    BY <1>5
  <1> HIDE DEF S
  <1>7. n \in S
    BY <1>4, <1>6, NaturalsByInduction
  <1> QED
    BY <1>3, <1>7 DEF S, Interpolate, v

-----------------------------------------------------------------------------
(* Shamir: shares combine to the secret *)

\* n different indices of parties, all of them below the curve order.
DistinctIndices(indices, n) ==
    /\ indices \in [1..n -> NonzeroScalar]
    /\ \A i, j \in 1..n : i # j => indices[i] # indices[j]

\* Different scalars are not congruent, and a nonzero one is not congruent to zero.
LEMMA ScalarsApart ==
    ASSUME NEW a \in Scalar, NEW b \in Scalar, a # b
    PROVE  ~Cong(a, b) /\ ~Cong(a - b, 0)
  <1> DEFINE d == a - b
             z == 0
  <1>1. a \in Int /\ b \in Int /\ d \in Int /\ z \in Int /\ d + b = a /\ z + b = b
    BY CurveOrderAssumption DEF Scalar
  <1>2. ~Cong(a, b)
    BY ScalarsDiffer
  <1> HIDE DEF d, z
  <1>3. ASSUME Cong(d, z) PROVE FALSE
    <2>1. Cong(b, b)
      BY <1>1, CongEquivalence
    <2>2. Cong(d + b, z + b)
      BY <1>1, <1>3, <2>1, CongArithmetic
    <2> QED
      BY <1>1, <1>2, <2>2
  <1> QED
    BY <1>2, <1>3 DEF d, z

\* Such indices can be interpolated at.
LEMMA IndicesAreNodes ==
    ASSUME NEW n \in Nat, NEW indices, DistinctIndices(indices, n)
    PROVE  indices \in [1..n -> Int] /\ Nodes(Padded(indices, n), n)
  <1> DEFINE x == Padded(indices, n)
  <1>1. \A i \in 1..n : /\ indices[i] \in Scalar /\ indices[i] # 0 /\ indices[i] \in Int
    BY CurveOrderAssumption DEF DistinctIndices, Scalar, NonzeroScalar
  <1>2. indices \in [1..n -> Int]
    BY <1>1 DEF DistinctIndices
  <1>3. x \in Numbers /\ \A i \in 1..n : x[i] = indices[i]
    BY <1>1 DEF Padded, Numbers
  <1> HIDE DEF x
  <1>4. ASSUME NEW i \in 1..n PROVE ~Cong(x[i], 0)
    <2> DEFINE a == indices[i]
               z == 0
    <2>1. a \in Scalar /\ z \in Scalar /\ a # z
      BY <1>1, CurveOrderAssumption DEF Scalar
    <2> HIDE DEF a, z
    <2>2. ~Cong(a, z)
      BY <2>1, ScalarsApart
    <2> QED
      BY <1>3, <2>2 DEF a, z
  <1>5. ASSUME NEW i \in 1..n, NEW j \in 1..n, i # j PROVE ~Cong(x[j] - x[i], 0)
    <2>1. indices[j] # indices[i]
      BY <1>5 DEF DistinctIndices
    <2>2. ~Cong(indices[j] - indices[i], 0)
      BY <1>1, <2>1, ScalarsApart
    <2> QED
      BY <1>3, <2>2
  <1> QED
    BY <1>2, <1>3, <1>4, <1>5 DEF Nodes, x

\* Values that are congruent interpolate to congruent numbers.
LEMMA InterpolateCong ==
    ASSUME NEW n \in Nat, NEW x, Nodes(x, n), NEW I \in SUBSET (1..n),
           NEW f \in Numbers, NEW g \in Numbers, \A i \in 1..n : Cong(f[i], g[i])
    PROVE  Cong(Interpolate(x, I, n, f), Interpolate(x, I, n, g))
  <1> DEFINE o == 1
             z == 0
             F == Interpolate(x, I, n, f)
             K == Interpolate(x, I, n, g)
  <1>1. o \in Int /\ z \in Int /\ F \in Int /\ K \in Int
    BY WeightedNumbers
  <1>2. \A i \in 1..n : o * g[i] + z * g[i] = g[i]
    BY DEF Numbers
  <1>3. o * K + z * K = K
    BY <1>1
  <1> HIDE DEF o, z
  <1>4. Combines(f, o, g, z, g, n)
    BY <1>2 DEF Combines
  <1>5. Cong(F, o * K + z * K)
    BY <1>1, <1>4, InterpolateLinear
  <1> QED
    BY <1>3, <1>5

\* The points of a polynomial at n indices, with at most n coefficients.
LEMMA PointsInterpolate ==
    ASSUME NEW n \in Nat, NEW indices, DistinctIndices(indices, n),
           NEW m \in 1..n, NEW joint \in [1..m -> Scalar],
           NEW points \in Numbers,
           \A i \in 1..n : points[i] = EvalPolynomial(joint, indices[i])
    PROVE  Cong(Interpolate(Padded(indices, n), 1..n, n, points), joint[1])
  <1> DEFINE x == Padded(indices, n)
             c == Padded(joint, m)
             I == 1..n
             y == PolyValues(c, x, m)
  <1>1. Nodes(x, n) /\ x \in Numbers /\ indices \in [1..n -> Int]
    BY IndicesAreNodes DEF Nodes
  <1>2. joint \in [1..m -> Int] /\ c \in Numbers /\ c[1] = joint[1]
    <2>1. \A k \in 1..m : joint[k] \in Int
      BY CurveOrderAssumption DEF Scalar
    <2> QED
      BY <2>1 DEF Padded, Numbers
  <1>3. ASSUME NEW i \in 1..n PROVE Cong(points[i], y[i])
    <2>1. x[i] = indices[i] /\ indices[i] \in Int
      BY <1>1 DEF Padded
    <2>2. y[i] = Poly(c, x[i], m)
      BY DEF PolyValues
    <2>3. m \in Nat
      OBVIOUS
    <2> HIDE DEF x, y, c
    <2>4. Cong(EvalPolynomial(joint, indices[i]), Poly(c, indices[i], m))
      BY <1>2, <2>1, <2>3, EvalPolynomialValue DEF c
    <2> QED
      BY <2>1, <2>2, <2>4
  <1>4. y \in Numbers
    <2>1. ASSUME NEW i \in Nat PROVE Poly(c, x[i], m) \in Int
      <3>1. x[i] \in Int /\ m \in Nat
        BY <1>1 DEF Numbers
      <3> HIDE DEF x, c
      <3> QED
        BY <1>2, <3>1, PolyStep
    <2> QED
      BY <2>1 DEF PolyValues, Numbers
  <1>5. I \in SUBSET (1..n) /\ Cardinality(I) = n
    BY FS_Interval
  <1>6. Cong(Interpolate(x, I, n, y), c[1])
    <2>1. m \in Nat /\ 0 < m /\ m <= Cardinality(I)
      BY <1>5
    <2> HIDE DEF x, c, I
    <2> QED
      BY <1>1, <1>2, <1>5, <2>1, InterpolatePolynomial
  <1> DEFINE A == Interpolate(x, I, n, points)
             B == Interpolate(x, I, n, y)
             e == c[1]
  <1> HIDE DEF x, y, c, I
  <1>7. Cong(A, B)
    BY <1>1, <1>3, <1>4, <1>5, InterpolateCong
  <1>8. A \in Int /\ B \in Int /\ e \in Int
    BY <1>1, <1>2, <1>4, <1>5, WeightedNumbers DEF Numbers
  <1>9. Cong(B, e)
    BY <1>6
  <1> HIDE DEF A, B, e
  <1>10. Cong(A, e)
    BY <1>7, <1>8, <1>9, CongEquivalence
  <1> QED
    BY <1>2, <1>10 DEF A, e, x, I

\* held are the values of a polynomial at the indices.
SharesAt(held, joint, indices, n) ==
    held \in [1..n -> Int] /\ \A i \in 1..n : held[i] = EvalPolynomial(joint, indices[i])

\* combineSignatures, on the shares of at least as many distinct parties as there are
\* coefficients, gives the secret.
THEOREM SharesCombine ==
    ASSUME NEW n \in Nat, NEW indices, DistinctIndices(indices, n),
           NEW m \in 1..n, NEW joint \in [1..m -> Scalar],
           NEW held, SharesAt(held, joint, indices, n)
    PROVE  CombineSignatures(held, indices) = joint[1]
  <1> DEFINE x == Padded(indices, n)
             y == Padded(held, n)
             a == CombineSignatures(held, indices)
             b == Interpolate(x, 1..n, n, y)
             e == joint[1]
  <1> USE DEF SharesAt
  <1>1. Nodes(x, n) /\ indices \in [1..n -> Int]
    BY IndicesAreNodes
  <1>2. y \in Numbers /\ \A i \in 1..n : y[i] = EvalPolynomial(joint, indices[i])
    BY DEF Padded, Numbers
  <1>3. b \in Int
    <2> HIDE DEF x, y
    <2> QED
      BY <1>1, <1>2, WeightedNumbers
  <1>4. a \in Scalar /\ Cong(a, b)
    <2>1. x = Padded(indices, n) /\ y = Padded(held, n)
      OBVIOUS
    <2> HIDE DEF x, y
    <2> QED
      BY <1>1, <2>1, CombineInterpolates
  <1>5. Cong(b, e)
    <2> HIDE DEF y
    <2> QED
      BY <1>2, PointsInterpolate
  <1>6. e \in Scalar /\ e \in Int /\ a \in Int
    BY <1>4, CurveOrderAssumption DEF Scalar
  <1> HIDE DEF a, b, e
  <1>7. Cong(a, e)
    BY <1>3, <1>4, <1>5, <1>6, CongEquivalence
  <1>8. a = e
    BY <1>4, <1>6, <1>7, ScalarsDiffer
  <1> QED
    BY <1>8 DEF a, e

-----------------------------------------------------------------------------
(* Partial signatures for a common nonce *)

\* A nonzero scalar has an inverse.
LEMMA NonzeroInverse ==
    ASSUME NEW k \in NonzeroScalar
    PROVE  /\ k \in Int /\ k \in Scalar /\ ~Cong(k, 0)
           /\ ModInverseOrder(k) \in Int /\ Cong(ModInverseOrder(k) * k, 1)
  <1> DEFINE z == 0
  <1>1. k \in Scalar /\ z \in Scalar /\ k # z /\ k \in Int
    BY CurveOrderAssumption DEF Scalar, NonzeroScalar
  <1> HIDE DEF z
  <1>2. ~Cong(k, z)
    BY <1>1, ScalarsApart
  <1>3. ~Cong(k, 0)
    BY <1>2 DEF z
  <1> QED
    BY <1>1, <1>3, InverseWorks

\* A partial signature is linear in the share.
LEMMA PartialSignatureValue ==
    ASSUME NEW k \in NonzeroScalar, NEW r \in Int, NEW z \in Int, NEW share \in Int,
           NEW w, w = ModInverseOrder(k)
    PROVE  /\ PartialSignature(k, r, z, share) \in Scalar
           /\ Cong(PartialSignature(k, r, z, share), w * (z + r * share))
           /\ w * (z + r * share) \in Int
           /\ w * (z + r * share) = (w * z) * 1 + (w * r) * share
  <1> DEFINE e == r * share
             f == ModN(e)
             g == z + f
             h == ModN(g)
             s == ModN(w * h)
  <1>1. w \in Int
    BY NonzeroInverse
  <1>2. e \in Int
    OBVIOUS
  <1>3. f \in Int /\ Cong(f, e)
    <2> HIDE DEF e
    <2> QED
      BY <1>2, ReducedIsNumber
  <1>4. g \in Int /\ h \in Int /\ Cong(h, g)
    <2> HIDE DEF f
    <2>1. g \in Int
      BY <1>3
    <2> HIDE DEF g
    <2> QED
      BY <2>1, ReducedIsNumber
  <1>5. w * h \in Int /\ s \in Scalar /\ s \in Int /\ Cong(s, w * h)
    <2> HIDE DEF h
    <2> DEFINE b == w * h
    <2>1. b \in Int
      BY <1>1, <1>4
    <2> HIDE DEF b
    <2>2. ModN(b) \in Int /\ ModN(b) \in Scalar /\ Cong(ModN(b), b)
      BY <2>1, ReducedIsNumber
    <2> QED
      BY <2>1, <2>2 DEF b
  <1>6. PartialSignature(k, r, z, share) = s
    BY DEF PartialSignature
  <1> HIDE DEF h, s
  <1>7. Cong(h, z + e) /\ z + e \in Int
    <2> DEFINE a == z + e
    <2> HIDE DEF e, f
    <2>1. Cong(z, z) /\ a \in Int
      BY <1>2, CongEquivalence
    <2>2. Cong(g, a)
      BY <1>2, <1>3, <2>1, CongArithmetic
    <2> HIDE DEF g, a
    <2>3. Cong(h, a)
      BY <1>4, <2>1, <2>2, CongEquivalence
    <2> QED
      BY <2>1, <2>3 DEF a
  <1>8. Cong(s, w * (z + e)) /\ w * (z + e) \in Int
    <2> DEFINE a == z + e
               b == w * h
               c == w * a
    <2> HIDE DEF a
    <2>1. Cong(b, c) /\ b \in Int /\ c \in Int
      BY <1>1, <1>4, <1>7, CongTimes DEF a
    <2>2. Cong(s, b)
      BY <1>5
    <2> HIDE DEF b, c
    <2>3. Cong(s, c)
      BY <1>5, <2>1, <2>2, CongEquivalence
    <2> QED
      BY <2>1, <2>3 DEF a, c
  <1>9. w * (z + e) = (w * z) * 1 + (w * r) * share
    BY <1>1
  <1> QED
    BY <1>5, <1>6, <1>8, <1>9

\* sigs are the partial signatures of the holders of such values.
SignaturesAt(sigs, joint, indices, n, k, r, z) ==
    /\ sigs \in [1..n -> Int]
    /\ \A i \in 1..n : sigs[i] = PartialSignature(k, r, z, EvalPolynomial(joint, indices[i]))

\* combineSignatures, on what generatePartialSignature makes of such shares for one nonce,
\* gives what the undivided key would sign.
THEOREM PartialSignaturesCombine ==
    ASSUME NEW n \in Nat, NEW indices, DistinctIndices(indices, n),
           NEW m \in 1..n, NEW joint \in [1..m -> Scalar],
           NEW k \in NonzeroScalar, NEW r \in Int, NEW z \in Int,
           NEW sigs, SignaturesAt(sigs, joint, indices, n, k, r, z)
    PROVE  CombineSignatures(sigs, indices) = PartialSignature(k, r, z, joint[1])
  <1> DEFINE x == Padded(indices, n)
             y == Padded(sigs, n)
             held == [i \in Nat |-> IF i \in 1..n THEN EvalPolynomial(joint, indices[i]) ELSE 0]
             w == ModInverseOrder(k)
             c == w * z
             d == w * r
             I == 1..n
             a == CombineSignatures(sigs, indices)
             b == Interpolate(x, I, n, y)
             o == Interpolate(x, I, n, Ones)
             p == Interpolate(x, I, n, held)
             j == joint[1]
             s == PartialSignature(k, r, z, j)
  <1> USE DEF SignaturesAt
  <1>1. Nodes(x, n) /\ indices \in [1..n -> Int] /\ I \in SUBSET (1..n) /\ I # {}
    BY IndicesAreNodes
  <1>2. w \in Int /\ c \in Int /\ d \in Int
    <2>1. w \in Int
      BY NonzeroInverse
    <2> HIDE DEF w
    <2> QED
      BY <2>1
  <1>3. m \in Nat /\ joint \in [1..m -> Int] /\ j \in Int
    BY CurveOrderAssumption DEF Scalar
  <1>4. \A i \in 1..n : EvalPolynomial(joint, indices[i]) \in Int
    <2>1. ASSUME NEW i \in 1..n PROVE EvalPolynomial(joint, indices[i]) \in Scalar
      <3>1. indices[i] \in Int
        BY <1>1
      <3> QED
        BY <1>3, <3>1, EvalPolynomialValue
    <2> QED
      BY <2>1, CurveOrderAssumption DEF Scalar
  <1>5. /\ held \in Numbers /\ \A i \in 1..n : held[i] = EvalPolynomial(joint, indices[i])
    BY <1>4 DEF Numbers
  <1>6. y \in Numbers /\ \A i \in 1..n : y[i] = sigs[i]
    BY DEF Padded, Numbers
  <1>7. Ones \in Numbers /\ \A i \in 1..n : Ones[i] = 1
    BY DEF Ones, Numbers
  <1>8. a \in Scalar /\ a \in Int /\ Cong(a, b)
    <2>1. x = Padded(indices, n) /\ y = Padded(sigs, n)
      OBVIOUS
    <2> HIDE DEF x, y
    <2>2. a \in Scalar /\ Cong(a, b)
      BY <1>1, <2>1, CombineInterpolates
    <2> HIDE DEF a
    <2> QED
      BY <2>2, CurveOrderAssumption DEF Scalar
  <1>9. Cong(p, j)
    <2> HIDE DEF held
    <2> QED
      BY <1>5, PointsInterpolate
  <1> HIDE DEF x, y, held, I, j
  <1>10. Cong(o, 1)
    BY <1>1, WeightsAddUp DEF I
  <1>11. b \in Int /\ o \in Int /\ p \in Int
    BY <1>1, <1>5, <1>6, <1>7, WeightedNumbers
  <1>12. Combines(y, c, Ones, d, held, n)
    <2>1. ASSUME NEW i \in 1..n PROVE Cong(y[i], c * Ones[i] + d * held[i])
      <3> DEFINE v == held[i]
      <3>1. v \in Int /\ y[i] = PartialSignature(k, r, z, v)
        BY <1>4, <1>5, <1>6
      <3>2. w = ModInverseOrder(k)
        OBVIOUS
      <3> HIDE DEF v, w
      <3>3. /\ Cong(PartialSignature(k, r, z, v), w * (z + r * v))
            /\ w * (z + r * v) = (w * z) * 1 + (w * r) * v
        BY <3>1, <3>2, PartialSignatureValue
      <3>4. c * Ones[i] + d * v = w * (z + r * v)
        BY <1>7, <3>3
      <3> QED
        BY <3>1, <3>3, <3>4 DEF v
    <2> QED
      BY <2>1 DEF Combines
  <1> HIDE DEF c, d
  <1>13. Cong(b, c * o + d * p)
    BY <1>1, <1>2, <1>5, <1>6, <1>7, <1>12, InterpolateLinear
  <1>14. s \in Scalar /\ s \in Int /\ Cong(s, c * 1 + d * j)
    <2>1. w = ModInverseOrder(k)
      OBVIOUS
    <2> HIDE DEF w
    <2>2. /\ s \in Scalar /\ Cong(s, w * (z + r * j))
          /\ w * (z + r * j) = (w * z) * 1 + (w * r) * j
      <3>1. j \in Int
        BY <1>3
      <3>2. PartialSignature(k, r, z, j) \in Scalar
        BY <2>1, <3>1, PartialSignatureValue
      <3>3. Cong(PartialSignature(k, r, z, j), w * (z + r * j))
        BY <2>1, <3>1, PartialSignatureValue
      <3>4. w * (z + r * j) = (w * z) * 1 + (w * r) * j
        BY <1>2, <3>1
      <3> QED
        BY <3>2, <3>3, <3>4
    <2>3. Cong(s, c * 1 + d * j)
      BY <2>2 DEF c, d
    <2> HIDE DEF s
    <2> QED
      BY <2>2, <2>3, CurveOrderAssumption DEF Scalar
  <1> DEFINE q == 1
             co == c * o
             cq == c * q
             dp == d * p
             dj == d * j
  <1>15. q \in Int /\ Cong(o, q)
    BY <1>10
  <1> HIDE DEF a, b, o, p, s, q
  <1>16. Cong(co, cq) /\ co \in Int /\ cq \in Int
    BY <1>2, <1>11, <1>15, CongTimes
  <1>17. Cong(dp, dj) /\ dp \in Int /\ dj \in Int
    BY <1>2, <1>3, <1>9, <1>11, CongTimes DEF p
  <1>18. Cong(b, co + dp) /\ Cong(s, cq + dj)
    BY <1>13, <1>14 DEF q, o, p
  <1> HIDE DEF co, cq, dp, dj
  <1> DEFINE t == co + dp
             u == cq + dj
  <1>19. Cong(t, u) /\ t \in Int /\ u \in Int
    BY <1>16, <1>17, CongArithmetic
  <1>20. Cong(b, t) /\ Cong(s, u)
    BY <1>18
  <1> HIDE DEF t, u
  <1>21. Cong(u, s) /\ Cong(b, u)
    BY <1>11, <1>14, <1>19, <1>20, CongEquivalence
  <1>22. Cong(b, s)
    BY <1>11, <1>14, <1>19, <1>21, CongEquivalence
  <1>23. Cong(a, s)
    BY <1>8, <1>11, <1>14, <1>22, CongEquivalence DEF b
  <1>24. a = s
    BY <1>8, <1>14, <1>23, ScalarsDiffer
  <1> QED
    BY <1>24 DEF a, s, j

-----------------------------------------------------------------------------
(* Verification *)

\* verifySignatureSecp256k1 accepts the signature of the undivided key unless its s is zero.
THEOREM SignatureVerifies ==
    ASSUME NEW x \in Scalar, NEW z \in Scalar, NEW k \in NonzeroScalar,
           PartialSignature(k, XCoordinate(k), z, x) # 0
    PROVE  ECDSAVerify(x, z, XCoordinate(k), PartialSignature(k, XCoordinate(k), z, x))
  <1> DEFINE r == XCoordinate(k)
             s == PartialSignature(k, r, z, x)
             w == ModInverseOrder(k)
             u == ModInverseOrder(s)
             h == r * x
             g == z + h
             o == 1
             zero == 0
  <1>1. k \in Int /\ k \in Scalar /\ ~Cong(k, 0) /\ w \in Int /\ Cong(w * k, 1)
    BY NonzeroInverse
  <1>2. x \in Int /\ z \in Int /\ o \in Int /\ zero \in Int /\ zero \in Scalar
    BY CurveOrderAssumption DEF Scalar
  <1>3. r \in Scalar /\ r \in Int /\ r # 0
    <2> DEFINE q == k * k
    <2>1. q \in Int /\ ~Cong(q, 0)
      BY <1>1, NonzeroProduct
    <2>2. r = q % CURVE_ORDER
      BY DEF XCoordinate
    <2> HIDE DEF q, r, zero
    <2>3. r \in Scalar /\ Cong(r, q)
      BY <2>1, <2>2, Remainders
    <2>4. r \in Int
      BY <2>3, CurveOrderAssumption DEF Scalar
    <2>5. Cong(q, r)
      BY <2>1, <2>3, <2>4, CongEquivalence
    <2> QED
      BY <2>1, <2>3, <2>4, <2>5
  <1> HIDE DEF r
  <1>4. h \in Int /\ g \in Int
    BY <1>2, <1>3
  <1>5. s \in Scalar /\ s \in Int /\ Cong(s, w * g) /\ w * g \in Int
    <2>1. w = ModInverseOrder(k)
      OBVIOUS
    <2> HIDE DEF w
    <2>2. /\ s \in Scalar /\ Cong(s, w * (z + r * x)) /\ w * (z + r * x) \in Int
      BY <1>2, <1>3, <2>1, PartialSignatureValue
    <2> HIDE DEF s
    <2> QED
      BY <2>2, CurveOrderAssumption DEF Scalar
  <1>6. s # 0 /\ s \in NonzeroScalar
    BY <1>5, CurveOrderAssumption DEF Scalar, NonzeroScalar, r
  <1> HIDE DEF s
  <1>7. u \in Int /\ Cong(u * s, 1)
    BY <1>6, NonzeroInverse
  <1> HIDE DEF w, u, g, h, o
  \* s k = g
  <1>8. Cong(s * k, g) /\ s * k \in Int
    <2> DEFINE a == w * g
               b == s * k
               c == a * k
               d == w * k
               e == g * d
               f == g * o
    <2>1. a \in Int /\ b \in Int /\ c \in Int /\ d \in Int /\ e \in Int /\ f \in Int
      BY <1>1, <1>2, <1>4, <1>5
    <2>2. c = e /\ f = g
      <3>1. c = e
        BY <1>1, <1>4
      <3>2. f = g
        BY <1>4 DEF o
      <3> QED
        BY <3>1, <3>2
    <2>3. Cong(b, c)
      <3>1. Cong(k * s, k * a) /\ k * s = b /\ k * a = c
        <4> HIDE DEF a
        <4>1. Cong(s, a)
          BY <1>5 DEF a
        <4>2. Cong(k * s, k * a)
          BY <1>1, <1>5, <2>1, <4>1, CongTimes
        <4> QED
          BY <1>1, <1>5, <2>1, <4>2
      <3> HIDE DEF b, c
      <3> QED
        BY <3>1
    <2>4. Cong(e, f)
      <3>1. Cong(d, o)
        BY <1>1 DEF o
      <3> HIDE DEF d
      <3> QED
        BY <1>2, <1>4, <2>1, <3>1, CongTimes
    <2> HIDE DEF a, b, c, d, e, f
    <2>5. Cong(b, g)
      BY <1>4, <2>1, <2>2, <2>3, <2>4, CongEquivalence
    <2> QED
      BY <2>1, <2>5 DEF b
  \* u g = k
  <1>9. Cong(u * g, k) /\ u * g \in Int
    <2> DEFINE a == s * k
               b == u * g
               c == u * a
               d == u * s
               e == k * d
               f == k * o
    <2>1. a \in Int /\ b \in Int /\ c \in Int /\ d \in Int /\ e \in Int /\ f \in Int
      BY <1>1, <1>2, <1>4, <1>5, <1>7
    <2>2. c = e /\ f = k
      <3>1. c = e
        BY <1>1, <1>5, <1>7
      <3>2. f = k
        BY <1>1 DEF o
      <3> QED
        BY <3>1, <3>2
    <2>3. Cong(c, b)
      <3> HIDE DEF a
      <3>1. Cong(a, g)
        BY <1>8 DEF a
      <3> QED
        BY <1>4, <1>7, <2>1, <3>1, CongTimes
    <2>4. Cong(e, f)
      <3>1. Cong(d, o)
        BY <1>7 DEF o
      <3> HIDE DEF d
      <3> QED
        BY <1>1, <1>2, <2>1, <3>1, CongTimes
    <2> HIDE DEF a, b, c, d, e, f
    <2>5. Cong(b, c)
      BY <2>1, <2>3, CongEquivalence
    <2>6. Cong(b, k)
      BY <1>1, <2>1, <2>2, <2>4, <2>5, CongEquivalence
    <2> QED
      BY <2>1, <2>6 DEF b
  <1> DEFINE zu == z * u
             ru == r * u
             a == ModN(zu)
             b == ModN(ru)
             bx == b * x
             c == ModN(bx)
             ac == a + c
             R == ModN(ac)
  <1>10. zu \in Int /\ ru \in Int
    BY <1>2, <1>3, <1>7
  <1>11. a \in Int /\ Cong(a, zu) /\ b \in Int /\ Cong(b, ru)
    <2> HIDE DEF zu, ru
    <2> QED
      BY <1>10, ReducedIsNumber
  <1> HIDE DEF a, b
  <1>12. bx \in Int /\ Cong(bx, x * ru) /\ x * ru \in Int
    <2> HIDE DEF ru
    <2>1. x * b = bx
      BY <1>2, <1>11
    <2>2. Cong(x * b, x * ru) /\ x * b \in Int /\ x * ru \in Int
      BY <1>2, <1>10, <1>11, CongTimes
    <2> HIDE DEF bx
    <2> QED
      BY <2>1, <2>2
  <1> HIDE DEF bx
  <1>13. c \in Int /\ Cong(c, bx)
    BY <1>12, ReducedIsNumber
  <1> HIDE DEF c
  <1>14. ac \in Int
    BY <1>11, <1>13
  <1>15. R \in Int /\ R \in Scalar /\ Cong(R, ac)
    <2> HIDE DEF ac
    <2> QED
      BY <1>14, ReducedIsNumber
  <1> HIDE DEF R
  <1> DEFINE v == x * ru
             ug == u * g
  <1>16. zu + v = ug
    BY <1>2, <1>3, <1>7 DEF g, h
  <1>17. v \in Int /\ ug \in Int /\ Cong(ug, k) /\ Cong(bx, v)
    BY <1>9, <1>12
  <1> HIDE DEF zu, ru, v, ug
  <1>18. Cong(c, v)
    BY <1>12, <1>13, <1>17, CongEquivalence
  <1>19. Cong(ac, ug)
    <2>1. Cong(a + c, zu + v)
      BY <1>10, <1>11, <1>13, <1>17, <1>18, CongArithmetic
    <2> QED
      BY <1>16, <2>1
  <1> HIDE DEF ac
  <1>20. Cong(R, ug)
    BY <1>14, <1>15, <1>17, <1>19, CongEquivalence
  <1>21. Cong(R, k)
    BY <1>1, <1>15, <1>17, <1>20, CongEquivalence
  <1>22. R = k
    BY <1>1, <1>15, <1>21, ScalarsDiffer
  <1>23. k # 0
    BY CurveOrderAssumption DEF NonzeroScalar
  <1>24. R = ModN(ModN(z * u) + ModN(ModN(r * u) * x))
    BY Zenon DEF R, ac, a, c, bx, b, zu, ru
  <1>25. ModN(ModN(z * u) + ModN(ModN(r * u) * x)) # 0
         /\ XCoordinate(ModN(ModN(z * u) + ModN(ModN(r * u) * x))) = r
    BY <1>22, <1>23, <1>24 DEF r
  <1>26. ECDSAVerify(x, z, r, s)
    BY <1>3, <1>6, <1>25, Zenon DEF ECDSAVerify, u
  <1> QED
    BY <1>26 DEF r, s

-----------------------------------------------------------------------------
(* Loops written as recursive functions *)

\* f[x] is base[x] when the measure m is zero, and else the result of the loop from next[x].
IsLoop(f, X, m, base, next) ==
    \A x \in X : f[x] = IF m[x] = 0 THEN base[x] ELSE f[next[x]]

\* A loop whose measure m goes down defines a function.
LEMMA TailRecursion ==
    ASSUME NEW X, NEW V, NEW m \in [X -> Nat], NEW base \in [X -> V], NEW next \in [X -> X],
           \A x \in X : m[x] # 0 => m[next[x]] < m[x]
    PROVE  \E f \in [X -> V] : IsLoop(f, X, m, base, next)
  <1> DEFINE F == [y \in X \X V |-> y[2]]
  <1>1. F \in [X \X V -> V]
    OBVIOUS
  <1>2. \A x \in X, v \in V : F[<<x, v>>] = v
    OBVIOUS
  <1> HIDE DEF F
  <1>3. PICK f \in [X -> V] : IsRecursive(f, X, m, base, next, F)
    BY <1>1, RecursionExists
  <1>4. ASSUME NEW x \in X PROVE f[x] = IF m[x] = 0 THEN base[x] ELSE f[next[x]]
    <2>1. F[<<x, f[next[x]]>>] = f[next[x]]
      BY <1>2
    <2> QED
      BY <1>3, <2>1 DEF IsRecursive
  <1> QED
    BY <1>4 DEF IsLoop

\* The invariant I of a loop holds where it ends, so its result is in R.
LEMMA LoopKeeps ==
    ASSUME NEW X, NEW m \in [X -> Nat], NEW next \in [X -> X], NEW f,
           \A x \in X : m[x] # 0 => m[next[x]] < m[x] /\ f[x] = f[next[x]],
           NEW I \in SUBSET X, \A x \in I : m[x] # 0 => next[x] \in I,
           NEW R, \A x \in I : m[x] = 0 => f[x] \in R
    PROVE  \A x \in I : f[x] \in R
  <1> DEFINE Bad == {n \in Nat : \E x \in I : m[x] = n /\ f[x] \notin R}
  <1>1. ASSUME Bad # {} PROVE FALSE
    <2>1. PICK n \in Bad : \A k \in Bad : n <= k
      BY <1>1, LeastNatural
    <2>2. PICK x \in I : m[x] = n /\ f[x] \notin R
      OBVIOUS
    <2>3. m[x] # 0 /\ next[x] \in I
      BY <2>2
    <2>4. m[next[x]] < n /\ f[next[x]] \notin R /\ m[next[x]] \in Nat
      BY <2>2, <2>3
    <2> QED
      BY <2>1, <2>3, <2>4
  <1> QED
    BY <1>1

-----------------------------------------------------------------------------
(* Divisors *)

\* What divides a number divides its multiples.
LEMMA DividesMultiple ==
    ASSUME NEW d \in Int, NEW a \in Int, NEW k \in Int, Divides(d, a)
    PROVE  Divides(d, k * a)
  <1>1. PICK i \in Int : a = i * d
    BY DEF Divides
  <1>2. k * a = (k * i) * d /\ k * i \in Int
    BY <1>1
  <1> QED
    BY <1>2 DEF Divides

\* What divides two numbers divides their sum and their difference.
LEMMA DividesSum ==
    ASSUME NEW d \in Int, NEW a \in Int, NEW b \in Int, Divides(d, a), Divides(d, b)
    PROVE  Divides(d, a + b) /\ Divides(d, a - b)
  <1>1. PICK i \in Int : a = i * d
    BY DEF Divides
  <1>2. PICK j \in Int : b = j * d
    BY DEF Divides
  <1>3. a + b = (i + j) * d /\ a - b = (i - j) * d
    <2>1. i * d + j * d = (i + j) * d /\ i * d - j * d = (i - j) * d
      OBVIOUS
    <2> QED
      BY <1>1, <1>2, <2>1, Zenon
  <1>4. i + j \in Int /\ i - j \in Int
    OBVIOUS
  <1> QED
    BY <1>3, <1>4, Zenon DEF Divides

\* Reduction modulo a multiple of d changes nothing in divisibility by d.
LEMMA DividesRemainder ==
    ASSUME NEW d \in Int, NEW m \in Nat, m > 0, Divides(d, m), NEW a \in Nat
    PROVE  /\ a % m \in 0..(m - 1)
           /\ Divides(d, a % m) <=> Divides(d, a)
  <1> DEFINE q == a \div m
             r == a % m
  <1>1. a = m * q + r /\ q \in Int /\ r \in Nat /\ r < m
    OBVIOUS
  <1> HIDE DEF q, r
  <1>2. q * m \in Int /\ a = q * m + r /\ r = a - q * m
    <2>1. q * m = m * q /\ q * m \in Int
      BY <1>1
    <2> QED
      BY <1>1, <2>1
  <1> DEFINE n == q * m
  <1>3. n \in Int /\ a = n + r /\ r = a - n /\ r \in Int
    BY <1>1, <1>2
  <1>4. Divides(d, n)
    BY <1>1, DividesMultiple
  <1> HIDE DEF n
  <1>5. Divides(d, r) => Divides(d, a)
    BY <1>3, <1>4, DividesSum
  <1>6. Divides(d, a) => Divides(d, r)
    BY <1>3, <1>4, DividesSum
  <1> QED
    BY <1>1, <1>5, <1>6 DEF r

\* Every d divides zero, and the number d itself.
LEMMA DividesTrivially ==
    ASSUME NEW d \in Int
    PROVE  Divides(d, 0) /\ Divides(d, d)
  <1>1. 0 = 0 * d /\ d = 1 * d
    OBVIOUS
  <1> QED
    BY <1>1 DEF Divides

\* The primes as PrimesAssumption says it.
Prime(p) == p > 1 /\ \A d \in 2..(p - 1) : p % d # 0

\* A prime that divides a product divides a factor.
LEMMA PrimeDividesFactor ==
    ASSUME NEW p \in Nat, Prime(p), NEW a \in Int, NEW b \in Nat, Divides(p, a * b)
    PROVE  Divides(p, a) \/ Divides(p, b)
  <1> DEFINE S == {k \in Nat : k > 0 /\ Divides(p, a * k)}
  <1>1. ASSUME b = 0 PROVE Divides(p, b)
    BY <1>1, DividesTrivially
  <1>2. p \in S
    <2>1. Divides(p, a * p)
      BY DEF Divides
    <2> QED
      BY <2>1 DEF Prime
  <1>3. PICK g \in S : \A k \in S : g <= k
    <2> HIDE DEF S
    <2>1. S \in SUBSET Nat
      BY DEF S
    <2> QED
      BY <1>2, <2>1, LeastNatural
  <1>4. ASSUME NEW k \in S PROVE Divides(g, k)
    <2> DEFINE q == k \div g
               r == k % g
    <2>1. k = g * q + r /\ q \in Int /\ r \in Nat /\ r < g
      BY <1>3
    <2> HIDE DEF q, r
    <2>2. a * r = a * k - q * (a * g)
      <3>1. \A x, y, z, w \in Int : w = x * y + z => a * z = a * w - y * (a * x)
        OBVIOUS
      <3> QED
        BY <1>3, <1>4, <2>1, <3>1
    <2>3. Divides(p, a * r)
      <3> DEFINE u == a * k
                 v == a * g
                 w == q * v
      <3>1. u \in Int /\ v \in Int /\ w \in Int /\ Divides(p, u) /\ Divides(p, v)
        BY <1>3, <1>4, <2>1
      <3> HIDE DEF u, v
      <3>2. Divides(p, w)
        BY <2>1, <3>1, DividesMultiple
      <3> HIDE DEF w
      <3>3. Divides(p, u - w)
        BY <3>1, <3>2, DividesSum
      <3> QED
        BY <2>2, <3>3 DEF u, v, w
    <2>4. r = 0
      BY <1>3, <2>1, <2>3
    <2>5. k = q * g
      BY <1>3, <1>4, <2>1, <2>4
    <2> QED
      BY <2>1, <2>5 DEF Divides
  <1>5. g = 1 \/ g = p
    <2>1. PICK i \in Int : p = i * g
      BY <1>2, <1>4 DEF Divides
    <2>2. p % g = 0
      <3>1. (i * g) % g = 0
        BY <1>3, MultipleHasNoRemainder
      <3> QED
        BY <2>1, <3>1
    <2>3. g <= p /\ g \in Nat /\ g > 0
      BY <1>2, <1>3
    <2> HIDE DEF S
    <2>4. ASSUME g # 1, g # p PROVE FALSE
      <3>1. g \in 2..(p - 1)
        BY <2>3, <2>4 DEF Prime
      <3> QED
        BY <2>2, <3>1 DEF Prime
    <2> QED
      BY <2>4
  <1>6. g = 1 => Divides(p, a)
    <2>1. a * 1 = a
      OBVIOUS
    <2> QED
      BY <1>3, <2>1
  <1>7. b # 0 => b \in S
    OBVIOUS
  <1> QED
    BY <1>1, <1>4, <1>5, <1>6, <1>7

=============================================================================
