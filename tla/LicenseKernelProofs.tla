------------------------- MODULE LicenseKernelProofs -------------------------
(***************************************************************************)
(* Proofs that, for all licences, machines, byte sizes and clock bounds,   *)
(* a signature vouches for every term of a licence, and what the kernel    *)
(* installs, binds and puts its heartbeat tokens on is what was signed.    *)
(*                                                                         *)
(* A signature covers bytes.  So the first half is about packing: words    *)
(* that cannot be continued to one another can be cut out of their         *)
(* concatenation in one way only, the fields of the serializer are such    *)
(* words, and numbers below Byte^4 are told apart by their bytes.          *)
(***************************************************************************)
EXTENDS LicenseKernel, WellFoundedInduction, TLAPS

-----------------------------------------------------------------------------
(* Definitions by recursion over the naturals *)

\* A nonempty set of naturals has a least element.
LEMMA LeastNatural ==
    ASSUME NEW S \in SUBSET Nat, S # {}
    PROVE  \E n \in S : \A m \in S : n <= m
  <1>1. PICK n \in S : \A m \in S : ~(<<m, n>> \in OpToRel(<, Nat))
    BY WFMin, NatLessThanWellFounded
  <1>2. ASSUME NEW m \in Nat, NEW k \in Nat, m < k
        PROVE  <<m, k>> \in OpToRel(<, Nat)
    <2> DEFINE pair == <<m, k>>
    <2>1. pair \in Nat \X Nat /\ pair[1] = m /\ pair[2] = k
      OBVIOUS
    <2> HIDE DEF pair
    <2>2. pair[1] < pair[2]
      BY <1>2, <2>1
    <2>3. pair \in OpToRel(<, Nat)
      BY <2>1, <2>2, Zenon DEF OpToRel
    <2> QED
      BY <2>3 DEF pair
  <1>3. ASSUME NEW m \in S PROVE ~(m < n)
    BY <1>1, <1>2
  <1> QED
    BY <1>3

\* G has 0 and, with a natural, the next one.
Inductive(G) == 0 \in G /\ \A n \in Nat : n \in G => n + 1 \in G

\* Such a set has every natural.
LEMMA NaturalsInInductive ==
    ASSUME NEW G, Inductive(G)
    PROVE  Nat \subseteq G
  <1> DEFINE Bad == Nat \ G
  <1>1. SUFFICES ASSUME Bad # {} PROVE FALSE
    OBVIOUS
  <1>2. PICK n \in Bad : \A m \in Bad : n <= m
    <2>1. Bad \in SUBSET Nat
      OBVIOUS
    <2> HIDE DEF Bad
    <2> QED
      BY <1>1, <2>1, LeastNatural
  <1>3. n \in Nat /\ n # 0 /\ n \notin G
    BY DEF Inductive
  <1>4. n - 1 \in Nat /\ n - 1 \in G
    BY <1>2, <1>3
  <1>5. (n - 1) + 1 \in G
    BY <1>4 DEF Inductive
  <1> QED
    BY <1>3, <1>5

\* f starts with base and goes on with F.
IsRecursion(f, D, base, F) == \A n \in D : f[n] = IF n = 0 THEN base ELSE F[<<n, f[n - 1]>>]

\* Primitive recursion over the naturals defines a function.
LEMMA RecursionExists ==
    ASSUME NEW V, NEW base \in V, NEW F \in [Nat \X V -> V]
    PROVE  \E f \in [Nat -> V] : IsRecursion(f, Nat, base, F)
  <1> DEFINE Upto(n) == {f \in [0..n -> V] : IsRecursion(f, 0..n, base, F)}
             G == {n \in Nat : Upto(n) # {}}
  <1>1. 0 \in G
    <2>1. [i \in 0..0 |-> base] \in Upto(0)
      BY DEF IsRecursion
    <2> QED
      BY <2>1
  <1>2. ASSUME NEW n \in Nat, n \in G PROVE n + 1 \in G
    <2>1. PICK f \in [0..n -> V] : IsRecursion(f, 0..n, base, F)
      BY <1>2
    <2> DEFINE g == [i \in 0..(n + 1) |-> IF i = n + 1 THEN F[<<n + 1, f[n]>>] ELSE f[i]]
    <2>2. F[<<n + 1, f[n]>>] \in V
      BY <2>1
    <2>3. g \in [0..(n + 1) -> V]
      BY <2>2
    <2>4. ASSUME NEW i \in 0..(n + 1)
          PROVE  g[i] = IF i = 0 THEN base ELSE F[<<i, g[i - 1]>>]
      <3>1. CASE i = n + 1
        <4>1. /\ i # 0 /\ i - 1 = n /\ n \in 0..(n + 1) /\ n # n + 1
              /\ g[n] = f[n] /\ g[i] = F[<<n + 1, f[n]>>]
          BY <3>1
        <4> HIDE DEF g
        <4> QED
          BY <3>1, <4>1
      <3>2. CASE i # n + 1
        <4>1. i \in 0..n /\ g[i] = f[i] /\ (i # 0 => g[i - 1] = f[i - 1])
          BY <3>2
        <4> QED
          BY <2>1, <4>1 DEF IsRecursion
      <3> QED
        BY <3>1, <3>2
    <2>5. IsRecursion(g, 0..(n + 1), base, F)
      <3> HIDE DEF g
      <3> QED
        BY <2>4 DEF IsRecursion
    <2>6. g \in Upto(n + 1) /\ n + 1 \in Nat
      BY <2>3, <2>5
    <2> QED
      BY <2>6
  <1>3. \A n \in Nat : Upto(n) # {}
    <2>1. Inductive(G)
      BY <1>1, <1>2 DEF Inductive
    <2>2. Nat \subseteq G
      <3> HIDE DEF G
      <3> QED
        BY <2>1, NaturalsInInductive
    <2> QED
      BY <2>2
  <1> DEFINE h == [n \in Nat |-> CHOOSE f : f \in Upto(n)]
             f == [n \in Nat |-> h[n][n]]
  <1>4. ASSUME NEW n \in Nat PROVE h[n] \in Upto(n)
    <2> HIDE DEF Upto
    <2>1. \E g : g \in Upto(n)
      BY <1>3
    <2>2. h[n] = CHOOSE g : g \in Upto(n)
      OBVIOUS
    <2> HIDE DEF h
    <2> QED
      BY <2>1, <2>2, Zenon
  <1>5. \A n \in Nat, m \in Nat : m <= n => h[m][m] = h[n][m]
    <2> SUFFICES ASSUME NEW n \in Nat
                 PROVE  \A m \in Nat : m <= n => h[m][m] = h[n][m]
      OBVIOUS
    <2> DEFINE Same == {m \in Nat : m <= n => \A k \in Nat : k <= n /\ m <= k => h[k][m] = h[n][m]}
    <2>1. 0 \in Same
      <3> HIDE DEF h
      <3>1. ASSUME NEW k \in Nat PROVE h[k][0] = base
        <4>1. h[k] \in Upto(k) /\ 0 \in 0..k
          BY <1>4
        <4> QED
          BY <4>1 DEF IsRecursion
      <3> QED
        BY <3>1
    <2>2. ASSUME NEW m \in Nat, m \in Same PROVE m + 1 \in Same
      <3>1. ASSUME NEW k \in Nat, k <= n, m + 1 <= k PROVE h[k][m + 1] = h[n][m + 1]
        <4>1. /\ m + 1 \in 0..k /\ m + 1 \in 0..n /\ m + 1 # 0 /\ (m + 1) - 1 = m
              /\ m <= n /\ m <= k
          BY <3>1
        <4>2. h[k] \in Upto(k) /\ h[n] \in Upto(n)
          BY <1>4
        <4> HIDE DEF h
        <4>3. h[k][m] = h[n][m]
          BY <2>2, <3>1, <4>1
        <4>4. h[k][m + 1] = F[<<m + 1, h[k][m]>>]
          BY <4>1, <4>2 DEF IsRecursion
        <4>5. h[n][m + 1] = F[<<m + 1, h[n][m]>>]
          BY <4>1, <4>2 DEF IsRecursion
        <4> QED
          BY <4>3, <4>4, <4>5
      <3> HIDE DEF h
      <3> QED
        BY <3>1
    <2>3. Inductive(Same)
      BY <2>1, <2>2 DEF Inductive
    <2>4. Nat \subseteq Same
      <3> HIDE DEF Same
      <3> QED
        BY <2>3, NaturalsInInductive
    <2> HIDE DEF h
    <2> QED
      BY <2>4
  <1>6. ASSUME NEW n \in Nat
        PROVE  f[n] \in V /\ f[n] = IF n = 0 THEN base ELSE F[<<n, f[n - 1]>>]
    <2>1. h[n] \in Upto(n)
      BY <1>4
    <2>2. f[n] = h[n][n] /\ (n # 0 => f[n - 1] = h[n - 1][n - 1])
      OBVIOUS
    <2>3. n # 0 => h[n - 1][n - 1] = h[n][n - 1]
      <3>1. n # 0 => n - 1 \in Nat /\ n - 1 <= n
        OBVIOUS
      <3> HIDE DEF h
      <3> QED
        BY <1>5, <3>1
    <2> HIDE DEF h, f
    <2>4. h[n][n] = IF n = 0 THEN base ELSE F[<<n, h[n][n - 1]>>]
      BY <2>1 DEF IsRecursion
    <2>5. h[n][n] \in V
      BY <2>1
    <2> QED
      BY <2>2, <2>3, <2>4, <2>5
  <1>7. f \in [Nat -> V]
    <2> HIDE DEF h
    <2> QED
      BY <1>6
  <1> QED
    BY <1>6, <1>7 DEF IsRecursion

\* The powers of the byte size are what they are called.
LEMMA Powers ==
    /\ Power[0] = 1 /\ Power[1] = Byte /\ Power[2] = Byte * Byte
    /\ Power[3] = Byte * (Byte * Byte) /\ Power[4] = Byte * (Byte * (Byte * Byte))
  <1> DEFINE F == [p \in Nat \X Int |-> Byte * p[2]]
  <1>1. Byte \in Int /\ 1 \in Int
    BY SerializerAssumption
  <1>2. F \in [Nat \X Int -> Int]
    BY <1>1
  <1>3. PICK f \in [Nat -> Int] : IsRecursion(f, Nat, 1, F)
    <2> HIDE DEF F
    <2> QED
      BY <1>1, <1>2, RecursionExists
  <1>4. f = [n \in Nat |-> IF n = 0 THEN 1 ELSE Byte * f[n - 1]]
    <2>1. ASSUME NEW n \in Nat PROVE f[n] = IF n = 0 THEN 1 ELSE Byte * f[n - 1]
      <3>1. f[n] = IF n = 0 THEN 1 ELSE F[<<n, f[n - 1]>>]
        BY <1>3 DEF IsRecursion
      <3>2. n # 0 => <<n, f[n - 1]>> \in Nat \X Int
        BY <1>3
      <3> QED
        BY <3>1, <3>2
    <2> HIDE DEF F
    <2> QED
      BY <1>3, <2>1
  <1>5. Power = [n \in Nat |-> IF n = 0 THEN 1 ELSE Byte * Power[n - 1]]
    BY <1>4, Zenon DEF Power
  <1>6. /\ Power[0] = 1 /\ Power[1] = Byte * Power[0] /\ Power[2] = Byte * Power[1]
        /\ Power[3] = Byte * Power[2] /\ Power[4] = Byte * Power[3]
    <2> DEFINE P == Power
    <2>1. \A n \in Nat : P[n] = IF n = 0 THEN 1 ELSE Byte * P[n - 1]
      BY <1>5
    <2> HIDE DEF P
    <2>2. P[0] = 1 /\ P[1] = Byte * P[0] /\ P[2] = Byte * P[1] /\ P[3] = Byte * P[2]
          /\ P[4] = Byte * P[3]
      BY <2>1
    <2> QED
      BY <2>2 DEF P
  <1> QED
    BY <1>1, <1>6

-----------------------------------------------------------------------------
(* Numbers and their bytes *)

\* A quotient is known by its remainder.
LEMMA QuotientUnique ==
    ASSUME NEW n \in Nat, NEW d \in Nat, d > 0, NEW q \in Nat, NEW r \in Nat, r < d,
           n = d * q + r
    PROVE  n \div d = q
  <1>1. n = d * (n \div d) + (n % d) /\ n \div d \in Nat /\ n % d \in Nat /\ n % d < d
    OBVIOUS
  <1> DEFINE p == n \div d
             s == n % d
  <1>2. p \in Nat /\ s \in Nat /\ s < d /\ d * p + s = d * q + r
    BY <1>1
  <1> HIDE DEF p, s
  <1>3. ~(p < q)
    <2>1. SUFFICES ASSUME p + 1 <= q PROVE FALSE
      BY <1>2
    <2>2. d * (p + 1) <= d * q
      BY <1>2, <2>1
    <2>3. d * (p + 1) = d * p + d
      BY <1>2
    <2> QED
      BY <1>2, <2>2, <2>3
  <1>4. ~(q < p)
    <2>1. SUFFICES ASSUME q + 1 <= p PROVE FALSE
      BY <1>2
    <2>2. d * (q + 1) <= d * p
      BY <1>2, <2>1
    <2>3. d * (q + 1) = d * q + d
      BY <1>2
    <2> QED
      BY <1>2, <2>2, <2>3
  <1>5. p = q
    BY <1>2, <1>3, <1>4
  <1> QED
    BY <1>5 DEF p

\* Dividing twice is dividing by the product.
LEMMA DivideTwice ==
    ASSUME NEW n \in Nat, NEW d \in Nat, d > 0, NEW b \in Nat, b > 0
    PROVE  (n \div d) \div b = n \div (b * d)
  <1> DEFINE q == n \div d
             r == n % d
             p == q \div b
             s == q % b
  <1>1. q \in Nat /\ r \in Nat /\ r < d /\ n = d * q + r
    OBVIOUS
  <1>2. p \in Nat /\ s \in Nat /\ s < b /\ q = b * p + s
    <2> HIDE DEF q
    <2> QED
      BY <1>1
  <1> HIDE DEF q, r, p, s
  <1>3. n = (b * d) * p + (d * s + r)
    <2>1. d * q = d * (b * p) + d * s
      BY <1>1, <1>2
    <2>2. d * (b * p) = (b * d) * p
      BY <1>2
    <2> DEFINE x == d * q
               y == d * (b * p)
               z == d * s
               w == (b * d) * p
    <2>3. x \in Int /\ y \in Int /\ z \in Int /\ w \in Int /\ x = y + z /\ y = w /\ n = x + r
      BY <1>1, <1>2, <2>1, <2>2
    <2> HIDE DEF x, y, z, w
    <2>4. n = w + (z + r)
      BY <1>1, <2>3
    <2> QED
      BY <2>4 DEF w, z
  <1>4. d * s + r < b * d /\ d * s + r \in Nat
    <2>1. d * (s + 1) <= d * b
      BY <1>2
    <2>2. d * (s + 1) = d * s + d /\ d * b = b * d /\ d * s \in Nat /\ b * d \in Nat
      BY <1>2
    <2> DEFINE x == d * s
               y == b * d
    <2>3. x \in Nat /\ y \in Nat /\ x + d <= y
      BY <2>1, <2>2
    <2> HIDE DEF x, y
    <2>4. x + r < y /\ x + r \in Nat
      BY <1>1, <2>3
    <2> QED
      BY <2>4 DEF x, y
  <1> DEFINE bd == b * d
             t == d * s + r
  <1>5. bd \in Nat /\ bd > 0 /\ t \in Nat /\ t < bd /\ n = bd * p + t
    <2>1. bd \in Nat
      OBVIOUS
    <2> HIDE DEF bd, t
    <2>2. t \in Nat /\ t < bd /\ n = bd * p + t
      BY <1>3, <1>4 DEF bd, t
    <2> QED
      BY <2>1, <2>2
  <1> HIDE DEF bd, t
  <1>6. n \div bd = p
    BY <1>2, <1>5, QuotientUnique
  <1> QED
    BY <1>6 DEF bd, p, q

\* Numbers with the same quotient by Byte * d and the same byte before it have
\* the same quotient by d.
LEMMA OneByteFurther ==
    ASSUME NEW m \in Nat, NEW n \in Nat, NEW d \in Nat, d > 0,
           m \div (Byte * d) = n \div (Byte * d), (m \div d) % Byte = (n \div d) % Byte
    PROVE  m \div d = n \div d
  <1>1. Byte \in Nat /\ Byte > 0
    BY SerializerAssumption
  <1> DEFINE a == m \div d
             b == n \div d
  <1>2. a \in Nat /\ b \in Nat
    OBVIOUS
  <1>3. a \div Byte = b \div Byte
    BY <1>1, DivideTwice
  <1>4. a % Byte = b % Byte
    OBVIOUS
  <1> HIDE DEF a, b
  <1>5. a = Byte * (a \div Byte) + (a % Byte) /\ b = Byte * (b \div Byte) + (b % Byte)
    BY <1>1, <1>2
  <1>6. a = b
    BY <1>3, <1>4, <1>5
  <1> QED
    BY <1>6 DEF a, b

\* Every power is the byte size times the one before it.
LEMMA PowersStep ==
    \A i \in 0..3 : /\ Power[i] \in Nat /\ Power[i] > 0
                    /\ Power[i + 1] \in Nat /\ Power[i + 1] = Byte * Power[i]
  <1>1. Byte \in Nat /\ Byte > 0
    BY SerializerAssumption
  <1> DEFINE b2 == Byte * Byte
             b3 == Byte * b2
             b4 == Byte * b3
  <1>2. b2 \in Nat /\ b2 > 0
    BY <1>1
  <1>3. b3 \in Nat /\ b3 > 0
    <2> HIDE DEF b2
    <2> QED
      BY <1>1, <1>2
  <1>4. b4 \in Nat
    <2> HIDE DEF b3
    <2> QED
      BY <1>1, <1>3
  <1>5. Power[0] = 1 /\ Power[1] = Byte /\ Power[2] = b2 /\ Power[3] = b3 /\ Power[4] = b4
    BY Powers
  <1>6. Byte * 1 = Byte /\ b2 = Byte * Byte /\ b3 = Byte * b2 /\ b4 = Byte * b3
    BY <1>1
  <1> HIDE DEF b2, b3, b4
  <1>7. \A i \in 0..3 : i = 0 \/ i = 1 \/ i = 2 \/ i = 3
    OBVIOUS
  <1> QED
    BY <1>1, <1>2, <1>3, <1>4, <1>5, <1>6, <1>7

\* The bytes of numbers that fit into them tell the numbers apart.
LEMMA BytesTell ==
    ASSUME NEW len \in {1, 2, 4}, NEW m \in Nat, NEW n \in Nat,
           m < Power[len], n < Power[len], BigIntToBytes(m, len) = BigIntToBytes(n, len)
    PROVE  m = n
  <1>1. ASSUME NEW i \in 0..(len - 1)
        PROVE  (m \div Power[i]) % Byte = (n \div Power[i]) % Byte
    <2>1. len - i \in 1..len /\ len - (len - i) = i
      OBVIOUS
    <2>2. BigIntToBytes(m, len)[len - i] = BigIntToBytes(n, len)[len - i]
      OBVIOUS
    <2>3. \A x : BigIntToBytes(x, len)[len - i] = (x \div Power[i]) % Byte
      BY <2>1 DEF BigIntToBytes
    <2> QED
      BY <2>2, <2>3
  <1>2. ASSUME NEW i \in 0..(len - 1), m \div Power[i + 1] = n \div Power[i + 1]
        PROVE  m \div Power[i] = n \div Power[i]
    <2>1. i \in 0..3
      OBVIOUS
    <2> DEFINE d == Power[i]
    <2>2. d \in Nat /\ d > 0 /\ Power[i + 1] = Byte * d
      BY <2>1, PowersStep
    <2>3. (m \div d) % Byte = (n \div d) % Byte
      BY <1>1
    <2>4. m \div (Byte * d) = n \div (Byte * d)
      BY <1>2, <2>2
    <2> HIDE DEF d
    <2>5. m \div d = n \div d
      BY <2>2, <2>3, <2>4, OneByteFurther
    <2> QED
      BY <2>5 DEF d
  <1>3. m \div Power[len] = 0 /\ n \div Power[len] = 0
    <2> DEFINE d == Power[len]
    <2>1. len - 1 \in 0..3 /\ (len - 1) + 1 = len
      OBVIOUS
    <2>2. d \in Nat
      BY <2>1, PowersStep
    <2>3. d > 0 /\ m < d /\ n < d
      BY <2>2
    <2> HIDE DEF d
    <2>4. \A x \in Nat : x < d => x \div d = 0
      BY <2>2, <2>3
    <2> QED
      BY <2>3, <2>4 DEF d
  <1>4. m \div Power[0] = n \div Power[0]
    <2> DEFINE Same(i) == m \div Power[i] = n \div Power[i]
    <2>1. Same(len)
      BY <1>3
    <2>2. \A i \in 0..(len - 1) : Same(i + 1) => Same(i)
      BY <1>2
    <2> HIDE DEF Same
    <2>3. len = 4 => Same(3) /\ Same(2) /\ Same(1) /\ Same(0)
      BY <2>1, <2>2
    <2>4. len = 2 => Same(1) /\ Same(0)
      BY <2>1, <2>2
    <2>5. len = 1 => Same(0)
      BY <2>1, <2>2
    <2> QED
      BY <2>3, <2>4, <2>5 DEF Same
  <1> QED
    BY <1>4, Powers

-----------------------------------------------------------------------------
(* Words and their concatenation *)

\* A word is a sequence of numbers.
Word == Seq(Int)

\* g[i] is the first i words of s behind one another.
Running(g, s) ==
    /\ g \in [Nat -> Word] /\ g[0] = << >>
    /\ \A i \in 1..Len(s) : g[i] = g[i - 1] \o s[i]

\* Sequences of words have words.
LEMMA WordsOf ==
    ASSUME NEW s \in Seq(Word)
    PROVE  Len(s) \in Nat /\ DOMAIN s = 1..Len(s) /\ \A i \in 1..Len(s) : s[i] \in Word
  OBVIOUS

\* ConcatArrays puts its words behind one another.
LEMMA ConcatRuns ==
    ASSUME NEW s \in Seq(Word)
    PROVE  \E g : Running(g, s) /\ ConcatArrays(s) = g[Len(s)]
  <1> DEFINE n == Len(s)
             F == [p \in Nat \X Word |-> IF p[1] \in 1..n THEN p[2] \o s[p[1]] ELSE p[2]]
  <1>1. n \in Nat /\ \A i \in 1..n : s[i] \in Word
    BY WordsOf
  <1>2. << >> \in Word /\ \A v \in Word, w \in Word : v \o w \in Word /\ << >> \o w = w
    BY DEF Word
  <1> HIDE DEF n
  <1>3. F \in [Nat \X Word -> Word]
    <2>1. ASSUME NEW p \in Nat \X Word
          PROVE  (IF p[1] \in 1..n THEN p[2] \o s[p[1]] ELSE p[2]) \in Word
      BY <1>1, <1>2
    <2> QED
      BY <2>1
  <1>4. PICK g \in [Nat -> Word] : IsRecursion(g, Nat, << >>, F)
    <2> HIDE DEF F
    <2> QED
      BY <1>2, <1>3, RecursionExists
  <1>5. g[0] = << >>
    BY <1>4 DEF IsRecursion
  <1>6. ASSUME NEW i \in 1..n PROVE g[i] = g[i - 1] \o s[i]
    <2>1. i \in Nat /\ i # 0 /\ i - 1 \in Nat /\ g[i - 1] \in Word
      BY <1>1, <1>4
    <2>2. g[i] = F[<<i, g[i - 1]>>]
      BY <1>4, <2>1 DEF IsRecursion
    <2>3. <<i, g[i - 1]>> \in Nat \X Word
      BY <2>1
    <2> QED
      BY <2>1, <2>2, <2>3
  <1>7. Running(g, s)
    BY <1>4, <1>5, <1>6 DEF Running, n
  <1>8. CASE n = 0
    <2>1. s = << >> /\ ConcatArrays(s) = << >>
      BY <1>8 DEF ConcatArrays, SeqOps!FlattenSeq, n
    <2> QED
      BY <1>5, <1>7, <1>8, <2>1 DEF n
  <1>9. CASE n # 0
    <2> DEFINE f == [i \in 1..n |-> g[i]]
    <2> HIDE DEF F
    <2>1. ASSUME NEW i \in 1..n PROVE f[i] = IF i = 1 THEN s[i] ELSE f[i - 1] \o s[i]
      <3>1. CASE i = 1
        <4>1. 1 \in 1..n /\ s[1] \in Word /\ f[1] = g[1] /\ 1 - 1 = 0
          BY <1>1, <3>1
        <4>2. g[1] = g[0] \o s[1]
          BY <1>6, <4>1
        <4>3. << >> \o s[1] = s[1]
          BY <1>2, <4>1
        <4> QED
          BY <1>5, <3>1, <4>1, <4>2, <4>3
      <3>2. CASE i # 1
        <4>1. i - 1 \in 1..n
          BY <1>1, <3>2
        <4> QED
          BY <1>6, <3>2, <4>1
      <3> QED
        BY <3>1, <3>2
    <2>2. f = [i \in 1..n |-> IF i = 1 THEN s[i] ELSE f[i - 1] \o s[i]]
      BY <2>1
    <2> HIDE DEF f
    <2>3. PICK h : /\ h = [i \in 1..n |-> IF i = 1 THEN s[i] ELSE h[i - 1] \o s[i]]
                   /\ ConcatArrays(s) = h[n]
      BY <1>9, <2>2, Zenon DEF ConcatArrays, SeqOps!FlattenSeq, n
    <2> DEFINE G == {i \in Nat : i \in 1..n => h[i] = g[i]}
    <2>4. 0 \in G
      BY <1>1
    <2>5. ASSUME NEW i \in Nat, i \in G PROVE i + 1 \in G
      <3>1. SUFFICES ASSUME i + 1 \in 1..n PROVE h[i + 1] = g[i + 1]
        OBVIOUS
      <3>2. h[i + 1] = IF i + 1 = 1 THEN s[i + 1] ELSE h[(i + 1) - 1] \o s[i + 1]
        BY <2>3, <3>1
      <3>3. g[i + 1] = g[i] \o s[i + 1] /\ s[i + 1] \in Word
        <4>1. (i + 1) - 1 = i
          OBVIOUS
        <4> QED
          BY <1>1, <1>6, <3>1, <4>1
      <3>4. CASE i = 0
        <4>1. i + 1 = 1
          BY <3>4
        <4>2. << >> \o s[1] = s[1] /\ s[1] \in Word
          BY <1>2, <3>3, <4>1
        <4>3. g[0] \o s[1] = s[1]
          BY <1>5, <4>2
        <4> QED
          BY <3>2, <3>3, <3>4, <4>1, <4>3
      <3>5. CASE i # 0
        <4>1. i \in 1..n /\ (i + 1) - 1 = i /\ i + 1 # 1
          BY <1>1, <3>1, <3>5
        <4>2. h[i] = g[i]
          BY <2>5, <4>1
        <4> QED
          BY <3>2, <3>3, <4>1, <4>2
      <3> QED
        BY <3>4, <3>5
    <2>6. Nat \subseteq G
      <3>1. Inductive(G)
        BY <2>4, <2>5 DEF Inductive
      <3> HIDE DEF G
      <3> QED
        BY <3>1, NaturalsInInductive
    <2>7. n \in 1..n
      BY <1>1, <1>9
    <2>8. h[n] = g[n]
      BY <1>1, <2>6, <2>7
    <2> QED
      BY <1>7, <2>3, <2>8 DEF n
  <1> QED
    BY <1>8, <1>9

\* Where the words of s lie in a sequence w: word i behind the first at[i].
LaidOut(s, w, at) ==
    /\ at \in [1..Len(s) -> Nat]
    /\ \A i \in 1..Len(s) :
         /\ i = 1 => at[i] = 0
         /\ i > 1 => at[i] = at[i - 1] + Len(s[i - 1])
         /\ at[i] + Len(s[i]) <= Len(w)
         /\ i = Len(s) => at[i] + Len(s[i]) = Len(w)
         /\ \A j \in 1..Len(s[i]) : w[at[i] + j] = s[i][j]

\* A later concatenation goes on with an earlier one.
LEMMA RunningGrows ==
    ASSUME NEW s \in Seq(Word), NEW g, Running(g, s),
           NEW i \in 0..Len(s), NEW k \in 0..Len(s), i <= k
    PROVE  /\ Len(g[i]) <= Len(g[k])
           /\ \A j \in 1..Len(g[i]) : g[k][j] = g[i][j]
  <1> DEFINE n == Len(s)
             Prefix(a, b) == Len(a) <= Len(b) /\ \A j \in 1..Len(a) : b[j] = a[j]
             G == {m \in Nat : i <= m /\ m <= n => Prefix(g[i], g[m])}
  <1>1. n \in Nat /\ \A m \in 1..n : s[m] \in Word
    BY WordsOf
  <1>2. \A m \in Nat : g[m] \in Word
    BY DEF Running
  <1>3. \A a \in Word : Prefix(a, a)
    BY DEF Word
  <1>4. \A a \in Word, b \in Word, c \in Word : Prefix(a, b) => Prefix(a, b \o c)
    BY DEF Word
  <1>5. \A m \in 1..n : g[m] = g[m - 1] \o s[m]
    BY DEF Running
  <1> HIDE DEF n, Prefix
  <1>6. 0 \in G
    BY <1>2, <1>3
  <1>7. ASSUME NEW m \in Nat, m \in G PROVE m + 1 \in G
    <2>1. SUFFICES ASSUME i <= m + 1, m + 1 <= n PROVE Prefix(g[i], g[m + 1])
      OBVIOUS
    <2>2. CASE i = m + 1
      BY <1>2, <1>3, <2>2
    <2>3. CASE i # m + 1
      <3>1. Prefix(g[i], g[m])
        <4>1. i <= m /\ m <= n
          BY <1>1, <2>1, <2>3 DEF n
        <4> QED
          BY <1>7, <4>1
      <3>2. m + 1 \in 1..n /\ (m + 1) - 1 = m
        BY <1>1, <2>1
      <3>3. g[m + 1] = g[m] \o s[m + 1] /\ s[m + 1] \in Word
        BY <1>1, <1>5, <3>2
      <3> QED
        BY <1>2, <1>4, <3>1, <3>3
    <2> QED
      BY <2>2, <2>3
  <1>8. Nat \subseteq G
    <2>1. Inductive(G)
      BY <1>6, <1>7 DEF Inductive
    <2> HIDE DEF G
    <2> QED
      BY <2>1, NaturalsInInductive
  <1>9. k \in Nat /\ k <= n
    BY <1>1 DEF n
  <1>10. Prefix(g[i], g[k])
    BY <1>8, <1>9
  <1> QED
    BY <1>10 DEF Prefix

\* ConcatArrays lays its words out.
LEMMA ConcatLaysOut ==
    ASSUME NEW s \in Seq(Word)
    PROVE  /\ ConcatArrays(s) \in Word
           /\ Len(s) = 0 => Len(ConcatArrays(s)) = 0
           /\ \E at : LaidOut(s, ConcatArrays(s), at)
  <1> DEFINE n == Len(s)
  <1>1. n \in Nat /\ \A i \in 1..n : s[i] \in Word
    BY WordsOf
  <1>2. PICK g : Running(g, s) /\ ConcatArrays(s) = g[n]
    BY ConcatRuns
  <1>3. /\ \A i \in Nat : g[i] \in Word
        /\ g[0] = << >> /\ \A i \in 1..n : g[i] = g[i - 1] \o s[i]
    BY <1>2 DEF Running
  <1>4. \A i \in 0..n : /\ Len(g[i]) <= Len(g[n])
                        /\ \A j \in 1..Len(g[i]) : g[n][j] = g[i][j]
    BY <1>1, <1>2, RunningGrows
  <1> HIDE DEF n
  <1>5. /\ \A a \in Word : Len(a) \in Nat
        /\ \A a \in Word, b \in Word : /\ Len(a \o b) = Len(a) + Len(b)
                                       /\ \A j \in 1..Len(b) : (a \o b)[Len(a) + j] = b[j]
    BY DEF Word
  <1> DEFINE at == [i \in 1..n |-> Len(g[i - 1])]
  <1>6. ASSUME NEW i \in 1..n
        PROVE  /\ at[i] \in Nat
               /\ i = 1 => at[i] = 0
               /\ i > 1 => at[i] = at[i - 1] + Len(s[i - 1])
               /\ at[i] + Len(s[i]) <= Len(g[n])
               /\ i = n => at[i] + Len(s[i]) = Len(g[n])
               /\ \A j \in 1..Len(s[i]) : g[n][at[i] + j] = s[i][j]
    <2>1. /\ i \in Nat /\ i - 1 \in Nat /\ i \in 0..n
          /\ g[i - 1] \in Word /\ g[i] \in Word /\ s[i] \in Word
      BY <1>1, <1>3
    <2>2. g[i] = g[i - 1] \o s[i] /\ at[i] = Len(g[i - 1])
      BY <1>3
    <2> HIDE DEF at
    <2>3. at[i] \in Nat /\ Len(g[i]) = at[i] + Len(s[i]) /\ Len(s[i]) \in Nat
      BY <1>5, <2>1, <2>2
    <2>4. i = 1 => at[i] = 0
      BY <1>3, <2>2
    <2>5. i > 1 => at[i] = at[i - 1] + Len(s[i - 1])
      <3>1. SUFFICES ASSUME i > 1 PROVE at[i] = at[i - 1] + Len(s[i - 1])
        OBVIOUS
      <3>2. i - 1 \in 1..n /\ (i - 1) - 1 \in Nat
        BY <1>1, <3>1
      <3>3. /\ at[i - 1] = Len(g[(i - 1) - 1]) /\ g[i - 1] = g[(i - 1) - 1] \o s[i - 1]
            /\ g[(i - 1) - 1] \in Word /\ s[i - 1] \in Word
        BY <1>1, <1>3, <3>2 DEF at
      <3> QED
        BY <1>5, <2>2, <3>3
    <2>6. ASSUME NEW j \in 1..Len(s[i]) PROVE g[n][at[i] + j] = s[i][j]
      <3>1. at[i] + j \in 1..Len(g[i])
        BY <2>3
      <3>2. g[n][at[i] + j] = g[i][at[i] + j]
        BY <1>4, <2>1, <3>1
      <3>3. (g[i - 1] \o s[i])[Len(g[i - 1]) + j] = s[i][j]
        BY <1>5, <2>1
      <3> QED
        BY <2>2, <3>2, <3>3
    <2> QED
      BY <1>4, <2>1, <2>3, <2>4, <2>5, <2>6
  <1>7. LaidOut(s, g[n], at)
    <2>1. at \in [1..n -> Nat]
      BY <1>6
    <2> HIDE DEF at
    <2> QED
      BY <1>6, <2>1 DEF LaidOut, n
  <1>8. n = 0 => Len(g[n]) = 0
    BY <1>3
  <1> HIDE DEF at
  <1> QED
    BY <1>1, <1>2, <1>3, <1>7, <1>8 DEF n

\* One of two words goes on where the other one ends.
Agree(a, b) == \A j \in 1..Len(a) : j <= Len(b) => a[j] = b[j]

\* No word of W goes on where another one ends, and none is empty.
PrefixFree(W) ==
    /\ \A a \in W : Len(a) > 0
    /\ \A a, b \in W : Agree(a, b) => a = b

\* Two rows of such words in one sequence have the same words, one after another.
LEMMA SplitsAlike ==
    ASSUME NEW W, W \subseteq Word, PrefixFree(W),
           NEW s \in Seq(W), NEW t \in Seq(W), NEW w \in Word, NEW at, NEW bt,
           LaidOut(s, w, at), LaidOut(t, w, bt)
    PROVE  \A i \in 1..Len(s) : i <= Len(t) => at[i] = bt[i] /\ s[i] = t[i]
  <1> DEFINE Same(i) == i \in 1..Len(s) /\ i \in 1..Len(t) => at[i] = bt[i] /\ s[i] = t[i]
             G == {i \in Nat : Same(i)}
  <1>1. /\ Len(s) \in Nat /\ Len(t) \in Nat
        /\ \A i \in 1..Len(s) : s[i] \in W /\ at[i] \in Nat
        /\ \A i \in 1..Len(t) : t[i] \in W /\ bt[i] \in Nat
    <2>1. at \in [1..Len(s) -> Nat] /\ bt \in [1..Len(t) -> Nat]
      BY DEF LaidOut
    <2>2. \A i \in 1..Len(s) : s[i] \in W
      OBVIOUS
    <2>3. \A i \in 1..Len(t) : t[i] \in W
      OBVIOUS
    <2> QED
      BY <2>1, <2>2, <2>3
  <1>2. \A a \in W : Len(a) \in Nat
    BY DEF Word
  <1>3. ASSUME NEW i \in 1..Len(s), i \in 1..Len(t), at[i] = bt[i]
        PROVE  s[i] = t[i]
    <2>1. \A j \in 1..Len(s[i]) : w[at[i] + j] = s[i][j]
      BY DEF LaidOut
    <2>2. \A j \in 1..Len(t[i]) : w[bt[i] + j] = t[i][j]
      BY <1>3 DEF LaidOut
    <2>3. \A j \in 1..Len(s[i]) : j <= Len(t[i]) => s[i][j] = t[i][j]
      <3>1. \A j \in 1..Len(s[i]) : j <= Len(t[i]) => j \in 1..Len(t[i])
        BY <1>1, <1>2, <1>3
      <3> QED
        BY <1>3, <2>1, <2>2, <3>1
    <2>4. s[i] \in W /\ t[i] \in W
      BY <1>1, <1>3
    <2> QED
      BY <2>3, <2>4 DEF PrefixFree, Agree
  <1>4. 0 \in G
    BY <1>1
  <1>5. ASSUME NEW i \in Nat, i \in G PROVE i + 1 \in G
    <2>1. SUFFICES ASSUME i + 1 \in 1..Len(s), i + 1 \in 1..Len(t)
                   PROVE  at[i + 1] = bt[i + 1] /\ s[i + 1] = t[i + 1]
      BY <1>1
    <2>2. at[i + 1] = bt[i + 1]
      <3>1. CASE i = 0
        BY <2>1, <3>1 DEF LaidOut
      <3>2. CASE i # 0
        <4>1. i \in 1..Len(s) /\ i \in 1..Len(t) /\ i + 1 > 1 /\ (i + 1) - 1 = i
          BY <1>1, <2>1, <3>2
        <4>2. at[i] = bt[i] /\ s[i] = t[i]
          BY <1>5, <4>1
        <4>3. at[i + 1] = at[i] + Len(s[i]) /\ bt[i + 1] = bt[i] + Len(t[i])
          BY <2>1, <4>1 DEF LaidOut
        <4> QED
          BY <4>2, <4>3
      <3> QED
        BY <3>1, <3>2
    <2> QED
      BY <1>3, <2>1, <2>2
  <1>6. Nat \subseteq G
    <2>1. Inductive(G)
      BY <1>4, <1>5 DEF Inductive
    <2> HIDE DEF G
    <2> QED
      BY <2>1, NaturalsInInductive
  <1> HIDE DEF Same
  <1>7. \A i \in 1..Len(s) : Same(i)
    BY <1>1, <1>6
  <1> QED
    BY <1>1, <1>7 DEF Same

\* And neither row has more words than the other.
LEMMA SplitsNoLonger ==
    ASSUME NEW W, W \subseteq Word, PrefixFree(W),
           NEW s \in Seq(W), NEW t \in Seq(W), NEW w \in Word, NEW at, NEW bt,
           LaidOut(s, w, at), LaidOut(t, w, bt), Len(s) = 0 => Len(w) = 0
    PROVE  Len(t) <= Len(s)
  <1> DEFINE n == Len(s)
             m == Len(t)
  <1>1. /\ n \in Nat /\ m \in Nat /\ Len(w) \in Nat
        /\ \A i \in 1..n : s[i] \in W
        /\ \A i \in 1..m : t[i] \in W
        /\ \A a \in W : Len(a) \in Nat /\ Len(a) > 0
    BY DEF Word, PrefixFree
  <1>2. SUFFICES ASSUME n < m PROVE FALSE
    BY <1>1
  <1>3. n + 1 \in 1..m /\ t[n + 1] \in W
    BY <1>1, <1>2
  <1>4. bt[n + 1] \in Nat /\ bt[n + 1] + Len(t[n + 1]) <= Len(w)
    BY <1>3 DEF LaidOut
  <1>5. CASE n = 0
    BY <1>1, <1>3, <1>4, <1>5
  <1>6. CASE n # 0
    <2>1. n \in 1..n /\ n \in 1..m /\ n + 1 > 1 /\ (n + 1) - 1 = n
      BY <1>1, <1>2, <1>6
    <2>2. at[n] = bt[n] /\ s[n] = t[n]
      <3>1. \A i \in 1..Len(s) : i <= Len(t) => at[i] = bt[i] /\ s[i] = t[i]
        BY SplitsAlike
      <3> QED
        BY <1>1, <1>2, <2>1, <3>1
    <2>3. at[n] + Len(s[n]) = Len(w)
      BY <2>1 DEF LaidOut
    <2>4. bt[n + 1] = bt[n] + Len(t[n])
      BY <1>3, <2>1 DEF LaidOut
    <2> QED
      BY <1>1, <1>3, <1>4, <2>2, <2>3, <2>4
  <1> QED
    BY <1>5, <1>6

\* So a concatenation of such words can be cut up in one way only.
LEMMA SplitsUniquely ==
    ASSUME NEW W, W \subseteq Word, PrefixFree(W), NEW s \in Seq(W), NEW t \in Seq(W),
           ConcatArrays(s) = ConcatArrays(t)
    PROVE  s = t
  <1> DEFINE w == ConcatArrays(s)
  <1>1. s \in Seq(Word) /\ t \in Seq(Word)
    OBVIOUS
  <1>2. /\ w \in Word /\ (Len(s) = 0 => Len(w) = 0) /\ \E at : LaidOut(s, w, at)
        /\ Len(t) = 0 => Len(w) = 0
        /\ \E at : LaidOut(t, w, at)
    BY <1>1, ConcatLaysOut
  <1> HIDE DEF w
  <1>3. PICK at : LaidOut(s, w, at)
    BY <1>2
  <1>4. PICK bt : LaidOut(t, w, bt)
    BY <1>2
  <1>5. Len(t) <= Len(s)
    BY <1>2, <1>3, <1>4, SplitsNoLonger
  <1>6. Len(s) <= Len(t)
    BY <1>2, <1>3, <1>4, SplitsNoLonger
  <1>7. \A i \in 1..Len(s) : i <= Len(t) => at[i] = bt[i] /\ s[i] = t[i]
    BY <1>2, <1>3, <1>4, SplitsAlike
  <1>8. Len(s) \in Nat /\ Len(t) \in Nat /\ Len(s) = Len(t)
    BY <1>5, <1>6
  <1>9. \A i \in 1..Len(s) : s[i] = t[i]
    BY <1>7, <1>8
  <1> QED
    BY <1>8, <1>9

\* No word is longer than the concatenation.
LEMMA WordFits ==
    ASSUME NEW s \in Seq(Word), NEW i \in 1..Len(s)
    PROVE  Len(s[i]) <= Len(ConcatArrays(s))
  <1>1. PICK at : LaidOut(s, ConcatArrays(s), at)
    BY ConcatLaysOut
  <1>2. s[i] \in Word /\ ConcatArrays(s) \in Word
    BY ConcatLaysOut
  <1>3. at[i] \in Nat /\ at[i] + Len(s[i]) <= Len(ConcatArrays(s))
    BY <1>1 DEF LaidOut
  <1> QED
    BY <1>2, <1>3 DEF Word

-----------------------------------------------------------------------------
(* The fields of the serializer *)

\* A function on 1..k is a word of length k.
LEMMA FunctionIsWord ==
    ASSUME NEW k \in Nat, NEW f \in [1..k -> Int]
    PROVE  f \in Word /\ Len(f) = k
  BY DEF Word

\* Words are equal when they agree everywhere.
LEMMA WordsEqual ==
    ASSUME NEW x \in Word, NEW y \in Word, Len(x) = Len(y), \A j \in 1..Len(x) : x[j] = y[j]
    PROVE  x = y
  BY DEF Word

\* The bytes of a number are a word.
LEMMA BytesAreWord ==
    ASSUME NEW n \in Nat, NEW len \in {1, 2, 4}
    PROVE  BigIntToBytes(n, len) \in Word /\ Len(BigIntToBytes(n, len)) = len
  <1>1. ASSUME NEW i \in 1..len PROVE (n \div Power[len - i]) % Byte \in Int
    <2>1. len - i \in 0..3
      OBVIOUS
    <2>2. Power[len - i] \in Nat /\ Power[len - i] > 0
      BY <2>1, PowersStep
    <2> DEFINE d == Power[len - i]
    <2> HIDE DEF d
    <2>3. n \div d \in Int
      BY <2>2 DEF d
    <2> DEFINE q == n \div d
    <2> HIDE DEF q
    <2>4. q % Byte \in Int
      BY <2>3, SerializerAssumption DEF q
    <2> QED
      BY <2>4 DEF q, d
  <1> DEFINE f == [i \in 1..len |-> (n \div Power[len - i]) % Byte]
  <1>2. f \in [1..len -> Int] /\ len \in Nat
    BY <1>1
  <1>3. BigIntToBytes(n, len) = f
    BY DEF BigIntToBytes
  <1> HIDE DEF f
  <1> QED
    BY <1>2, <1>3, FunctionIsWord

\* One word behind another one.
LEMMA JoinedWords ==
    ASSUME NEW a \in Word, NEW b \in Word
    PROVE  /\ a \o b \in Word /\ Len(a \o b) = Len(a) + Len(b)
           /\ Len(a) \in Nat /\ Len(b) \in Nat
           /\ \A j \in 1..Len(a) : (a \o b)[j] = a[j]
           /\ \A j \in 1..Len(b) : (a \o b)[Len(a) + j] = b[j]
  BY DEF Word

\* A field is its key's length, the key, the type, the value's length, the value.
FieldBytes(a, key, type, v) ==
    /\ a \in Word /\ Len(a) = Len(key) + 6 + Len(v) /\ a[1] = Len(key)
    /\ \A j \in 1..Len(key) : a[1 + j] = key[j]
    /\ a[2 + Len(key)] = type
    /\ \A j \in 1..4 : a[2 + Len(key) + j] = BigIntToBytes(Len(v), 4)[j]
    /\ \A j \in 1..Len(v) : a[6 + Len(key) + j] = v[j]

\* Layout builds such a field.
LEMMA LayoutBytes ==
    ASSUME NEW key \in Word, NEW type \in Int, NEW v \in Word
    PROVE  FieldBytes(Layout(key, <<type, v>>), key, type, v)
  <1> DEFINE k == Len(key)
             m == Len(v)
             l == BigIntToBytes(m, 4)
             b0 == <<k>>
             b1 == b0 \o key
             ty == <<type>>
             b2 == b1 \o ty
             b3 == b2 \o l
             a == b3 \o v
  <1>1. Layout(key, <<type, v>>) = a
    BY DEF Layout
  <1>2. k \in Nat /\ m \in Nat
    BY DEF Word
  <1>3. /\ b0 \in Word /\ Len(b0) = 1 /\ b0[1] = k
        /\ ty \in Word /\ Len(ty) = 1 /\ ty[1] = type
    BY <1>2 DEF Word
  <1>4. l \in Word /\ Len(l) = 4
    BY <1>2, BytesAreWord
  <1> HIDE DEF b0, ty, l, k, m
  <1>5. /\ b1 \in Word /\ Len(b1) = 1 + k /\ b1[1] = k
        /\ \A j \in 1..k : b1[1 + j] = key[j]
    <2>1. /\ b1 \in Word /\ Len(b1) = Len(b0) + Len(key)
          /\ \A j \in 1..Len(b0) : b1[j] = b0[j]
          /\ \A j \in 1..Len(key) : b1[Len(b0) + j] = key[j]
      BY <1>3, JoinedWords
    <2> QED
      BY <1>3, <2>1 DEF k
  <1> HIDE DEF b1
  <1>6. /\ b2 \in Word /\ Len(b2) = 2 + k /\ b2[2 + k] = type
        /\ \A j \in 1..(1 + k) : b2[j] = b1[j]
    <2>1. /\ b2 \in Word /\ Len(b2) = Len(b1) + Len(ty)
          /\ \A j \in 1..Len(b1) : b2[j] = b1[j]
          /\ \A j \in 1..Len(ty) : b2[Len(b1) + j] = ty[j]
      BY <1>3, <1>5, JoinedWords
    <2>2. b2[Len(b1) + 1] = ty[1]
      BY <1>3, <2>1
    <2>3. Len(b1) + 1 = 2 + k
      BY <1>2, <1>5
    <2> QED
      BY <1>2, <1>3, <1>5, <2>1, <2>2, <2>3
  <1> HIDE DEF b2
  <1>7. /\ b3 \in Word /\ Len(b3) = 6 + k
        /\ \A j \in 1..(2 + k) : b3[j] = b2[j]
        /\ \A j \in 1..4 : b3[2 + k + j] = l[j]
    <2>1. /\ b3 \in Word /\ Len(b3) = Len(b2) + Len(l)
          /\ \A j \in 1..Len(b2) : b3[j] = b2[j]
          /\ \A j \in 1..Len(l) : b3[Len(b2) + j] = l[j]
      BY <1>4, <1>6, JoinedWords
    <2> QED
      BY <1>2, <1>4, <1>6, <2>1
  <1> HIDE DEF b3
  <1>8. /\ a \in Word /\ Len(a) = k + 6 + m
        /\ \A j \in 1..(6 + k) : a[j] = b3[j]
        /\ \A j \in 1..m : a[6 + k + j] = v[j]
    <2>1. /\ a \in Word /\ Len(a) = Len(b3) + Len(v)
          /\ \A j \in 1..Len(b3) : a[j] = b3[j]
          /\ \A j \in 1..Len(v) : a[Len(b3) + j] = v[j]
      BY <1>7, JoinedWords
    <2> HIDE DEF a
    <2>2. Len(v) = m
      BY DEF m
    <2> QED
      BY <1>2, <1>7, <2>1, <2>2
  <1> HIDE DEF a
  <1>9. a[1] = k /\ \A j \in 1..k : a[1 + j] = key[j]
    <2>1. \A j \in 1..(1 + k) : j \in 1..(2 + k) /\ j \in 1..(6 + k)
      BY <1>2
    <2>2. \A j \in 1..(1 + k) : a[j] = b1[j]
      BY <1>6, <1>7, <1>8, <2>1
    <2>3. 1 \in 1..(1 + k) /\ \A j \in 1..k : 1 + j \in 1..(1 + k)
      BY <1>2
    <2> QED
      BY <1>5, <2>2, <2>3
  <1>10. a[2 + k] = type
    <2>1. 2 + k \in 1..(2 + k) /\ 2 + k \in 1..(6 + k)
      BY <1>2
    <2> QED
      BY <1>6, <1>7, <1>8, <2>1
  <1>11. \A j \in 1..4 : a[2 + k + j] = l[j]
    <2>1. \A j \in 1..4 : 2 + k + j \in 1..(6 + k)
      BY <1>2
    <2> QED
      BY <1>7, <1>8, <2>1
  <1> QED
    BY <1>1, <1>8, <1>9, <1>10, <1>11 DEF k, l, m, FieldBytes

\* Fields whose value's length fits into its four bytes.
Fields ==
    {a \in Word : \E key \in Word, type \in Int, v \in Word :
        Len(v) < Power[4] /\ a = Layout(key, <<type, v>>)}

\* A field starts like another one only if they agree in everything.
LEMMA FieldTellsAll ==
    ASSUME NEW k1 \in Word, NEW t1 \in Int, NEW v1 \in Word, Len(v1) < Power[4],
           NEW k2 \in Word, NEW t2 \in Int, NEW v2 \in Word, Len(v2) < Power[4],
           NEW a, FieldBytes(a, k1, t1, v1), NEW b, FieldBytes(b, k2, t2, v2),
           Agree(a, b)
    PROVE  k1 = k2 /\ t1 = t2 /\ v1 = v2
  <1> DEFINE n == Len(k1)
             m1 == Len(v1)
             m2 == Len(v2)
             l1 == BigIntToBytes(m1, 4)
             l2 == BigIntToBytes(m2, 4)
  <1>1. n \in Nat /\ Len(k2) \in Nat /\ m1 \in Nat /\ m2 \in Nat
    BY DEF Word
  <1>2. /\ Len(a) = n + 6 + m1 /\ a[1] = n
        /\ \A j \in 1..n : a[1 + j] = k1[j]
        /\ a[2 + n] = t1
        /\ \A j \in 1..4 : a[2 + n + j] = l1[j]
        /\ \A j \in 1..m1 : a[6 + n + j] = v1[j]
    BY DEF FieldBytes
  <1>3. Len(b) = Len(k2) + 6 + m2 /\ b[1] = Len(k2)
    BY DEF FieldBytes
  <1>4. Len(k2) = n
    <2>1. a[1] = b[1]
      BY <1>1, <1>2, <1>3 DEF Agree
    <2> QED
      BY <1>2, <1>3, <2>1
  <1>5. /\ Len(b) = n + 6 + m2
        /\ \A j \in 1..n : b[1 + j] = k2[j]
        /\ b[2 + n] = t2
        /\ \A j \in 1..4 : b[2 + n + j] = l2[j]
        /\ \A j \in 1..m2 : b[6 + n + j] = v2[j]
    BY <1>4 DEF FieldBytes
  <1>6. l1 \in Word /\ Len(l1) = 4 /\ l2 \in Word /\ Len(l2) = 4
    BY <1>1, BytesAreWord
  <1>7. m1 < Power[4] /\ m2 < Power[4]
    OBVIOUS
  <1> HIDE DEF n, m1, m2, l1, l2
  <1>8. \A j \in 1..(n + 6) : a[j] = b[j]
    BY <1>1, <1>2, <1>5 DEF Agree
  <1>9. k1 = k2
    <2>1. \A j \in 1..n : 1 + j \in 1..(n + 6)
      BY <1>1
    <2>2. \A j \in 1..n : k1[j] = k2[j]
      BY <1>2, <1>5, <1>8, <2>1
    <2> QED
      BY <1>4, <2>2, WordsEqual DEF n
  <1>10. t1 = t2
    <2>1. 2 + n \in 1..(n + 6)
      BY <1>1
    <2> QED
      BY <1>2, <1>5, <1>8, <2>1
  <1>11. m1 = m2
    <2>1. \A j \in 1..4 : 2 + n + j \in 1..(n + 6)
      BY <1>1
    <2>2. \A j \in 1..4 : l1[j] = l2[j]
      BY <1>2, <1>5, <1>8, <2>1
    <2>3. l1 = l2
      BY <1>6, <2>2, WordsEqual
    <2> QED
      BY <1>1, <1>7, <2>3, BytesTell DEF l1, l2
  <1>12. v1 = v2
    <2>1. \A j \in 1..m1 : 6 + n + j \in 1..Len(a) /\ 6 + n + j <= Len(b)
      BY <1>1, <1>2, <1>5, <1>11
    <2>2. ASSUME NEW j \in 1..m1 PROVE a[6 + n + j] = b[6 + n + j]
      <3> DEFINE i == 6 + n + j
      <3>1. i \in 1..Len(a) /\ i <= Len(b)
        BY <2>1
      <3> HIDE DEF i
      <3>2. a[i] = b[i]
        BY <3>1 DEF Agree
      <3> QED
        BY <3>2 DEF i
    <2>3. \A j \in 1..m1 : v1[j] = v2[j]
      BY <1>2, <1>5, <1>11, <2>2
    <2> QED
      BY <1>11, <2>3, WordsEqual DEF m1, m2
  <1> QED
    BY <1>9, <1>10, <1>12

\* In particular, one field's bytes have one reading.
LEMMA FieldTold ==
    ASSUME NEW k1 \in Word, NEW t1 \in Int, NEW v1 \in Word, Len(v1) < Power[4],
           NEW k2 \in Word, NEW t2 \in Int, NEW v2 \in Word, Len(v2) < Power[4],
           NEW a, FieldBytes(a, k1, t1, v1), FieldBytes(a, k2, t2, v2)
    PROVE  k1 = k2 /\ t1 = t2 /\ v1 = v2
  <1>1. Agree(a, a)
    BY DEF Agree
  <1> QED
    BY <1>1, FieldTellsAll

\* What Layout builds from a short value is a field.
LEMMA FieldIn ==
    ASSUME NEW key \in Word, NEW type \in Int, NEW v \in Word, Len(v) < Power[4]
    PROVE  Layout(key, <<type, v>>) \in Fields
  <1>1. Layout(key, <<type, v>>) \in Word
    BY LayoutBytes DEF FieldBytes
  <1> QED
    BY <1>1 DEF Fields

\* So fields are words that split uniquely.
LEMMA FieldsPrefixFree == Fields \subseteq Word /\ PrefixFree(Fields)
  <1>1. ASSUME NEW a \in Fields
        PROVE  \E key \in Word, type \in Int, v \in Word :
                  /\ Len(v) < Power[4] /\ a = Layout(key, <<type, v>>)
                  /\ FieldBytes(a, key, type, v)
    <2>1. PICK key \in Word, type \in Int, v \in Word :
                Len(v) < Power[4] /\ a = Layout(key, <<type, v>>)
      BY DEF Fields
    <2>2. FieldBytes(Layout(key, <<type, v>>), key, type, v)
      BY LayoutBytes
    <2> QED
      BY <2>1, <2>2
  <1>2. ASSUME NEW a \in Fields PROVE a \in Word /\ Len(a) > 0
    <2>1. PICK key \in Word, type \in Int, v \in Word : FieldBytes(a, key, type, v)
      BY <1>1
    <2>2. a \in Word /\ Len(a) = Len(key) + 6 + Len(v)
      BY <2>1 DEF FieldBytes
    <2>3. Len(key) \in Nat /\ Len(v) \in Nat
      BY DEF Word
    <2> QED
      BY <2>2, <2>3
  <1>3. ASSUME NEW a \in Fields, NEW b \in Fields, Agree(a, b)
        PROVE  a = b
    <2>1. PICK k1 \in Word, t1 \in Int, v1 \in Word :
                /\ Len(v1) < Power[4] /\ a = Layout(k1, <<t1, v1>>)
                /\ FieldBytes(a, k1, t1, v1)
      BY <1>1
    <2>2. PICK k2 \in Word, t2 \in Int, v2 \in Word :
                /\ Len(v2) < Power[4] /\ b = Layout(k2, <<t2, v2>>)
                /\ FieldBytes(b, k2, t2, v2)
      BY <1>1
    <2>3. k1 = k2 /\ t1 = t2 /\ v1 = v2
      BY <1>3, <2>1, <2>2, FieldTellsAll
    <2> QED
      BY <2>1, <2>2, <2>3
  <1> QED
    BY <1>2, <1>3 DEF PrefixFree

-----------------------------------------------------------------------------
(* The values of a licence *)

\* The type byte and the bytes encodeField writes for a text, a number, or an
\* array of flat values.
Typed(x) ==
    IF x.t = "array"
    THEN <<FIELD_TYPES.ARRAY,
           ConcatArrays([i \in DOMAIN x.v |-> Layout(<< >>, EncodeFlat(x.v[i]))])>>
    ELSE EncodeFlat(x)

\* Texts, numbers that can be encoded, and arrays of texts.
List(s) == [t |-> "array", v |-> [i \in DOMAIN s |-> Txt(s[i])]]
Texts == {Txt(s) : s \in Word}
Numbers32 == {Num(n) : n \in 0..(Power[4] - 1)}
Lists == {List(s) : s \in Seq(Word)}

\* A type byte and a word.
IsTyped(x) == \E t \in Int, v \in Word : x = <<t, v>>

\* A text is its own bytes.
LEMMA TextTyped ==
    ASSUME NEW s \in Word
    PROVE  Typed(Txt(s)) = <<7, s>> /\ EncodeFlat(Txt(s)) = <<7, s>>
  BY DEF Typed, Txt, EncodeFlat, EncodeNumber, FIELD_TYPES

\* A number takes one, two or four bytes.
LEMMA NumberTyped ==
    ASSUME NEW n \in 0..(Power[4] - 1)
    PROVE  Typed(Num(n)) = IF n < Power[1] THEN <<1, BigIntToBytes(n, 1)>>
                           ELSE IF n < Power[2] THEN <<2, BigIntToBytes(n, 2)>>
                           ELSE <<3, BigIntToBytes(n, 4)>>
  <1>1. Power[1] = Byte
    BY Powers
  <1>2. Num(n).t = "number" /\ Num(n).v = n
    BY DEF Num
  <1>3. Typed(Num(n)) = EncodeFlat(Num(n))
    BY <1>2 DEF Typed
  <1>4. FIELD_TYPES.UINT8 = 1 /\ FIELD_TYPES.UINT16 = 2 /\ FIELD_TYPES.UINT32 = 3
    BY DEF FIELD_TYPES
  <1> DEFINE x == Num(n)
  <1>5. x.t = "number" /\ x.v = n
    BY <1>2
  <1> HIDE DEF x
  <1>6. EncodeFlat(x) = IF n < Power[1] THEN <<1, BigIntToBytes(n, 1)>>
                        ELSE IF n < Power[2] THEN <<2, BigIntToBytes(n, 2)>>
                        ELSE <<3, BigIntToBytes(n, 4)>>
    BY <1>1, <1>4, <1>5 DEF EncodeFlat, EncodeNumber
  <1> QED
    BY <1>3, <1>6 DEF x

\* Its type and bytes tell a number.
LEMMA NumberTold ==
    ASSUME NEW m \in 0..(Power[4] - 1), NEW n \in 0..(Power[4] - 1),
           Typed(Num(m)) = Typed(Num(n))
    PROVE  m = n
  <1>1. Power[1] \in Nat /\ Power[2] \in Nat /\ Power[4] \in Nat
    <2>1. 0 \in 0..3 /\ 1 \in 0..3 /\ 3 \in 0..3 /\ 0 + 1 = 1 /\ 1 + 1 = 2 /\ 3 + 1 = 4
      OBVIOUS
    <2> QED
      BY <2>1, PowersStep
  <1> DEFINE Size(x) == IF x < Power[1] THEN 1 ELSE IF x < Power[2] THEN 2 ELSE 4
             Mark(x) == IF x < Power[1] THEN 1 ELSE IF x < Power[2] THEN 2 ELSE 3
  <1>2. \A x \in 0..(Power[4] - 1) :
           /\ Typed(Num(x)) = <<Mark(x), BigIntToBytes(x, Size(x))>>
           /\ x \in Nat /\ Size(x) \in {1, 2, 4} /\ x < Power[Size(x)]
    BY <1>1, NumberTyped
  <1>3. \A x, y \in Nat : Mark(x) = Mark(y) => Size(x) = Size(y)
    BY <1>1
  <1> HIDE DEF Size, Mark
  <1>4. Mark(m) = Mark(n) /\ BigIntToBytes(m, Size(m)) = BigIntToBytes(n, Size(n))
    BY <1>2
  <1>5. Size(m) = Size(n)
    BY <1>2, <1>3, <1>4
  <1> QED
    BY <1>2, <1>4, <1>5, BytesTell

\* The items an array of texts is written as.
Items(s) == [i \in DOMAIN s |-> Layout(<< >>, <<7, s[i]>>)]

\* An array is its items, one behind the other.
LEMMA ListTyped ==
    ASSUME NEW s \in Seq(Word)
    PROVE  /\ Typed(List(s)) = <<9, ConcatArrays(Items(s))>>
           /\ Items(s) \in Seq(Word) /\ Len(Items(s)) = Len(s)
           /\ \A i \in 1..Len(s) : FieldBytes(Items(s)[i], << >>, 7, s[i])
  <1>1. Len(s) \in Nat /\ DOMAIN s = 1..Len(s) /\ \A i \in 1..Len(s) : s[i] \in Word
    BY WordsOf
  <1>2. << >> \in Word
    BY DEF Word
  <1>3. ASSUME NEW i \in 1..Len(s)
        PROVE  FieldBytes(Layout(<< >>, <<7, s[i]>>), << >>, 7, s[i])
    BY <1>1, <1>2, LayoutBytes
  <1>4. \A i \in 1..Len(s) : Items(s)[i] = Layout(<< >>, <<7, s[i]>>) /\ Items(s)[i] \in Word
    <2>1. ASSUME NEW i \in 1..Len(s)
          PROVE  Items(s)[i] = Layout(<< >>, <<7, s[i]>>) /\ Items(s)[i] \in Word
      <3>1. Items(s)[i] = Layout(<< >>, <<7, s[i]>>)
        BY <1>1 DEF Items
      <3> QED
        BY <1>3, <3>1 DEF FieldBytes
    <2> QED
      BY <2>1
  <1>5. Items(s) \in Seq(Word) /\ Len(Items(s)) = Len(s)
    <2>1. \A n \in Nat : \A f \in [1..n -> Word] : f \in Seq(Word) /\ Len(f) = n
      OBVIOUS
    <2>2. Items(s) = [i \in 1..Len(s) |-> Items(s)[i]]
      BY <1>1 DEF Items
    <2>3. Items(s) \in [1..Len(s) -> Word]
      BY <1>4, <2>2
    <2> QED
      BY <1>1, <2>1, <2>3
  <1>6. Typed(List(s)) = <<9, ConcatArrays(Items(s))>>
    <2> DEFINE x == List(s)
    <2>1. x.t = "array" /\ x.v = [i \in DOMAIN s |-> Txt(s[i])]
      BY DEF List
    <2> HIDE DEF x
    <2>2. DOMAIN x.v = DOMAIN s /\ \A i \in DOMAIN s : x.v[i] = Txt(s[i])
      BY <2>1
    <2>3. \A i \in DOMAIN s : EncodeFlat(x.v[i]) = <<7, s[i]>>
      BY <1>1, <2>2, TextTyped
    <2>4. [i \in DOMAIN x.v |-> Layout(<< >>, EncodeFlat(x.v[i]))] = Items(s)
      BY <2>2, <2>3 DEF Items
    <2>5. FIELD_TYPES.ARRAY = 9
      BY DEF FIELD_TYPES
    <2>6. Typed(x) = <<9, ConcatArrays(Items(s))>>
      BY <2>1, <2>4, <2>5 DEF Typed
    <2> QED
      BY <2>6 DEF x
  <1> QED
    BY <1>3, <1>4, <1>5, <1>6

\* So the bytes of an array of texts tell the texts.
LEMMA ListTold ==
    ASSUME NEW s \in Seq(Word), NEW r \in Seq(Word), Typed(List(s)) = Typed(List(r)),
           Len(ConcatArrays(Items(s))) < Power[4]
    PROVE  s = r
  <1>1. /\ Items(s) \in Seq(Word) /\ Len(Items(s)) = Len(s)
        /\ Items(r) \in Seq(Word) /\ Len(Items(r)) = Len(r)
        /\ ConcatArrays(Items(s)) = ConcatArrays(Items(r))
    BY ListTyped
  <1>2. /\ Len(s) \in Nat /\ DOMAIN s = 1..Len(s) /\ \A i \in 1..Len(s) : s[i] \in Word
        /\ Len(r) \in Nat /\ DOMAIN r = 1..Len(r) /\ \A i \in 1..Len(r) : r[i] \in Word
        /\ << >> \in Word /\ Len(<< >>) = 0
    BY WordsOf DEF Word
  <1>3. ASSUME NEW q \in Seq(Word), Items(q) \in Seq(Word), Len(Items(q)) = Len(q),
               Len(ConcatArrays(Items(q))) < Power[4]
        PROVE  Items(q) \in Seq(Fields) /\ \A i \in 1..Len(q) : Len(q[i]) < Power[4]
    <2>1. Len(q) \in Nat /\ DOMAIN q = 1..Len(q) /\ \A i \in 1..Len(q) : q[i] \in Word
      BY WordsOf
    <2>2. Power[4] \in Nat
      <3>1. 3 \in 0..3 /\ 3 + 1 = 4
        OBVIOUS
      <3> QED
        BY <3>1, PowersStep
    <2>3. ASSUME NEW i \in 1..Len(q) PROVE Len(q[i]) < Power[4] /\ Items(q)[i] \in Fields
      <3>1. FieldBytes(Items(q)[i], << >>, 7, q[i])
        BY ListTyped
      <3>2. Len(Items(q)[i]) = 0 + 6 + Len(q[i]) /\ Items(q)[i] \in Word
        BY <1>2, <3>1 DEF FieldBytes
      <3>3. Len(Items(q)[i]) <= Len(ConcatArrays(Items(q)))
        BY <1>3, WordFits
      <3>4. Len(q[i]) \in Nat /\ Len(ConcatArrays(Items(q))) \in Nat
        BY <1>3, <2>1, ConcatLaysOut DEF Word
      <3>5. Len(q[i]) < Power[4]
        BY <1>3, <2>2, <3>2, <3>3, <3>4
      <3>6. Items(q)[i] = Layout(<< >>, <<7, q[i]>>)
        BY <2>1 DEF Items
      <3>7. Layout(<< >>, <<7, q[i]>>) \in Fields
        BY <1>2, <2>1, <3>5, FieldIn
      <3> QED
        BY <3>5, <3>6, <3>7
    <2>4. \A f \in Seq(Word) : (\A i \in 1..Len(f) : f[i] \in Fields) => f \in Seq(Fields)
      OBVIOUS
    <2> QED
      BY <1>3, <2>3, <2>4
  <1>4. Items(s) = Items(r)
    BY <1>1, <1>3, FieldsPrefixFree, SplitsUniquely
  <1>5. Len(s) = Len(r)
    BY <1>1, <1>4
  <1>6. ASSUME NEW i \in 1..Len(s) PROVE s[i] = r[i]
    <2>1. FieldBytes(Items(s)[i], << >>, 7, s[i]) /\ FieldBytes(Items(s)[i], << >>, 7, r[i])
      BY <1>4, <1>5, ListTyped
    <2>2. Len(s[i]) < Power[4] /\ Len(r[i]) < Power[4]
      BY <1>1, <1>3, <1>5
    <2>3. s[i] \in Word /\ r[i] \in Word
      BY <1>2, <1>5
    <2> DEFINE e == << >>
               seven == 7
    <2>4. e \in Word /\ seven \in Int
      BY <1>2
    <2>5. /\ FieldBytes(Items(s)[i], e, seven, s[i])
          /\ FieldBytes(Items(s)[i], e, seven, r[i])
      BY <2>1
    <2> HIDE DEF e, seven
    <2> QED
      BY <2>2, <2>3, <2>4, <2>5, FieldTold
  <1> QED
    BY <1>2, <1>5, <1>6

\* All of them are written as a type byte and a word.
LEMMA ValueTyped ==
    ASSUME NEW x \in Texts \cup Numbers32 \cup Lists
    PROVE  IsTyped(Typed(x)) /\ \A key : EncodeField(key, x) = Layout(key, Typed(x))
  <1>1. CASE x \in Texts
    <2>1. PICK s \in Word : x = Txt(s)
      BY <1>1 DEF Texts
    <2>2. x.t = "string" /\ Typed(x) = EncodeFlat(x) /\ Typed(x) = <<7, s>>
      BY <2>1, TextTyped DEF Txt
    <2>3. \A key : EncodeField(key, x) = Layout(key, EncodeFlat(x))
      BY <2>2 DEF EncodeField
    <2> QED
      BY <2>2, <2>3 DEF IsTyped
  <1>2. CASE x \in Numbers32
    <2>1. PICK n \in 0..(Power[4] - 1) : x = Num(n)
      BY <1>2 DEF Numbers32
    <2>2. x.t = "number"
      BY <2>1 DEF Num
    <2>3. Typed(x) = EncodeFlat(x)
      BY <2>2 DEF Typed
    <2>4. \A key : EncodeField(key, x) = Layout(key, EncodeFlat(x))
      BY <2>2 DEF EncodeField
    <2>5. n \in Nat
      OBVIOUS
    <2>6. /\ BigIntToBytes(n, 1) \in Word /\ BigIntToBytes(n, 2) \in Word
          /\ BigIntToBytes(n, 4) \in Word
      BY <2>5, BytesAreWord
    <2>7. \/ Typed(x) = <<1, BigIntToBytes(n, 1)>>
          \/ Typed(x) = <<2, BigIntToBytes(n, 2)>>
          \/ Typed(x) = <<3, BigIntToBytes(n, 4)>>
      BY <2>1, NumberTyped
    <2> QED
      BY <2>3, <2>4, <2>6, <2>7 DEF IsTyped
  <1>3. CASE x \in Lists
    <2>1. PICK s \in Seq(Word) : x = List(s)
      BY <1>3 DEF Lists
    <2>2. x.t = "array"
      BY <2>1 DEF List
    <2>3. Typed(x) = <<9, ConcatArrays(Items(s))>> /\ ConcatArrays(Items(s)) \in Word
      BY <2>1, ListTyped, ConcatLaysOut
    <2>4. \A key : EncodeField(key, x) = Layout(key, Typed(x))
      BY <2>2 DEF EncodeField, Typed
    <2> QED
      BY <2>3, <2>4 DEF IsTyped
  <1> QED
    BY <1>1, <1>2, <1>3

\* Values of one kind with the same bytes are the same value.
LEMMA ValueTold ==
    ASSUME NEW S \in {Texts, Numbers32, Lists}, NEW x \in S, NEW y \in S,
           NEW t \in Int, NEW v \in Word, Len(v) < Power[4],
           Typed(x) = <<t, v>>, Typed(y) = <<t, v>>
    PROVE  x = y
  <1>1. CASE S = Texts
    <2>1. PICK s \in Word, r \in Word : x = Txt(s) /\ y = Txt(r)
      BY <1>1 DEF Texts
    <2>2. <<7, s>> = <<t, v>> /\ <<7, r>> = <<t, v>>
      BY <2>1, TextTyped
    <2> QED
      BY <2>1, <2>2
  <1>2. CASE S = Numbers32
    <2>1. PICK m \in 0..(Power[4] - 1), n \in 0..(Power[4] - 1) : x = Num(m) /\ y = Num(n)
      BY <1>2 DEF Numbers32
    <2> QED
      BY <2>1, NumberTold
  <1>3. CASE S = Lists
    <2>1. PICK s \in Seq(Word), r \in Seq(Word) : x = List(s) /\ y = List(r)
      BY <1>3 DEF Lists
    <2>2. <<9, ConcatArrays(Items(s))>> = <<t, v>>
      BY <2>1, ListTyped
    <2> QED
      BY <2>1, <2>2, ListTold
  <1> QED
    BY <1>1, <1>2, <1>3

-----------------------------------------------------------------------------
(* The signed bytes tell the terms *)

\* The values of the thirteen fields of a licence.
LEMMA LicenseValues ==
    ASSUME NEW T
    PROVE  LET d == LicenseData(T) IN
           /\ Len(d) = 13 /\ DOMAIN d = 1..13
           /\ \A i \in 1..13 : d[i].key = BigIntToBytes(i, 2)
           /\ d[1].value = Txt(T.licenseId) /\ d[2].value = Txt(T.customerId)
           /\ d[3].value = Txt(T.tier) /\ d[4].value = List(T.featureFlags)
           /\ d[5].value = Num(T.nodeLimit) /\ d[6].value = Txt(T.period)
           /\ d[7].value = Num(T.maxTransactions) /\ d[8].value = Num(T.maxVolumeUSD)
           /\ d[9].value = Num(T.notBefore) /\ d[10].value = Num(T.notAfter)
           /\ d[11].value = Txt(T.hardwareFingerprint)
           /\ d[12].value = Num(T.gracePeriodHours) /\ d[13].value = Num(T.issuedAt)
  BY DEF LicenseData, List

\* Texts and lists of texts are words and lists of words.
LEMMA TextsAreWords == Text \subseteq Word /\ Seq(Text) \subseteq Seq(Word)
  <1>1. 0..(Byte - 1) \subseteq Int
    OBVIOUS
  <1>2. \A A, B : A \subseteq B => Seq(A) \subseteq Seq(B)
    OBVIOUS
  <1>3. Text \subseteq Word
    BY <1>1, <1>2 DEF Text, Word
  <1> QED
    BY <1>2, <1>3

\* The kind of each of the thirteen values.
Kind == <<Texts, Texts, Texts, Lists, Numbers32, Texts, Numbers32, Numbers32, Numbers32,
          Numbers32, Texts, Numbers32, Numbers32>>

\* Terms that can be signed have values of these kinds.
LEMMA SignableKinds ==
    ASSUME NEW T \in LicenseTerms, Signs(T)
    PROVE  /\ \A i \in 1..13 : /\ Kind[i] \in {Texts, Numbers32, Lists}
                               /\ LicenseData(T)[i].value \in Kind[i]
           /\ {T.nodeLimit, T.maxTransactions, T.maxVolumeUSD, T.notBefore, T.notAfter,
               T.gracePeriodHours, T.issuedAt} \subseteq 0..(Power[4] - 1)
  <1> DEFINE d == LicenseData(T)
  <1>1. \A i \in 1..13 : Encodes(d[i].key, d[i].value)
    BY LicenseValues DEF Signs, Packs
  <1>2. ASSUME NEW i \in 1..13, NEW n, d[i].value = Num(n)
        PROVE  n \in 0..(Power[4] - 1) /\ Num(n) \in Numbers32
    <2> DEFINE x == d[i].value
    <2>1. x.t = "number" /\ x.v = n /\ Encodes(d[i].key, x)
      BY <1>1, <1>2 DEF Num
    <2> HIDE DEF x
    <2>2. EncodesNumber(n)
      BY <2>1 DEF Encodes, EncodesFlat
    <2> QED
      BY <2>2 DEF EncodesNumber, Numbers32
  <1>3. /\ T.licenseId \in Word /\ T.customerId \in Word /\ T.tier \in Word
        /\ T.period \in Word /\ T.hardwareFingerprint \in Word
        /\ T.featureFlags \in Seq(Word)
    BY TextsAreWords DEF LicenseTerms
  <1>4. (\A s \in Word : Txt(s) \in Texts) /\ (\A s \in Seq(Word) : List(s) \in Lists)
    BY DEF Texts, Lists
  <1>5. /\ d[1].value = Txt(T.licenseId) /\ d[2].value = Txt(T.customerId)
        /\ d[3].value = Txt(T.tier) /\ d[4].value = List(T.featureFlags)
        /\ d[5].value = Num(T.nodeLimit) /\ d[6].value = Txt(T.period)
        /\ d[7].value = Num(T.maxTransactions) /\ d[8].value = Num(T.maxVolumeUSD)
        /\ d[9].value = Num(T.notBefore) /\ d[10].value = Num(T.notAfter)
        /\ d[11].value = Txt(T.hardwareFingerprint)
        /\ d[12].value = Num(T.gracePeriodHours) /\ d[13].value = Num(T.issuedAt)
    BY LicenseValues
  <1> HIDE DEF d
  <1>6. /\ d[1].value \in Texts /\ d[2].value \in Texts /\ d[3].value \in Texts
        /\ d[4].value \in Lists /\ d[6].value \in Texts /\ d[11].value \in Texts
    BY <1>3, <1>4, <1>5
  <1>7. /\ d[5].value \in Numbers32 /\ d[7].value \in Numbers32 /\ d[8].value \in Numbers32
        /\ d[9].value \in Numbers32 /\ d[10].value \in Numbers32
        /\ d[12].value \in Numbers32 /\ d[13].value \in Numbers32
    BY <1>2, <1>5
  <1>8. {T.nodeLimit, T.maxTransactions, T.maxVolumeUSD, T.notBefore, T.notAfter,
         T.gracePeriodHours, T.issuedAt} \subseteq 0..(Power[4] - 1)
    BY <1>2, <1>5
  <1>9. /\ Kind[1] = Texts /\ Kind[2] = Texts /\ Kind[3] = Texts /\ Kind[4] = Lists
        /\ Kind[5] = Numbers32 /\ Kind[6] = Texts /\ Kind[7] = Numbers32
        /\ Kind[8] = Numbers32 /\ Kind[9] = Numbers32 /\ Kind[10] = Numbers32
        /\ Kind[11] = Texts /\ Kind[12] = Numbers32 /\ Kind[13] = Numbers32
    BY DEF Kind
  <1>10. \A i \in 1..13 : \/ i = 1 \/ i = 2 \/ i = 3 \/ i = 4 \/ i = 5 \/ i = 6 \/ i = 7
                          \/ i = 8 \/ i = 9 \/ i = 10 \/ i = 11 \/ i = 12 \/ i = 13
    OBVIOUS
  <1>11. \A i \in 1..13 : /\ Kind[i] \in {Texts, Numbers32, Lists}
                          /\ d[i].value \in Kind[i]
    BY <1>6, <1>7, <1>9, <1>10
  <1> QED
    BY <1>8, <1>11 DEF d

\* The thirteen fields that are packed.
FieldsOf(T) == [i \in 1..13 |-> EncodeField(LicenseData(T)[i].key, LicenseData(T)[i].value)]

\* One of them: the key, and a short value that is what the licence's value is written as.
IsField(T, i, t, v) ==
    /\ t \in Int /\ v \in Word /\ Len(v) < Power[4]
    /\ Typed(LicenseData(T)[i].value) = <<t, v>>
    /\ FieldBytes(FieldsOf(T)[i], BigIntToBytes(i, 2), t, v)

\* Terms that can be signed are thirteen fields behind one another.
LEMMA SignedFields ==
    ASSUME NEW T \in LicenseTerms, Signs(T)
    PROVE  /\ FieldsOf(T) \in Seq(Fields) /\ Len(FieldsOf(T)) = 13
           /\ Body(LicenseData(T)) = ConcatArrays(FieldsOf(T))
           /\ Len(Body(LicenseData(T))) < Power[4] /\ Body(LicenseData(T)) \in Word
           /\ \A i \in 1..13 : \E t, v : IsField(T, i, t, v)
  <1> DEFINE d == LicenseData(T)
             s == FieldsOf(T)
  <1>1. Len(d) = 13 /\ DOMAIN d = 1..13 /\ \A i \in 1..13 : d[i].key = BigIntToBytes(i, 2)
    BY LicenseValues
  <1>2. ASSUME NEW i \in 1..13
        PROVE  \E t \in Int, v \in Word :
                  /\ Typed(d[i].value) = <<t, v>> /\ s[i] = Layout(BigIntToBytes(i, 2), <<t, v>>)
                  /\ FieldBytes(s[i], BigIntToBytes(i, 2), t, v)
    <2>1. d[i].value \in Texts \cup Numbers32 \cup Lists
      BY SignableKinds
    <2>2. PICK t \in Int, v \in Word : Typed(d[i].value) = <<t, v>>
      BY <2>1, ValueTyped DEF IsTyped
    <2>3. s[i] = Layout(BigIntToBytes(i, 2), <<t, v>>)
      BY <1>1, <2>1, <2>2, ValueTyped DEF FieldsOf
    <2>4. BigIntToBytes(i, 2) \in Word
      BY BytesAreWord
    <2>5. FieldBytes(Layout(BigIntToBytes(i, 2), <<t, v>>), BigIntToBytes(i, 2), t, v)
      BY <2>4, LayoutBytes
    <2> QED
      BY <2>2, <2>3, <2>5
  <1>3. s \in Seq(Word) /\ Len(s) = 13
    <2>1. \A i \in 1..13 : s[i] \in Word
      BY <1>2 DEF FieldBytes
    <2>2. s = [i \in 1..13 |-> s[i]]
      BY DEF FieldsOf
    <2> HIDE DEF s
    <2> QED
      BY <2>1, <2>2
  <1>4. Body(d) = ConcatArrays(s)
    BY <1>1 DEF Body, FieldsOf
  <1>5. ConcatArrays(s) \in Word /\ Power[4] \in Nat
    <2>1. 3 \in 0..3 /\ 3 + 1 = 4
      OBVIOUS
    <2> QED
      BY <1>3, <2>1, ConcatLaysOut, PowersStep
  <1>6. TotalLen(LICENSE_BLOB, d) <= MAX_PAYLOAD_SIZE /\ MAX_PAYLOAD_SIZE < Power[4]
    BY SerializerAssumption DEF Signs, Packs
  <1>7. Len(Body(d)) < Power[4]
    <2>1. Len(Body(d)) \in Nat
      BY <1>4, <1>5 DEF Word
    <2>2. TotalLen(LICENSE_BLOB, d) = 17 + Len(Body(d))
      BY <2>1 DEF TotalLen, LICENSE_BLOB
    <2>3. MAX_PAYLOAD_SIZE \in Nat
      BY SerializerAssumption
    <2> QED
      BY <1>5, <1>6, <2>1, <2>2, <2>3
  <1>8. ASSUME NEW i \in 1..13 PROVE s[i] \in Fields /\ \E t, v : IsField(T, i, t, v)
    <2>1. PICK t \in Int, v \in Word :
             /\ Typed(d[i].value) = <<t, v>> /\ s[i] = Layout(BigIntToBytes(i, 2), <<t, v>>)
             /\ FieldBytes(s[i], BigIntToBytes(i, 2), t, v)
      BY <1>2
    <2>2. Len(s[i]) <= Len(ConcatArrays(s))
      BY <1>3, WordFits
    <2>3. BigIntToBytes(i, 2) \in Word /\ Len(BigIntToBytes(i, 2)) = 2
      BY BytesAreWord
    <2>4. Len(s[i]) = 8 + Len(v) /\ Len(v) \in Nat
      <3>1. Len(v) \in Nat
        BY DEF Word
      <3>2. Len(s[i]) = Len(BigIntToBytes(i, 2)) + 6 + Len(v)
        BY <2>1 DEF FieldBytes
      <3> DEFINE m == Len(s[i])
                 n == Len(BigIntToBytes(i, 2))
                 k == Len(v)
      <3>3. k \in Nat /\ n = 2 /\ m = n + 6 + k
        BY <2>3, <3>1, <3>2
      <3> HIDE DEF m, n, k
      <3>4. m = 8 + k
        BY <3>3
      <3> QED
        BY <3>3, <3>4 DEF m, k
    <2>5. Len(v) < Power[4]
      <3>1. Len(ConcatArrays(s)) \in Nat
        BY <1>5 DEF Word
      <3> QED
        BY <1>4, <1>5, <1>7, <2>2, <2>4, <3>1
    <2>6. s[i] \in Fields
      BY <2>1, <2>3, <2>5, FieldIn
    <2> QED
      BY <2>1, <2>5, <2>6 DEF IsField
  <1>9. s \in Seq(Fields)
    <2>1. s = [i \in 1..13 |-> s[i]]
      BY DEF FieldsOf
    <2>2. \A i \in 1..13 : s[i] \in Fields
      BY <1>8
    <2> HIDE DEF s
    <2> QED
      BY <2>1, <2>2
  <1> QED
    BY <1>3, <1>4, <1>5, <1>7, <1>8, <1>9

\* The payload is a header of thirteen bytes and the body.
LEMMA PayloadCut ==
    ASSUME NEW T \in LicenseTerms, Signs(T)
    PROVE  \E header \in Word :
              /\ Len(header) = 13
              /\ SerializeLicenseData(T) = header \o Body(LicenseData(T))
  <1> DEFINE b == Body(LicenseData(T))
             len == TotalLen(LICENSE_BLOB, LicenseData(T)) - 4 - 1 - 4
             count == Len(LicenseData(T))
             l == BigIntToBytes(len, 4)
             c == BigIntToBytes(count, 2)
             tl == <<Len(LICENSE_BLOB)>>
             h1 == MAGIC \o <<VERSION>>
             h2 == h1 \o l
             h3 == h2 \o tl
             h4 == h3 \o LICENSE_BLOB
             h5 == h4 \o c
  <1>1. b \in Word /\ Len(b) \in Nat
    BY SignedFields DEF Word
  <1>2. len \in Nat /\ count \in Nat
    <2>1. Len(LICENSE_BLOB) = 1
      BY DEF LICENSE_BLOB
    <2>2. TotalLen(LICENSE_BLOB, LicenseData(T)) = 17 + Len(b)
      BY <1>1, <2>1 DEF TotalLen
    <2>3. count = 13
      BY LicenseValues
    <2> HIDE DEF b, count
    <2> QED
      BY <1>1, <2>2, <2>3
  <1>3. SerializeLicenseData(T) = h5 \o b
    BY DEF SerializeLicenseData, Pack
  <1>4. l \in Word /\ Len(l) = 4 /\ c \in Word /\ Len(c) = 2
    BY <1>2, BytesAreWord
  <1>5. h1 \in Word /\ Len(h1) = 5
    BY DEF MAGIC, VERSION, Word
  <1>6. tl \in Word /\ Len(tl) = 1 /\ LICENSE_BLOB \in Word /\ Len(LICENSE_BLOB) = 1
    BY DEF LICENSE_BLOB, Word
  <1> HIDE DEF b, len, count, l, c, tl, h1
  <1>7. h2 \in Word /\ Len(h2) = 9
    <2>1. h2 \in Word /\ Len(h2) = Len(h1) + Len(l)
      BY <1>4, <1>5, JoinedWords
    <2> HIDE DEF h2
    <2> QED
      BY <1>4, <1>5, <2>1
  <1> HIDE DEF h2
  <1>8. h3 \in Word /\ Len(h3) = 10
    <2>1. h3 \in Word /\ Len(h3) = Len(h2) + Len(tl)
      BY <1>6, <1>7, JoinedWords
    <2> HIDE DEF h3
    <2> QED
      BY <1>6, <1>7, <2>1
  <1> HIDE DEF h3
  <1>9. h4 \in Word /\ Len(h4) = 11
    <2>1. h4 \in Word /\ Len(h4) = Len(h3) + Len(LICENSE_BLOB)
      BY <1>6, <1>8, JoinedWords
    <2> HIDE DEF h4
    <2> QED
      BY <1>6, <1>8, <2>1
  <1> HIDE DEF h4
  <1>10. h5 \in Word /\ Len(h5) = 13
    <2>1. h5 \in Word /\ Len(h5) = Len(h4) + Len(c)
      BY <1>4, <1>9, JoinedWords
    <2> HIDE DEF h5
    <2> QED
      BY <1>4, <1>9, <2>1
  <1> HIDE DEF h5
  <1> QED
    BY <1>3, <1>10 DEF b

\* Equal payloads have equal bodies.
LEMMA BodyTold ==
    ASSUME NEW h \in Word, NEW k \in Word, Len(h) = Len(k),
           NEW a \in Word, NEW b \in Word, h \o a = k \o b
    PROVE  a = b
  <1> DEFINE w == h \o a
  <1>1. Len(w) = Len(h) + Len(a) /\ \A j \in 1..Len(a) : w[Len(h) + j] = a[j]
    BY JoinedWords
  <1>2. w = k \o b
    OBVIOUS
  <1> HIDE DEF w
  <1>3. Len(w) = Len(k) + Len(b) /\ \A j \in 1..Len(b) : w[Len(k) + j] = b[j]
    BY <1>2, JoinedWords
  <1>4. Len(a) \in Nat /\ Len(b) \in Nat /\ Len(h) \in Nat
    BY DEF Word
  <1>5. Len(a) = Len(b)
    BY <1>1, <1>3, <1>4
  <1>6. \A j \in 1..Len(a) : a[j] = b[j]
    BY <1>1, <1>3, <1>5
  <1> QED
    BY <1>5, <1>6, WordsEqual

\* The thirteen values tell the terms.
LEMMA ValuesTellTerms ==
    ASSUME NEW S \in LicenseTerms, NEW T \in LicenseTerms,
           \A i \in 1..13 : LicenseData(S)[i].value = LicenseData(T)[i].value
    PROVE  S = T
  <1>1. /\ \A a, b : Txt(a) = Txt(b) => a = b
        /\ \A a, b : Num(a) = Num(b) => a = b
    BY DEF Txt, Num
  <1>2. S.featureFlags \in Seq(Text) /\ T.featureFlags \in Seq(Text)
    BY DEF LicenseTerms
  <1>3. \A a, b \in Seq(Text) : List(a) = List(b) => a = b
    <2>1. SUFFICES ASSUME NEW a \in Seq(Text), NEW b \in Seq(Text), List(a) = List(b)
                   PROVE  a = b
      OBVIOUS
    <2>2. [i \in DOMAIN a |-> Txt(a[i])] = [i \in DOMAIN b |-> Txt(b[i])]
      BY <2>1 DEF List
    <2>3. DOMAIN a = DOMAIN b
      BY <2>2
    <2>4. \A i \in DOMAIN a : a[i] = b[i]
      BY <1>1, <2>2, <2>3
    <2>5. DOMAIN a = 1..Len(a) /\ DOMAIN b = 1..Len(b) /\ Len(a) = Len(b)
      BY <2>3
    <2> QED
      BY <2>4, <2>5
  <1> DEFINE d == LicenseData(S)
             e == LicenseData(T)
  <1>4. /\ d[1].value = Txt(S.licenseId) /\ d[2].value = Txt(S.customerId)
        /\ d[3].value = Txt(S.tier) /\ d[4].value = List(S.featureFlags)
        /\ d[5].value = Num(S.nodeLimit) /\ d[6].value = Txt(S.period)
        /\ d[7].value = Num(S.maxTransactions) /\ d[8].value = Num(S.maxVolumeUSD)
        /\ d[9].value = Num(S.notBefore) /\ d[10].value = Num(S.notAfter)
        /\ d[11].value = Txt(S.hardwareFingerprint)
        /\ d[12].value = Num(S.gracePeriodHours) /\ d[13].value = Num(S.issuedAt)
    BY LicenseValues
  <1>5. /\ e[1].value = Txt(T.licenseId) /\ e[2].value = Txt(T.customerId)
        /\ e[3].value = Txt(T.tier) /\ e[4].value = List(T.featureFlags)
        /\ e[5].value = Num(T.nodeLimit) /\ e[6].value = Txt(T.period)
        /\ e[7].value = Num(T.maxTransactions) /\ e[8].value = Num(T.maxVolumeUSD)
        /\ e[9].value = Num(T.notBefore) /\ e[10].value = Num(T.notAfter)
        /\ e[11].value = Txt(T.hardwareFingerprint)
        /\ e[12].value = Num(T.gracePeriodHours) /\ e[13].value = Num(T.issuedAt)
    BY LicenseValues
  <1>6. \A i \in 1..13 : d[i].value = e[i].value
    OBVIOUS
  <1> HIDE DEF d, e
  <1>7. /\ S.licenseId = T.licenseId /\ S.customerId = T.customerId /\ S.tier = T.tier
        /\ S.period = T.period /\ S.hardwareFingerprint = T.hardwareFingerprint
    BY <1>1, <1>4, <1>5, <1>6
  <1>8. /\ S.nodeLimit = T.nodeLimit /\ S.maxTransactions = T.maxTransactions
        /\ S.maxVolumeUSD = T.maxVolumeUSD /\ S.notBefore = T.notBefore
        /\ S.notAfter = T.notAfter /\ S.gracePeriodHours = T.gracePeriodHours
        /\ S.issuedAt = T.issuedAt
    BY <1>1, <1>4, <1>5, <1>6
  <1>9. S.featureFlags = T.featureFlags
    BY <1>2, <1>3, <1>4, <1>5, <1>6
  <1> DEFINE Names == {"licenseId", "customerId", "tier", "featureFlags", "nodeLimit", "period",
                       "maxTransactions", "maxVolumeUSD", "notBefore", "notAfter",
                       "hardwareFingerprint", "gracePeriodHours", "issuedAt"}
  <1>10. S = [x \in Names |-> S[x]] /\ T = [x \in Names |-> T[x]]
    BY DEF LicenseTerms
  <1>11. \A x \in Names : S[x] = T[x]
    BY <1>7, <1>8, <1>9
  <1> HIDE DEF Names
  <1> QED
    BY <1>10, <1>11

\* A signature vouches for every term of the licence: the only terms whose packed
\* bytes verify under it are those the issuer signed (signLicenseBlob and
\* verifyLicenseBlob, on the bytes of BinaryPayloadSerializer.pack).
THEOREM SignatureBindsTerms == \A l \in Authentic : l.terms = l.signed
  <1>1. SUFFICES ASSUME NEW l \in Authentic PROVE l.terms = l.signed
    OBVIOUS
  <1> DEFINE S == l.terms
             T == l.signed
  <1>2. /\ S \in LicenseTerms /\ T \in LicenseTerms /\ Signs(S) /\ Signs(T)
        /\ SerializeLicenseData(S) = SerializeLicenseData(T)
    BY LicenseAssumption DEF Authentic
  <1> HIDE DEF S, T
  <1>3. Body(LicenseData(S)) = Body(LicenseData(T))
    <2>1. PICK h \in Word : Len(h) = 13 /\ SerializeLicenseData(S) = h \o Body(LicenseData(S))
      BY <1>2, PayloadCut
    <2>2. PICK k \in Word : Len(k) = 13 /\ SerializeLicenseData(T) = k \o Body(LicenseData(T))
      BY <1>2, PayloadCut
    <2>3. Body(LicenseData(S)) \in Word /\ Body(LicenseData(T)) \in Word
      BY <1>2, SignedFields
    <2> DEFINE a == Body(LicenseData(S))
               b == Body(LicenseData(T))
    <2>4. a \in Word /\ b \in Word /\ h \o a = k \o b /\ Len(h) = Len(k)
      BY <1>2, <2>1, <2>2, <2>3
    <2> HIDE DEF a, b
    <2>5. a = b
      BY <2>4, BodyTold
    <2> QED
      BY <2>5 DEF a, b
  <1>4. FieldsOf(S) = FieldsOf(T)
    <2>1. FieldsOf(S) \in Seq(Fields) /\ FieldsOf(T) \in Seq(Fields)
      BY <1>2, SignedFields
    <2>2. ConcatArrays(FieldsOf(S)) = ConcatArrays(FieldsOf(T))
      BY <1>2, <1>3, SignedFields
    <2> QED
      BY <2>1, <2>2, FieldsPrefixFree, SplitsUniquely
  <1>5. ASSUME NEW i \in 1..13
        PROVE  LicenseData(S)[i].value = LicenseData(T)[i].value
    <2>1. PICK t, v : IsField(S, i, t, v)
      BY <1>2, SignedFields
    <2>2. PICK u, w : IsField(T, i, u, w)
      BY <1>2, SignedFields
    <2>3. BigIntToBytes(i, 2) \in Word
      BY BytesAreWord
    <2>4. t = u /\ v = w
      BY <1>4, <2>1, <2>2, <2>3, FieldTold DEF IsField
    <2>5. /\ Kind[i] \in {Texts, Numbers32, Lists}
          /\ LicenseData(S)[i].value \in Kind[i] /\ LicenseData(T)[i].value \in Kind[i]
      BY <1>2, SignableKinds
    <2> QED
      BY <2>1, <2>2, <2>4, <2>5, ValueTold DEF IsField
  <1>6. S = T
    BY <1>2, <1>5, ValuesTellTerms
  <1> QED
    BY <1>6 DEF S, T

-----------------------------------------------------------------------------
(* The inductive invariant of the kernel *)

Fingerprints == {GenerateHardwareFingerprint(m) : m \in Machines}

\* A blob whose checks passed at the given time: it is signed, begun, expired, and in
\* grace.
Passed(l, time) ==
    /\ l \in Authentic /\ time \in Nat /\ l.terms.notBefore <= time
    /\ l.terms.notAfter < time /\ time < GraceEnd(l.terms)

ClockAdvances ==
    /\ now \in Nat /\ StartTime <= now
    /\ hw \in Machines /\ changes \in Nat /\ inits \in Nat

\* The secret is erased exactly since the first shutdown.
SecretErased ==
    /\ heartbeatSecret \in {"issued", "zero"}
    /\ shutAt \in Nat /\ shutAt <= now
    /\ heartbeatSecret = "zero" <=> shutAt # 0

\* A call that waits has a licence that passed, and, once it has read the hardware,
\* an identity that is that of the machine m unless the hardware changed since.
\* n counts the changes.
CallChecked(k, n, m) ==
    /\ k.at \in {"idle", "reading", "checking"}
    /\ k.at # "idle" => Passed(k.blob, k.verifiedAt) /\ k.verification.inGracePeriod = TRUE
    /\ k.at = "checking" =>
          /\ k.fingerprint \in Fingerprints /\ k.readAt \in Nat /\ k.readAt <= n
          /\ k.readAt = n => k.fingerprint = GenerateHardwareFingerprint(m)

CallsChecked == DOMAIN call = Call /\ \A c \in Call : CallChecked(call[c], changes, hw)

\* An interval was armed for a state and no callback is late by more than Slack.
IntervalsOnTime ==
    /\ DOMAIN intervals \subseteq Call
    /\ \A h \in DOMAIN intervals :
          intervals[h] \in Nat /\ now <= intervals[h] + Slack /\ state # NoState

Installation ==
    [terms : LicenseTerms, signed : LicenseTerms,
     fingerprint : {f.fingerprint : f \in Fingerprints}, verifiedAt : Nat, changed : Int]

InstallationSound(r) ==
    /\ r.terms = r.signed /\ r.terms.notBefore <= r.verifiedAt
    /\ r.terms.notAfter < r.verifiedAt /\ r.verifiedAt < GraceEnd(r.terms)
    /\ r.terms.hardwareFingerprint # << >> /\ r.changed = 0 =>
          r.fingerprint = r.terms.hardwareFingerprint

InstallationsSound ==
    /\ installed \in Seq(Installation)
    /\ \A i \in 1..Len(installed) : InstallationSound(installed[i])

StateFields ==
    {"blob", "hwFingerprint", "isValid", "gracePeriodActive", "totalTransactions",
     "totalVolumeUSD", "lastHeartbeatAt", "lastHeartbeatToken"}

\* The state is that of the last installation, with usage inside its quota.
StateSound ==
    /\ state = NoState <=> Len(installed) = 0
    /\ state # NoState =>
          /\ DOMAIN state = StateFields
          /\ LET r == installed[Len(installed)] IN
             /\ state.blob.terms = r.terms /\ state.hwFingerprint.fingerprint = r.fingerprint
          /\ state.isValid = TRUE /\ state.gracePeriodActive = TRUE
          /\ state.totalTransactions \in Int
          /\ state.totalTransactions <= state.blob.terms.maxTransactions
          /\ state.totalVolumeUSD <= state.blob.terms.maxVolumeUSD

\* A token vouches for an installation: its own time, its identity, usage inside its
\* quota, and if the issued secret is behind it no time after the shutdown at shut.
Vouches(token, r, time, shut) ==
    LET f == token.fields IN
    /\ f.timestamp \in Nat /\ f.timestamp <= time /\ f.epoch = f.timestamp \div EpochMs
    /\ f.hwFingerprint = r.fingerprint
    /\ f.usage.tx <= r.terms.maxTransactions /\ f.usage.vol <= r.terms.maxVolumeUSD
    /\ token.hmac.over = f
    /\ token.hmac.key = "issued" /\ shut # 0 => f.timestamp <= shut

TokensVouch ==
    \A x \in tokens :
       x.under \in 1..Len(installed) /\ Vouches(x.token, installed[x.under], now, shutAt)

\* So does the last token of the state; and while the secret lasts the interval that
\* made it is still armed, so that it is not older than an interval and the Slack.
LastTokenFresh ==
    HasBeaten =>
      LET token == state.lastHeartbeatToken IN
      /\ Vouches(token, installed[Len(installed)], now, shutAt)
      /\ token.fields.timestamp = state.lastHeartbeatAt
      /\ token.hmac = [key |-> token.hmac.key, over |-> token.fields]
      /\ heartbeatSecret = "issued" =>
            /\ token.hmac.key = "issued"
            /\ \E h \in DOMAIN intervals : intervals[h] = state.lastHeartbeatAt + EpochMs

IInv ==
    /\ ClockAdvances /\ SecretErased /\ CallsChecked /\ IntervalsOnTime
    /\ InstallationsSound /\ StateSound /\ TokensVouch /\ LastTokenFresh

\* What the assumptions say of time.
LEMMA Times ==
    /\ EpochMs \in Nat /\ EpochMs > 0 /\ Slack \in Nat /\ Slack <= EpochMs
    /\ StartTime \in Nat /\ StartTime > 0
    /\ \A n \in 0..(Power[4] - 1) : n \in Nat /\ n < StartTime
  <1>1. 3 \in 0..3 /\ 3 + 1 = 4
    OBVIOUS
  <1>2. Power[4] \in Nat /\ Power[4] > 0
    <2>1. Power[3] \in Nat /\ Power[3] > 0 /\ Power[4] = Byte * Power[3] /\ Power[4] \in Nat
      BY <1>1, PowersStep
    <2>2. Byte \in Nat /\ Byte > 0
      BY SerializerAssumption
    <2>3. \A a, b \in Nat : a > 0 /\ b > 0 => a * b > 0
      OBVIOUS
    <2> QED
      BY <2>1, <2>2, <2>3
  <1>3. /\ EpochMs \in Nat /\ EpochMs > 0 /\ Slack \in Nat /\ Slack <= EpochMs
        /\ StartTime \in Nat /\ Power[4] <= StartTime
    BY LicenseAssumption
  <1> QED
    BY <1>2, <1>3

\* A licence whose check the kernel lets pass is expired and in its grace period.
LEMMA LicencePasses ==
    ASSUME NEW l \in Licences, NEW time \in Nat, StartTime <= time,
           VerifyLicenseBlob(l, time).valid \/ VerifyLicenseBlob(l, time).inGracePeriod
    PROVE  Passed(l, time) /\ VerifyLicenseBlob(l, time).inGracePeriod = TRUE
  <1>1. l \in Authentic
    BY DEF VerifyLicenseBlob
  <1>2. l.terms \in LicenseTerms /\ Signs(l.terms)
    BY <1>1, LicenseAssumption DEF Authentic
  <1>3. l.terms.notAfter \in 0..(Power[4] - 1)
    BY <1>2, SignableKinds
  <1>4. l.terms.notAfter < time
    <2>1. l.terms.notAfter \in Nat /\ l.terms.notAfter < StartTime /\ StartTime \in Nat
      BY <1>3, Times
    <2> QED
      BY <2>1
  <1>5. time > l.terms.notAfter
    BY <1>3, <1>4
  <1> QED
    BY <1>1, <1>4, <1>5 DEF VerifyLicenseBlob, Passed

\* The quotas of a licence that passed are not negative.
LEMMA PassedTerms ==
    ASSUME NEW l, NEW time, Passed(l, time)
    PROVE  /\ l \in Licences /\ l.terms = l.signed /\ l.terms \in LicenseTerms
           /\ 0 <= l.terms.maxTransactions /\ 0 <= l.terms.maxVolumeUSD
  <1>1. l \in Authentic
    BY DEF Passed
  <1>2. l \in Licences /\ l.terms \in LicenseTerms /\ Signs(l.terms)
    BY <1>1, LicenseAssumption DEF Authentic
  <1>3. {l.terms.maxTransactions, l.terms.maxVolumeUSD} \subseteq 0..(Power[4] - 1)
    BY <1>2, SignableKinds
  <1> QED
    BY <1>1, <1>2, <1>3, SignatureBindsTerms, Times

\* A token keeps vouching when time passes and when the kernel shuts down.
LEMMA KeepsVouching ==
    ASSUME NEW token, NEW r, NEW t1 \in Nat, NEW t2 \in Nat, t1 <= t2,
           NEW s1 \in Nat, NEW s2 \in Nat, s1 # 0 => s2 = s1, s1 = 0 => s2 \in {0, t1},
           Vouches(token, r, t1, s1)
    PROVE  Vouches(token, r, t2, s2)
  BY DEF Vouches

\* A token made for the state vouches for its installation.
LEMMA HeartbeatVouches ==
    ASSUME ClockAdvances, SecretErased, StateSound, state # NoState
    PROVE  LET token == GenerateHeartbeat(state, heartbeatSecret) IN
           /\ Vouches(token, installed[Len(installed)], now, shutAt)
           /\ token.fields.timestamp = now /\ token.hmac.key = heartbeatSecret
           /\ token.hmac = [key |-> token.hmac.key, over |-> token.fields]
  BY DEF ClockAdvances, SecretErased, StateSound, Vouches, GenerateHeartbeat

\* The initial states.
LEMMA InitIInv == Init => IInv
  <1> SUFFICES ASSUME Init PROVE IInv
    OBVIOUS
  <1>1. ClockAdvances
    BY Times DEF Init, ClockAdvances
  <1>2. SecretErased
    BY Times DEF Init, SecretErased
  <1>3. CallsChecked
    BY DEF Init, CallsChecked, CallChecked, Idle
  <1>4. IntervalsOnTime
    BY DEF Init, IntervalsOnTime
  <1>5. InstallationsSound
    BY DEF Init, InstallationsSound
  <1>6. StateSound
    BY DEF Init, StateSound
  <1>7. TokensVouch
    BY DEF Init, TokensVouch
  <1>8. LastTokenFresh
    BY DEF Init, LastTokenFresh, HasBeaten
  <1> QED
    BY <1>1, <1>2, <1>3, <1>4, <1>5, <1>6, <1>7, <1>8 DEF IInv

\* A call begins.
LEMMA InitBeginIInv ==
    ASSUME IInv, NEW l \in Licences, InitBegin(l)
    PROVE  IInv'
  <1> DEFINE v == VerifyLicenseBlob(l, now)
             k == [at |-> "reading", blob |-> l, verification |-> v, verifiedAt |-> now]
  <1>1. /\ now \in Nat /\ StartTime <= now /\ inits \in Nat
        /\ DOMAIN call = Call /\ \A c \in Call : CallChecked(call[c], changes, hw)
    BY DEF IInv, ClockAdvances, CallsChecked
  <1>2. /\ v.valid \/ v.inGracePeriod
        /\ inits' = inits + 1 /\ call' = [call EXCEPT ![inits + 1] = k]
        /\ UNCHANGED <<now, hw, changes, state, heartbeatSecret, heartbeatTimer, intervals,
                       installed, shutAt, tokens>>
    BY DEF InitBegin
  <1>3. CallChecked(k, changes, hw)
    <2>1. Passed(l, now) /\ v.inGracePeriod = TRUE
      BY <1>1, <1>2, LicencePasses
    <2> HIDE DEF v
    <2> QED
      BY <2>1 DEF CallChecked
  <1> HIDE DEF k, v
  <1>4. CallsChecked'
    BY <1>1, <1>2, <1>3 DEF CallsChecked
  <1>5. ClockAdvances'
    BY <1>2 DEF IInv, ClockAdvances
  <1> QED
    BY <1>2, <1>4, <1>5
       DEF IInv, SecretErased, IntervalsOnTime, InstallationsSound, StateSound, TokensVouch,
           LastTokenFresh, HasBeaten

\* A waiting call installs a state.
LEMMA InstallIInv ==
    ASSUME IInv, NEW c \in Call, call[c].at # "idle", NEW f \in Fingerprints,
           NEW readAt \in Nat, Install(c, f, readAt),
           call[c].blob.terms.hardwareFingerprint # << >> /\ readAt = changes =>
               f.fingerprint = call[c].blob.terms.hardwareFingerprint
    PROVE  IInv'
  <1> DEFINE l == call[c].blob
             s == [blob |-> l, hwFingerprint |-> f,
                   isValid |-> call[c].verification.valid \/ call[c].verification.inGracePeriod,
                   gracePeriodActive |-> call[c].verification.inGracePeriod,
                   totalTransactions |-> 0, totalVolumeUSD |-> 0,
                   lastHeartbeatAt |-> 0, lastHeartbeatToken |-> NoToken]
             r == [terms |-> l.terms, signed |-> l.signed, fingerprint |-> f.fingerprint,
                   verifiedAt |-> call[c].verifiedAt, changed |-> changes - readAt]
  <1>1. /\ Passed(l, call[c].verifiedAt) /\ call[c].verification.inGracePeriod = TRUE
        /\ now \in Nat /\ changes \in Nat /\ EpochMs \in Nat /\ Slack \in Nat
    BY Times DEF IInv, CallsChecked, CallChecked, ClockAdvances
  <1>2. /\ l \in Licences /\ l.terms = l.signed /\ l.terms \in LicenseTerms
        /\ 0 <= l.terms.maxTransactions /\ 0 <= l.terms.maxVolumeUSD
    BY <1>1, PassedTerms
  <1>3. /\ state' = s /\ StartHeartbeat(s, c)
        /\ call' = [call EXCEPT ![c] = Idle] /\ installed' = Append(installed, r)
        /\ UNCHANGED <<now, hw, changes, heartbeatSecret, inits, shutAt, tokens>>
    BY DEF Install
  <1>4. /\ s.blob = l /\ s.hwFingerprint = f /\ s.isValid = TRUE /\ s.gracePeriodActive = TRUE
        /\ s.totalTransactions = 0 /\ s.totalVolumeUSD = 0 /\ s.lastHeartbeatToken = NoToken
        /\ DOMAIN s = StateFields /\ s # NoState
    BY <1>1 DEF StateFields, NoState
  <1>5. r \in Installation /\ InstallationSound(r)
    <2>1. r \in Installation
      BY <1>1, <1>2 DEF Installation, Passed
    <2>2. changes - readAt = 0 => readAt = changes
      BY <1>1
    <2> QED
      BY <1>1, <1>2, <2>1, <2>2 DEF InstallationSound, Passed
  <1>6. r.terms = l.terms /\ r.fingerprint = f.fingerprint
    OBVIOUS
  <1> HIDE DEF s, r
  <1>7. /\ installed \in Seq(Installation)
        /\ \A i \in 1..Len(installed) : InstallationSound(installed[i])
    BY DEF IInv, InstallationsSound
  <1>8. /\ installed' \in Seq(Installation) /\ Len(installed') = Len(installed) + 1
        /\ Len(installed) \in Nat
        /\ \A i \in 1..Len(installed) : installed'[i] = installed[i]
        /\ installed'[Len(installed) + 1] = r
    BY <1>3, <1>5, <1>7
  <1>9. InstallationsSound'
    <2>1. \A i \in 1..Len(installed') : i \in 1..Len(installed) \/ i = Len(installed) + 1
      BY <1>8
    <2> QED
      BY <1>5, <1>7, <1>8, <2>1 DEF InstallationsSound
  <1>10. StateSound'
    BY <1>2, <1>3, <1>4, <1>6, <1>8 DEF StateSound
  <1>11. CallsChecked'
    <2>1. CallChecked(Idle, changes, hw)
      BY DEF CallChecked, Idle
    <2> QED
      BY <1>3, <2>1 DEF IInv, CallsChecked
  <1>12. IntervalsOnTime'
    <2>1. intervals' = [h \in DOMAIN intervals \cup {c} |->
                           IF h = c THEN now + EpochMs ELSE intervals[h]]
      BY <1>3 DEF StartHeartbeat
    <2>2. DOMAIN intervals' = DOMAIN intervals \cup {c}
      BY <2>1
    <2>3. ASSUME NEW h \in DOMAIN intervals'
          PROVE  intervals'[h] \in Nat /\ now <= intervals'[h] + Slack
      <3>1. CASE h = c
        BY <1>1, <2>1, <2>2, <3>1
      <3>2. CASE h # c
        BY <2>1, <2>2, <3>2 DEF IInv, IntervalsOnTime
      <3> QED
        BY <3>1, <3>2
    <2> QED
      BY <1>3, <1>4, <2>2, <2>3 DEF IInv, IntervalsOnTime
  <1>13. TokensVouch'
    <2>1. \A i \in 1..Len(installed) : i \in 1..Len(installed')
      BY <1>8
    <2> QED
      BY <1>3, <1>8, <2>1 DEF IInv, TokensVouch
  <1>14. LastTokenFresh'
    BY <1>3, <1>4 DEF LastTokenFresh, HasBeaten
  <1>15. ClockAdvances' /\ SecretErased'
    BY <1>3 DEF IInv, ClockAdvances, SecretErased
  <1> QED
    BY <1>9, <1>10, <1>11, <1>12, <1>13, <1>14, <1>15 DEF IInv

\* A call ends or waits for the second reading, and nothing is installed.
LEMMA CallMovesIInv ==
    ASSUME IInv, NEW c \in Call, NEW k, CallChecked(k, changes, hw),
           call' = [call EXCEPT ![c] = k],
           UNCHANGED <<now, hw, changes, state, heartbeatSecret, heartbeatTimer, intervals,
                       inits, installed, shutAt, tokens>>
    PROVE  IInv'
  <1>1. CallsChecked'
    BY DEF IInv, CallsChecked
  <1> QED
    BY <1>1
       DEF IInv, ClockAdvances, SecretErased, IntervalsOnTime, InstallationsSound, StateSound,
           TokensVouch, LastTokenFresh, HasBeaten

\* The first reading ends.
LEMMA ReadFingerprintIInv ==
    ASSUME IInv, NEW c \in Call, ReadFingerprint(c)
    PROVE  IInv'
  <1> DEFINE f == GenerateHardwareFingerprint(hw)
             k == [at |-> "checking", blob |-> call[c].blob,
                   verification |-> call[c].verification, verifiedAt |-> call[c].verifiedAt,
                   fingerprint |-> f, readAt |-> changes]
  <1>1. f \in Fingerprints /\ changes \in Nat
    BY DEF IInv, ClockAdvances, Fingerprints
  <1>2. /\ call[c].at = "reading" /\ DOMAIN call = Call
        /\ Passed(call[c].blob, call[c].verifiedAt)
        /\ call[c].verification.inGracePeriod = TRUE
    BY DEF IInv, CallsChecked, CallChecked, ReadFingerprint
  <1>3. CASE call[c].blob.terms.hardwareFingerprint = << >> /\ Install(c, f, changes)
    <2> HIDE DEF f
    <2> QED
      BY <1>1, <1>2, <1>3, InstallIInv
  <1>4. CASE /\ call' = [call EXCEPT ![c] = k]
             /\ UNCHANGED <<now, hw, changes, state, heartbeatSecret, heartbeatTimer,
                            intervals, inits, installed, shutAt, tokens>>
    <2>1. CallChecked(k, changes, hw)
      BY <1>1, <1>2 DEF CallChecked
    <2> HIDE DEF k
    <2> QED
      BY <1>4, <2>1, CallMovesIInv
  <1>5. \/ call[c].blob.terms.hardwareFingerprint = << >> /\ Install(c, f, changes)
        \/ /\ call' = [call EXCEPT ![c] = k]
           /\ UNCHANGED <<now, hw, changes, state, heartbeatSecret, heartbeatTimer,
                          intervals, inits, installed, shutAt, tokens>>
    BY <1>2 DEF ReadFingerprint
  <1> QED
    BY <1>3, <1>4, <1>5

\* The second reading ends: only an identity that is the licence's own one matches,
\* since the kernel compares with a stored identity that has no components.
LEMMA CheckBindingIInv ==
    ASSUME IInv, NEW c \in Call, CheckBinding(c)
    PROVE  IInv'
  <1> DEFINE stored == StoredFingerprint(call[c].blob.terms)
             current == GenerateHardwareFingerprint(hw)
  <1>1. /\ call[c].at = "checking" /\ call[c].fingerprint \in Fingerprints
        /\ call[c].readAt \in Nat
        /\ call[c].readAt = changes => call[c].fingerprint = current
    BY DEF IInv, CallsChecked, CallChecked, CheckBinding
  <1>2. CASE VerifyHardwareFingerprint(stored, current)
             /\ Install(c, call[c].fingerprint, call[c].readAt)
    <2>1. current.fingerprint = call[c].blob.terms.hardwareFingerprint
      <3>1. stored.source = "TPM"
            /\ stored.fingerprint = call[c].blob.terms.hardwareFingerprint
        BY DEF StoredFingerprint
      <3> HIDE DEF stored, current
      <3> QED
        BY <1>2, <3>1 DEF VerifyHardwareFingerprint
    <2> HIDE DEF stored, current
    <2> QED
      BY <1>1, <1>2, <2>1, InstallIInv
  <1>3. CASE /\ call' = [call EXCEPT ![c] = Idle]
             /\ UNCHANGED <<now, hw, changes, state, heartbeatSecret, heartbeatTimer,
                            intervals, inits, installed, shutAt, tokens>>
    <2>1. CallChecked(Idle, changes, hw)
      BY DEF CallChecked, Idle
    <2> QED
      BY <1>3, <2>1, CallMovesIInv
  <1> QED
    BY <1>2, <1>3 DEF CheckBinding

\* The callback of an interval makes a token and arms the interval again.
LEMMA FireIntervalIInv ==
    ASSUME IInv, NEW h \in DOMAIN intervals, FireInterval(h)
    PROVE  IInv'
  <1> DEFINE token == GenerateHeartbeat(state, heartbeatSecret)
  <1>1. /\ state # NoState /\ DOMAIN state = StateFields
        /\ now \in Nat /\ EpochMs \in Nat /\ Slack \in Nat
    BY Times DEF IInv, IntervalsOnTime, StateSound, ClockAdvances
  <1>2. /\ Vouches(token, installed[Len(installed)], now, shutAt)
        /\ token.fields.timestamp = now /\ token.hmac.key = heartbeatSecret
        /\ token.hmac = [key |-> token.hmac.key, over |-> token.fields]
    BY <1>1, HeartbeatVouches DEF IInv
  <1>3. /\ state' = [state EXCEPT !.lastHeartbeatAt = now, !.lastHeartbeatToken = token]
        /\ intervals' = [intervals EXCEPT ![h] = now + EpochMs]
        /\ UNCHANGED <<now, hw, changes, heartbeatSecret, heartbeatTimer, inits, call,
                       installed, shutAt, tokens>>
    BY DEF FireInterval, Beat
  <1> HIDE DEF token
  <1>4. /\ state'.blob = state.blob /\ state'.hwFingerprint = state.hwFingerprint
        /\ state'.isValid = state.isValid
        /\ state'.gracePeriodActive = state.gracePeriodActive
        /\ state'.totalTransactions = state.totalTransactions
        /\ state'.totalVolumeUSD = state.totalVolumeUSD
        /\ state'.lastHeartbeatAt = now /\ state'.lastHeartbeatToken = token
        /\ DOMAIN state' = StateFields /\ state' # NoState
    BY <1>1, <1>3 DEF StateFields, NoState
  <1>5. /\ DOMAIN intervals' = DOMAIN intervals /\ intervals'[h] = now + EpochMs
        /\ \A g \in DOMAIN intervals : g # h => intervals'[g] = intervals[g]
    BY <1>3
  <1>6. StateSound'
    BY <1>1, <1>3, <1>4 DEF IInv, StateSound
  <1>7. IntervalsOnTime'
    <2>1. ASSUME NEW g \in DOMAIN intervals
          PROVE  intervals'[g] \in Nat /\ now <= intervals'[g] + Slack
      <3>1. CASE g = h
        BY <1>1, <1>5, <3>1
      <3>2. CASE g # h
        BY <1>5, <3>2 DEF IInv, IntervalsOnTime
      <3> QED
        BY <3>1, <3>2
    <2> QED
      BY <1>3, <1>4, <1>5, <2>1 DEF IInv, IntervalsOnTime
  <1>8. LastTokenFresh'
    BY <1>2, <1>3, <1>4, <1>5 DEF LastTokenFresh, IInv, SecretErased
  <1> QED
    BY <1>3, <1>6, <1>7, <1>8
       DEF IInv, ClockAdvances, SecretErased, CallsChecked, InstallationsSound, TokensVouch

\* A transaction is counted only inside the quota.
LEMMA RecordTransactionIInv ==
    ASSUME IInv, NEW v \in Volumes, RecordTransaction(v)
    PROVE  IInv'
  <1>1. /\ state # NoState /\ DOMAIN state = StateFields /\ Len(installed) # 0
        /\ state.totalTransactions \in Int
        /\ state.totalTransactions < state.blob.terms.maxTransactions
        /\ state.blob.terms.maxTransactions \in Int
    <2>1. installed[Len(installed)].terms.maxTransactions \in Int /\ Len(installed) # 0
      <3>1. Len(installed) # 0
        BY DEF RecordTransaction, IInv, StateSound
      <3>2. installed[Len(installed)] \in Installation
        BY <3>1 DEF IInv, InstallationsSound
      <3> QED
        BY <3>1, <3>2 DEF Installation, LicenseTerms
    <2> QED
      BY <2>1 DEF RecordTransaction, IInv, StateSound
  <1>2. /\ state' = [state EXCEPT !.totalTransactions = @ + 1, !.totalVolumeUSD = @ + v]
        /\ state.totalVolumeUSD + v <= state.blob.terms.maxVolumeUSD
        /\ UNCHANGED <<now, hw, changes, heartbeatSecret, heartbeatTimer, intervals, inits, call,
                       installed, shutAt, tokens>>
    BY DEF RecordTransaction
  <1>3. /\ state'.blob = state.blob /\ state'.hwFingerprint = state.hwFingerprint
        /\ state'.isValid = state.isValid
        /\ state'.gracePeriodActive = state.gracePeriodActive
        /\ state'.totalTransactions = state.totalTransactions + 1
        /\ state'.totalVolumeUSD = state.totalVolumeUSD + v
        /\ state'.lastHeartbeatAt = state.lastHeartbeatAt
        /\ state'.lastHeartbeatToken = state.lastHeartbeatToken
        /\ DOMAIN state' = StateFields /\ state' # NoState
    BY <1>1, <1>2 DEF StateFields, NoState
  <1>4. StateSound'
    <2>1. /\ state'.totalTransactions \in Int
          /\ state'.totalTransactions <= state'.blob.terms.maxTransactions
      BY <1>1, <1>3
    <2>2. state'.totalVolumeUSD <= state'.blob.terms.maxVolumeUSD
      BY <1>2, <1>3
    <2> QED
      BY <1>1, <1>2, <1>3, <2>1, <2>2 DEF IInv, StateSound
  <1>5. HasBeaten' <=> HasBeaten
    BY <1>1, <1>3 DEF HasBeaten
  <1> QED
    BY <1>2, <1>3, <1>4, <1>5
       DEF IInv, ClockAdvances, SecretErased, CallsChecked, IntervalsOnTime, InstallationsSound,
           TokensVouch, LastTokenFresh

\* A caller keeps a token.
LEMMA TakeTokenIInv ==
    ASSUME IInv, NEW token, TakeToken(token), state # NoState,
           Vouches(token, installed[Len(installed)], now, shutAt)
    PROVE  IInv'
  <1>1. /\ tokens' = tokens \cup {[token |-> token, under |-> Len(installed)]}
        /\ UNCHANGED <<now, hw, changes, state, heartbeatSecret, heartbeatTimer, intervals,
                       inits, call, installed, shutAt>>
    BY DEF TakeToken
  <1>2. Len(installed) \in 1..Len(installed)
    BY DEF IInv, StateSound, InstallationsSound
  <1>3. TokensVouch'
    BY <1>1, <1>2 DEF IInv, TokensVouch
  <1> QED
    BY <1>1, <1>3
       DEF IInv, ClockAdvances, SecretErased, CallsChecked, IntervalsOnTime, InstallationsSound,
           StateSound, LastTokenFresh, HasBeaten

\* Both the tokens made for callers and those read from the state vouch.
LEMMA CallersTokenIInv ==
    ASSUME IInv, GetCurrentHeartbeat \/ GetState
    PROVE  IInv'
  <1>1. CASE GetCurrentHeartbeat
    <2> DEFINE token == GenerateHeartbeat(state, heartbeatSecret)
    <2>1. state # NoState /\ TakeToken(token)
      BY <1>1 DEF GetCurrentHeartbeat
    <2>2. Vouches(token, installed[Len(installed)], now, shutAt)
      BY <2>1, HeartbeatVouches DEF IInv
    <2> HIDE DEF token
    <2> QED
      BY <2>1, <2>2, TakeTokenIInv
  <1>2. CASE GetState
    <2>1. /\ state # NoState /\ TakeToken(state.lastHeartbeatToken)
          /\ Vouches(state.lastHeartbeatToken, installed[Len(installed)], now, shutAt)
      BY <1>2 DEF GetState, HasBeaten, IInv, LastTokenFresh
    <2> QED
      BY <2>1, TakeTokenIInv
  <1> QED
    BY <1>1, <1>2

\* What the invariant says of tokens when time or the shutdown moves on.
LEMMA TimeKeepsTokens ==
    ASSUME IInv, UNCHANGED <<state, installed, tokens>>, now' \in Nat, now <= now',
           shutAt' \in Nat, shutAt # 0 => shutAt' = shutAt, shutAt = 0 => shutAt' \in {0, now}
    PROVE  /\ TokensVouch'
           /\ HasBeaten =>
                 Vouches(state.lastHeartbeatToken, installed[Len(installed)], now', shutAt')
  <1>1. now \in Nat /\ shutAt \in Nat
    BY DEF IInv, ClockAdvances, SecretErased
  <1>2. \A token, r : Vouches(token, r, now, shutAt) => Vouches(token, r, now', shutAt')
    BY <1>1, KeepsVouching
  <1> QED
    BY <1>2 DEF IInv, TokensVouch, LastTokenFresh

\* A shutdown stops the interval it knows and erases the secret.
LEMMA ShutdownIInv ==
    ASSUME IInv, Shutdown
    PROVE  IInv'
  <1>1. /\ intervals' = [h \in DOMAIN intervals \ {heartbeatTimer} |-> intervals[h]]
        /\ heartbeatSecret' = "zero" /\ shutAt' = IF shutAt = 0 THEN now ELSE shutAt
        /\ UNCHANGED <<now, hw, changes, state, inits, call, installed, tokens>>
    BY DEF Shutdown
  <1>2. now \in Nat /\ now # 0 /\ shutAt \in Nat /\ shutAt <= now
    BY Times DEF IInv, ClockAdvances, SecretErased
  <1>3. SecretErased'
    BY <1>1, <1>2 DEF SecretErased
  <1>4. /\ TokensVouch'
        /\ HasBeaten =>
              Vouches(state.lastHeartbeatToken, installed[Len(installed)], now', shutAt')
    BY <1>1, <1>2, TimeKeepsTokens
  <1>5. LastTokenFresh'
    BY <1>1, <1>4 DEF IInv, LastTokenFresh, HasBeaten
  <1>6. IntervalsOnTime'
    BY <1>1 DEF IInv, IntervalsOnTime
  <1> QED
    BY <1>1, <1>3, <1>4, <1>5, <1>6
       DEF IInv, ClockAdvances, CallsChecked, InstallationsSound, StateSound

\* The hardware changes: no reading is current any more.
LEMMA ChangeHardwareIInv ==
    ASSUME IInv, ChangeHardware
    PROVE  IInv'
  <1>1. /\ hw' \in Machines /\ changes' = changes + 1 /\ changes \in Nat
        /\ UNCHANGED <<now, state, heartbeatSecret, heartbeatTimer, intervals, inits, call,
                       installed, shutAt, tokens>>
    BY DEF ChangeHardware, IInv, ClockAdvances
  <1>2. \A k : CallChecked(k, changes, hw) => CallChecked(k, changes', hw')
    BY <1>1 DEF CallChecked
  <1>3. CallsChecked'
    BY <1>1, <1>2 DEF IInv, CallsChecked
  <1>4. ClockAdvances'
    BY <1>1 DEF IInv, ClockAdvances
  <1> QED
    BY <1>1, <1>3, <1>4
       DEF IInv, SecretErased, IntervalsOnTime, InstallationsSound, StateSound, TokensVouch,
           LastTokenFresh, HasBeaten

\* Time passes only while no callback is too late.
LEMMA TickIInv ==
    ASSUME IInv, Tick
    PROVE  IInv'
  <1>1. /\ now' = now + 1 /\ now \in Nat
        /\ \A h \in DOMAIN intervals : now < intervals[h] + Slack
        /\ UNCHANGED <<hw, changes, state, heartbeatSecret, heartbeatTimer, intervals, inits,
                       call, installed, shutAt, tokens>>
    BY DEF Tick, IInv, ClockAdvances
  <1>2. ClockAdvances' /\ SecretErased'
    BY <1>1, Times DEF IInv, ClockAdvances, SecretErased
  <1>3. IntervalsOnTime'
    BY <1>1, Times DEF IInv, IntervalsOnTime
  <1>4. /\ TokensVouch'
        /\ HasBeaten =>
              Vouches(state.lastHeartbeatToken, installed[Len(installed)], now', shutAt')
    <2>1. now' \in Nat /\ now <= now' /\ shutAt \in Nat
      BY <1>1 DEF IInv, SecretErased
    <2> QED
      BY <1>1, <2>1, TimeKeepsTokens
  <1>5. LastTokenFresh'
    BY <1>1, <1>4 DEF IInv, LastTokenFresh, HasBeaten
  <1> QED
    BY <1>1, <1>2, <1>3, <1>4, <1>5
       DEF IInv, CallsChecked, InstallationsSound, StateSound

\* Every step keeps the invariant.
LEMMA NextIInv == IInv /\ [Next]_vars => IInv'
  <1> SUFFICES ASSUME IInv, [Next]_vars PROVE IInv'
    OBVIOUS
  <1>1. ASSUME NEW l \in Licences, InitBegin(l) PROVE IInv'
    BY <1>1, InitBeginIInv
  <1>2. ASSUME NEW c \in Call, ReadFingerprint(c) PROVE IInv'
    BY <1>2, ReadFingerprintIInv
  <1>3. ASSUME NEW c \in Call, CheckBinding(c) PROVE IInv'
    BY <1>3, CheckBindingIInv
  <1>4. ASSUME NEW h \in DOMAIN intervals, FireInterval(h) PROVE IInv'
    BY <1>4, FireIntervalIInv
  <1>5. ASSUME NEW v \in Volumes, RecordTransaction(v) PROVE IInv'
    BY <1>5, RecordTransactionIInv
  <1>6. CASE GetCurrentHeartbeat \/ GetState
    BY <1>6, CallersTokenIInv
  <1>7. CASE Shutdown
    BY <1>7, ShutdownIInv
  <1>8. CASE ChangeHardware
    BY <1>8, ChangeHardwareIInv
  <1>9. CASE Tick
    BY <1>9, TickIInv
  <1>10. CASE UNCHANGED vars
    BY <1>10
       DEF vars, IInv, ClockAdvances, SecretErased, CallsChecked, IntervalsOnTime,
           InstallationsSound, StateSound, TokensVouch, LastTokenFresh, HasBeaten
  <1> QED
    BY <1>1, <1>2, <1>3, <1>4, <1>5, <1>6, <1>7, <1>8, <1>9, <1>10 DEF Next

\* The invariant holds in every behaviour of the kernel.
THEOREM KernelInvariant == Spec => []IInv
  BY InitIInv, NextIInv, PTL DEF Spec

-----------------------------------------------------------------------------
(* What follows *)

\* How quotients bound a difference, and a difference the quotients.
LEMMA Epochs ==
    ASSUME NEW x \in Nat, NEW y \in Nat, y <= x, NEW d \in Nat, d > 0
    PROVE  /\ x \div d \in Nat /\ y \div d \in Nat
           /\ (x \div d) - (y \div d) <= 2 => x - y < 3 * d
           /\ x <= y + 2 * d => (x \div d) - (y \div d) \in 0..2
  <1> DEFINE p == x \div d
             q == y \div d
             r == x % d
             s == y % d
             dp == d * p
             dq == d * q
  <1>1. /\ p \in Nat /\ r \in Nat /\ r < d /\ x = dp + r
        /\ q \in Nat /\ s \in Nat /\ s < d /\ y = dq + s
    OBVIOUS
  <1> HIDE DEF p, q, r, s
  <1>2. dp \in Nat /\ dq \in Nat
    BY <1>1
  <1>3. p - q <= 2 => x - y < 3 * d
    <2>1. SUFFICES ASSUME p <= q + 2 PROVE x - y < 3 * d
      BY <1>1
    <2>2. d * p <= d * (q + 2) /\ d * (q + 2) = dq + 2 * d
      BY <1>1, <2>1
    <2> HIDE DEF dq
    <2>3. dp <= dq + 2 * d
      BY <2>2
    <2> HIDE DEF dp
    <2> QED
      BY <1>1, <1>2, <2>3
  <1>4. q <= p
    <2>1. SUFFICES ASSUME p + 1 <= q PROVE FALSE
      BY <1>1
    <2>2. d * (p + 1) <= d * q /\ d * (p + 1) = dp + d
      BY <1>1, <2>1
    <2>3. dp + d <= dq
      BY <2>2
    <2> HIDE DEF dp, dq
    <2> QED
      BY <1>1, <1>2, <2>3
  <1>5. x <= y + 2 * d => p <= q + 2
    <2>1. SUFFICES ASSUME x <= y + 2 * d, q + 3 <= p PROVE FALSE
      BY <1>1
    <2>2. d * (q + 3) <= d * p /\ d * (q + 3) = dq + 3 * d
      BY <1>1, <2>1
    <2>3. dq + 3 * d <= dp
      BY <2>2
    <2> HIDE DEF dp, dq
    <2> QED
      BY <1>1, <1>2, <2>1, <2>3
  <1>6. x <= y + 2 * d => p - q \in 0..2
    BY <1>1, <1>4, <1>5
  <1> QED
    BY <1>1, <1>3, <1>6 DEF p, q

\* A licence bound to a machine is installed with that machine's identity, although
\* initializeLicense reads the hardware twice, and detectCloning sees no clone among
\* the tokens of one installation.
THEOREM BindingIsKept == Spec => []BindingHolds
  <1>1. IInv => BindingHolds
    <2> SUFFICES ASSUME IInv, NEW i \in DOMAIN installed
                 PROVE  LET r == installed[i] IN
                        /\ r.terms.hardwareFingerprint # << >> /\ r.changed = 0 =>
                              r.fingerprint = r.terms.hardwareFingerprint
                        /\ ~DetectCloning({x.token : x \in {y \in tokens : y.under = i}}
                              \cup IF HasBeaten /\ i = Len(installed)
                                   THEN {state.lastHeartbeatToken} ELSE {})
      BY DEF BindingHolds
    <2>1. i \in 1..Len(installed)
      BY DEF IInv, InstallationsSound
    <2> DEFINE Kept == {x.token : x \in {y \in tokens : y.under = i}}
               Last == IF HasBeaten /\ i = Len(installed)
                       THEN {state.lastHeartbeatToken} ELSE {}
    <2>2. \A a \in Kept : a.fields.hwFingerprint = installed[i].fingerprint
      <3>1. SUFFICES ASSUME NEW x \in tokens, x.under = i
                     PROVE  x.token.fields.hwFingerprint = installed[i].fingerprint
        OBVIOUS
      <3> QED
        BY <3>1 DEF IInv, TokensVouch, Vouches
    <2>3. \A a \in Last : a.fields.hwFingerprint = installed[i].fingerprint
      BY DEF IInv, LastTokenFresh, Vouches
    <2> HIDE DEF Kept, Last
    <2>4. ~DetectCloning(Kept \cup Last)
      BY <2>2, <2>3 DEF DetectCloning
    <2> QED
      BY <2>1, <2>4 DEF Kept, Last, IInv, InstallationsSound, InstallationSound
  <1> QED
    BY <1>1, KernelInvariant, PTL

\* A token that verifyHeartbeat accepts under the issued secret was made less than
\* three epochs ago and before any shutdown, for a licence signed as presented and in
\* force when it was checked, with the identity it was installed with and usage inside its quotas.
THEOREM TokensProveLicences == Spec => []TokenProvesLicence
  <1>1. IInv => TokenProvesLicence
    <2> SUFFICES ASSUME IInv, NEW x \in tokens,
                        VerifyHeartbeat(x.token, "issued", x.token.fields.hwFingerprint)
                 PROVE  LET f == x.token.fields IN
                        /\ now - f.timestamp < 3 * EpochMs
                        /\ shutAt # 0 => f.timestamp <= shutAt
                        /\ x.under \in DOMAIN installed
                        /\ LET r == installed[x.under] IN
                           /\ r.terms = r.signed
                           /\ r.terms.notBefore <= r.verifiedAt
                           /\ r.verifiedAt <= r.terms.notAfter \/ r.verifiedAt < GraceEnd(r.terms)
                           /\ r.fingerprint = f.hwFingerprint
                           /\ f.usage.tx <= r.terms.maxTransactions
                           /\ f.usage.vol <= r.terms.maxVolumeUSD
      BY DEF TokenProvesLicence
    <2> DEFINE f == x.token.fields
               r == installed[x.under]
    <2>1. x.under \in 1..Len(installed) /\ Vouches(x.token, r, now, shutAt)
      BY DEF IInv, TokensVouch
    <2>2. /\ (now \div EpochMs) - f.epoch \in -2..2
          /\ x.token.hmac = [key |-> "issued", over |-> f]
      BY DEF VerifyHeartbeat
    <2>3. x.token.hmac.key = "issued"
      BY <2>2
    <2>4. /\ f.timestamp \in Nat /\ f.timestamp <= now /\ f.epoch = f.timestamp \div EpochMs
          /\ f.hwFingerprint = r.fingerprint
          /\ f.usage.tx <= r.terms.maxTransactions /\ f.usage.vol <= r.terms.maxVolumeUSD
          /\ shutAt # 0 => f.timestamp <= shutAt
      BY <2>1, <2>3 DEF Vouches
    <2>5. now - f.timestamp < 3 * EpochMs
      <3> DEFINE y == f.timestamp
                 p == now \div EpochMs
                 q == y \div EpochMs
      <3>1. now \in Nat /\ y \in Nat /\ y <= now /\ EpochMs \in Nat /\ EpochMs > 0
        BY <2>4, Times DEF IInv, ClockAdvances
      <3>2. p - q \in -2..2
        BY <2>2, <2>4
      <3>3. p \in Nat /\ q \in Nat /\ (p - q <= 2 => now - y < 3 * EpochMs)
        <4> HIDE DEF y
        <4> QED
          BY <3>1, Epochs
      <3> HIDE DEF p, q
      <3> QED
        BY <3>2, <3>3
    <2>6. /\ r.terms = r.signed /\ x.under \in DOMAIN installed
          /\ r.terms.notBefore <= r.verifiedAt /\ r.verifiedAt < GraceEnd(r.terms)
      BY <2>1 DEF IInv, InstallationsSound, InstallationSound
    <2> QED
      BY <2>4, <2>5, <2>6
  <1> QED
    BY <1>1, KernelInvariant, PTL

\* Until a shutdown the last heartbeat token of the state verifies at any time: the
\* interval that made it is still armed and late by no more than a whole interval,
\* which is less than the two epochs verifyHeartbeat grants.
THEOREM LastTokensVerify == Spec => []LastTokenVerifies
  <1>1. IInv => LastTokenVerifies
    <2> SUFFICES ASSUME IInv, HasBeaten, heartbeatSecret = "issued"
                 PROVE  VerifyHeartbeat(state.lastHeartbeatToken, "issued",
                                        state.hwFingerprint.fingerprint)
      BY DEF LastTokenVerifies
    <2> DEFINE token == state.lastHeartbeatToken
               y == token.fields.timestamp
    <2>1. /\ Vouches(token, installed[Len(installed)], now, shutAt)
          /\ y = state.lastHeartbeatAt
          /\ token.hmac = [key |-> token.hmac.key, over |-> token.fields]
          /\ token.hmac.key = "issued"
      BY DEF IInv, LastTokenFresh
    <2>2. PICK h \in DOMAIN intervals : intervals[h] = y + EpochMs
      BY <2>1 DEF IInv, LastTokenFresh
    <2>3. /\ now \in Nat /\ y \in Nat /\ y <= now
          /\ token.fields.epoch = y \div EpochMs
          /\ EpochMs \in Nat /\ EpochMs > 0 /\ Slack \in Nat /\ Slack <= EpochMs
          /\ now <= intervals[h] + Slack
      BY <2>1, Times DEF IInv, ClockAdvances, Vouches, IntervalsOnTime
    <2>4. token.fields.hwFingerprint = state.hwFingerprint.fingerprint
      BY <2>1 DEF IInv, StateSound, Vouches, HasBeaten
    <2> HIDE DEF y
    <2>5. now <= y + 2 * EpochMs
      BY <2>2, <2>3
    <2>6. (now \div EpochMs) - (y \div EpochMs) \in 0..2
      BY <2>3, <2>5, Epochs
    <2> DEFINE p == now \div EpochMs
               q == y \div EpochMs
    <2>7. p - q \in -2..2
      <3>1. p - q \in 0..2
        BY <2>6
      <3> HIDE DEF p, q
      <3> QED
        BY <3>1
    <2>8. token.hmac = [key |-> "issued", over |-> token.fields]
      BY <2>1
    <2> HIDE DEF token
    <2> QED
      BY <2>3, <2>4, <2>7, <2>8 DEF VerifyHeartbeat, token
  <1> QED
    BY <1>1, KernelInvariant, PTL

=============================================================================
