--------------------------- MODULE SharingProofs ----------------------------
(***************************************************************************)
(* Proofs about the shares of a key: how KeyRefresh replaces them, what    *)
(* MpcEngine makes of them, and whom its audit of aborts blames.           *)
(*                                                                         *)
(* For any number of overlapping refreshes and calls of initialize, old    *)
(* shares and Paillier keys are destroyed and current ones never are, the  *)
(* epoch counts calls from an epoch that was given, exactly so while calls  *)
(* come one at a time, and the current share is the initial one plus       *)
(* the contribution of every refresh since.                                *)
(*                                                                         *)
(* For any curve order, threshold and number of parties, whatever calls    *)
(* preceded, the shares executeDKG stored are never changed, any threshold *)
(* of them interpolates to the secret of the session, and for a common     *)
(* nonce the combination of the ceremony gives the signature of the        *)
(* undivided key, which verifies.                                          *)
(*                                                                         *)
(* For any pair of primes the ciphertext in an honest range proof is in    *)
(* range, so the audit finds fault with the proofs of another context and  *)
(* of nodes with a key only, and blames the first it has evidence against. *)
(***************************************************************************)
EXTENDS KeyRefresh, MpcEngine, ScalarFieldProofs

-----------------------------------------------------------------------------
(* Sums over finite sets *)

\* The sum over a set takes an arbitrary element first.
SumOf(h, S, f) ==
    h = [s \in SUBSET S |-> IF s = {} THEN 0 ELSE f[CHOOSE x \in s : TRUE]
                                                     + h[s \ {CHOOSE x \in s : TRUE}]]

\* The community modules' sum is such a function's value, and a number.
LEMMA SumUnfolds ==
    ASSUME NEW S, IsFiniteSet(S), NEW f, \A x \in S : f[x] \in Int
    PROVE  \E h : /\ SumOf(h, S, f) /\ SumFunctionOnSet(f, S) = h[S]
                  /\ \A s \in SUBSET S : h[s] \in Int
  <1> DEFINE c == [s \in SUBSET S |-> CHOOSE x \in s : TRUE]
             F == [p \in S \X Int |-> f[p[1]] + p[2]]
  <1>1. \A s \in SUBSET S : c[s] = CHOOSE x \in s : TRUE
    OBVIOUS
  <1>2. Chooses(c, S)
    BY DEF Chooses
  <1>3. F \in [S \X Int -> Int] /\ \A x \in S, v \in Int : F[<<x, v>>] = f[x] + v
    OBVIOUS
  <1>4. 0 \in Int
    OBVIOUS
  <1> HIDE DEF c, F
  <1>5. PICK g \in [SUBSET S -> Int] : IsFold(g, SUBSET S, c, 0, F)
    BY <1>3, <1>2, <1>4, FoldExists, Zenon
  <1>6. SumOf(g, S, f)
    <2>1. ASSUME NEW s \in SUBSET S, s # {}
          PROVE  g[s] = f[CHOOSE x \in s : TRUE] + g[s \ {CHOOSE x \in s : TRUE}]
      <3>1. c[s] \in s /\ c[s] = CHOOSE x \in s : TRUE
        BY <1>1, <1>2, <2>1 DEF Chooses
      <3>2. c[s] \in S /\ g[s \ {c[s]}] \in Int
        BY <3>1
      <3>3. g[s] = F[<<c[s], g[s \ {c[s]}]>>]
        BY <1>5, <2>1 DEF IsFold
      <3>4. g[s] = f[c[s]] + g[s \ {c[s]}]
        BY <1>3, <3>2, <3>3
      <3> QED
        BY <3>1, <3>4
    <2>2. g[{}] = 0
      BY <1>5 DEF IsFold
    <2> QED
      BY <2>1, <2>2 DEF SumOf
  <1>7. PICK h : SumOf(h, S, f) /\ SumFunctionOnSet(f, S) = h[S]
    BY <1>6, Zenon DEF SumFunctionOnSet, FoldFunctionOnSet, MapThenFoldSet, SumOf
  <1>8. \A s \in SUBSET S : h[s] \in Int
    <2> DEFINE H == {s \in SUBSET S : h[s] \in Int}
    <2>1. ASSUME NEW T \in SUBSET S, \A x \in T : T \ {x} \in H PROVE h[T] \in Int
      <3>1. CASE T = {}
        BY <1>7, <3>1 DEF SumOf
      <3>2. CASE T # {}
        <4> DEFINE x == CHOOSE x \in T : TRUE
        <4>1. x \in T /\ h[T] = f[x] + h[T \ {x}]
          BY <1>7, <3>2 DEF SumOf
        <4> HIDE DEF x
        <4> QED
          BY <2>1, <4>1
      <3> QED
        BY <3>1, <3>2
    <2>2. Closed(S, H)
      BY <2>1 DEF Closed
    <2> HIDE DEF H
    <2>3. SUBSET S \subseteq H
      BY <2>2, SubsetsFromSmaller
    <2> QED
      BY <2>3 DEF H
  <1> QED
    BY <1>7, <1>8

\* f has numbers on S.
IntOn(f, S) == \A x \in S : f[x] \in Int

\* The sums h of f can be taken apart at any element.
TakesAny(h, S, f) == \A s \in SUBSET S : \A x \in s : h[s] = f[x] + h[s \ {x}]

\* Which element is taken first does not matter.
LEMMA SumTakesAny ==
    ASSUME NEW S, IsFiniteSet(S), NEW f, IntOn(f, S),
           NEW h, SumOf(h, S, f), IntOn(h, SUBSET S)
    PROVE  TakesAny(h, S, f)
  <1>0. (\A x \in S : f[x] \in Int) /\ (\A s \in SUBSET S : h[s] \in Int)
    BY DEF IntOn
  <1> DEFINE H == {s \in SUBSET S : \A x \in s : h[s] = f[x] + h[s \ {x}]}
  <1>1. ASSUME NEW T \in SUBSET S, \A x \in T : T \ {x} \in H, NEW x \in T
        PROVE  h[T] = f[x] + h[T \ {x}]
    <2> DEFINE c == CHOOSE y \in T : TRUE
    <2>1. c \in T /\ h[T] = f[c] + h[T \ {c}]
      BY DEF SumOf
    <2> HIDE DEF c
    <2>2. CASE c = x
      BY <2>1, <2>2
    <2>3. CASE c # x
      <3>1. h[T \ {c}] = f[x] + h[(T \ {c}) \ {x}]
        BY <1>1, <2>1, <2>3
      <3>2. h[T \ {x}] = f[c] + h[(T \ {x}) \ {c}]
        BY <1>1, <2>1, <2>3
      <3>3. (T \ {c}) \ {x} = (T \ {x}) \ {c}
        OBVIOUS
      <3>4. f[x] \in Int /\ f[c] \in Int /\ h[(T \ {x}) \ {c}] \in Int
        BY <1>0, <2>1
      <3> QED
        <4> HIDE DEF SumOf
        <4>1. h[T] = f[c] + (f[x] + h[(T \ {x}) \ {c}])
          BY <2>1, <3>1, <3>3
        <4> QED
          BY <3>2, <3>4, <4>1
    <2> QED
      BY <2>2, <2>3
  <1>2. Closed(S, H)
    BY <1>1 DEF Closed
  <1> HIDE DEF H
  <1>3. SUBSET S \subseteq H
    BY <1>2, SubsetsFromSmaller
  <1> QED
    BY <1>3 DEF H, TakesAny

\* The sum over one element more, of a function that agrees on the others.
LEMMA SumAddsOne ==
    ASSUME NEW S, IsFiniteSet(S), NEW x, x \notin S, NEW f, NEW d,
           DOMAIN f = S, DOMAIN d = S \cup {x},
           \A y \in S : f[y] \in Int /\ d[y] = f[y], d[x] \in Int
    PROVE  SumFunction(f) \in Int /\ SumFunction(d) = SumFunction(f) + d[x]
  <1> DEFINE U == S \cup {x}
  <1>1. IsFiniteSet(U) /\ \A y \in U : d[y] \in Int
    BY FS_AddElement
  <1> HIDE DEF U
  <1>2. PICK h : /\ SumOf(h, U, d) /\ SumFunctionOnSet(d, U) = h[U]
                 /\ \A s \in SUBSET U : h[s] \in Int
    BY <1>1, SumUnfolds
  <1>3. PICK g : /\ SumOf(g, S, f) /\ SumFunctionOnSet(f, S) = g[S]
                 /\ \A s \in SUBSET S : g[s] \in Int
    BY SumUnfolds
  <1>4. \A s \in SUBSET S : h[s] = g[s]
    <2> DEFINE H == {s \in SUBSET S : h[s] = g[s]}
    <2>1. ASSUME NEW T \in SUBSET S, \A y \in T : T \ {y} \in H PROVE h[T] = g[T]
      <3>0. T \in SUBSET U
        BY DEF U
      <3>1. CASE T = {}
        BY <1>2, <1>3, <3>0, <3>1 DEF SumOf
      <3>2. CASE T # {}
        <4> DEFINE y == CHOOSE y \in T : TRUE
        <4>1. y \in T /\ h[T] = d[y] + h[T \ {y}] /\ g[T] = f[y] + g[T \ {y}]
          BY <1>2, <1>3, <3>0, <3>2 DEF SumOf
        <4> HIDE DEF y
        <4> QED
          BY <2>1, <4>1
      <3> QED
        BY <3>1, <3>2
    <2>2. Closed(S, H)
      BY <2>1 DEF Closed
    <2> HIDE DEF H
    <2>3. SUBSET S \subseteq H
      BY <2>2, SubsetsFromSmaller
    <2> QED
      BY <2>3 DEF H
  <1>5. h[U] = d[x] + h[U \ {x}] /\ U \ {x} = S
    <2>1. U \in SUBSET U /\ x \in U /\ U \ {x} = S
      BY DEF U
    <2>2. SumOf(h, U, d) /\ IntOn(d, U) /\ IntOn(h, SUBSET U)
      BY <1>1, <1>2 DEF IntOn
    <2>3. TakesAny(h, U, d)
      BY <1>1, <2>2, SumTakesAny
    <2> QED
      BY <2>1, <2>3 DEF TakesAny
  <1>6. h[U] = g[S] + d[x] /\ g[S] \in Int
    <2>1. S \in SUBSET S
      OBVIOUS
    <2>2. h[S] = g[S] /\ g[S] \in Int
      BY <1>3, <1>4, <2>1
    <2> DEFINE a == g[S]
               b == d[x]
    <2>3. h[U] = b + a /\ a \in Int /\ b \in Int
      BY <1>5, <2>2
    <2> HIDE DEF a, b
    <2>4. h[U] = a + b /\ a \in Int
      BY <2>3
    <2> QED
      BY <2>4 DEF a, b
  <1> QED
    BY <1>2, <1>3, <1>6 DEF SumFunction, U

\* The sum over nothing.
LEMMA EmptySum ==
    ASSUME NEW f, DOMAIN f = {}
    PROVE  SumFunction(f) = 0
  <1>1. PICK h : SumOf(h, {}, f) /\ SumFunctionOnSet(f, {}) = h[{}]
    BY SumUnfolds, FS_EmptySet
  <1> QED
    BY <1>1 DEF SumOf, SumFunction

-----------------------------------------------------------------------------
(* The contributions to a share *)

\* The value of a polynomial is a number.
LEMMA EvalPolynomialType ==
    ASSUME NEW seq \in Seq(Int), NEW x \in Int
    PROVE  EvalPolynomial(seq, x) \in Int
  <1> DEFINE n == Len(seq)
  <1>1. n \in Nat /\ seq \in [1..n -> Int]
    OBVIOUS
  <1> HIDE DEF n
  <1>2. EvalPolynomial(seq, x) \in Scalar
    BY <1>1, EvalPolynomialValue
  <1> QED
    BY <1>2, CurveOrderAssumption DEF Scalar

\* So is what a node contributes to its own share.
LEMMA SelfSubShareType ==
    ASSUME NEW k \in [1..(Threshold - 1) -> NonzeroScalar]
    PROVE  SelfSubShare(k) \in Int
  <1>1. k \in Seq(Int)
    BY RefreshAssumption, CurveOrderAssumption DEF NonzeroScalar
  <1>2. <<0>> \o k \in Seq(Int)
    BY <1>1
  <1>3. SelfIndex # NoIndex => SelfIndex \in Int
    BY RefreshAssumption
  <1>4. CASE SelfIndex = NoIndex
    BY <1>4 DEF SelfSubShare
  <1>5. CASE SelfIndex # NoIndex
    <2>1. EvalPolynomial(<<0>> \o k, SelfIndex) \in Int
      BY <1>2, <1>3, <1>5, EvalPolynomialType
    <2> QED
      BY <1>5, <2>1 DEF SelfSubShare, SubShare
  <1> QED
    BY <1>4, <1>5

\* Equal numbers have equal quotients and remainders.
LEMMA RemainderUnique ==
    ASSUME NEW q \in Nat, q > 1, NEW a \in Int, NEW b \in Int,
           NEW r \in 0..(q - 1), NEW s \in 0..(q - 1), q * a + r = q * b + s
    PROVE  r = s
  <1>1. ASSUME NEW x \in Int, NEW y \in Int, x < y PROVE q * x + q <= q * y
    <2>1. q * (x + 1) = q * x + q
      OBVIOUS
    <2>2. PICK k \in Nat : y = (x + 1) + k
      <3>1. y - (x + 1) \in Nat /\ y = (x + 1) + (y - (x + 1))
        BY <1>1
      <3> QED
        BY <3>1
    <2>3. q * y = q * (x + 1) + q * k
      BY <2>2
    <2>4. q * k \in Nat /\ q * x \in Int
      OBVIOUS
    <2> QED
      BY <2>1, <2>3, <2>4
  <1> DEFINE m == q * a
             n == q * b
  <1>2. m \in Int /\ n \in Int /\ m + r = n + s
    OBVIOUS
  <1>3. /\ a < b => m + q <= n
        /\ b < a => n + q <= m
        /\ a = b => m = n
    BY <1>1
  <1> HIDE DEF m, n
  <1> QED
    BY <1>2, <1>3

\* Adding to a remainder instead of the number makes no difference to the remainder.
LEMMA AddAfterReduction ==
    ASSUME NEW q \in Nat, q > 1, NEW a \in Int, NEW b \in Int
    PROVE  ((a % q) + b) % q = (a + b) % q
  <1>1. \A k \in Int : /\ k % q \in 0..(q - 1) /\ k \div q \in Int
                       /\ k = q * (k \div q) + (k % q)
    OBVIOUS
  <1> DEFINE x == (a % q) + b
             u == a \div q
             v == x \div q
             w == (a + b) \div q
  <1>2. /\ x \in Int /\ u \in Int /\ v \in Int /\ w \in Int /\ a + b \in Int
        /\ x % q \in 0..(q - 1) /\ (a + b) % q \in 0..(q - 1)
    BY <1>1
  <1>3. /\ a = q * u + (a % q) /\ x = q * v + (x % q) /\ a + b = q * w + ((a + b) % q)
    BY <1>1, <1>2
  <1>4. a % q \in Int /\ x = (a % q) + b
    BY <1>1
  <1> HIDE DEF x, u, v, w
  <1>5. q * (u + v) = q * u + q * v /\ u + v \in Int
    BY <1>2
  <1> DEFINE r == x % q
             s == (a + b) % q
             t == a % q
             m == q * u
             n == q * v
             p == q * (u + v)
             o == q * w
  <1>6. m \in Int /\ n \in Int /\ p \in Int /\ o \in Int /\ t \in Int /\ r \in Int /\ s \in Int
    BY <1>2, <1>4, <1>5
  <1>7. a = m + t /\ x = n + r /\ a + b = o + s /\ x = t + b /\ p = m + n
    BY <1>3, <1>4, <1>5
  <1>8. p + r = o + s
    <2> HIDE DEF r, s, t, m, n, p, o
    <2> QED
      BY <1>2, <1>6, <1>7
  <1>9. r = s
    BY <1>2, <1>5, <1>8, RemainderUnique
  <1> QED
    BY <1>9 DEF x

\* A reduced number is its own remainder.
LEMMA SmallRemainder ==
    ASSUME NEW a \in Scalar
    PROVE  a % CURVE_ORDER = a
  BY CurveOrderAssumption DEF Scalar

\* The fold of the received sub-shares, an arbitrary one outermost.
ZeroFold(h, R, P, base) ==
    h = [s \in SUBSET R |->
            IF s = {} THEN base
            ELSE (h[s \ {CHOOSE p \in s : TRUE}]
                    + [p \in P |-> ReceivedSubShare(p)][CHOOSE p \in s : TRUE]) % CURVE_ORDER]

\* Sub-shares of zero leave the share alone: only the node's own one is added.
LEMMA OwnSubShareAdded ==
    ASSUME NEW l, IsFiniteSet(l.peers), shares[currentShare] \in Scalar
    PROVE  NewShareValue(l) = (shares[currentShare] + SelfSubShare(l.coeffs)) % CURVE_ORDER
  <1> DEFINE base == shares[currentShare]
             P == l.peers
             R == IF SelfIndex = NoIndex THEN {} ELSE P
             Add(value, acc) == (acc + value) % CURVE_ORDER
  <1>1. R \subseteq P /\ IsFiniteSet(R)
    BY FS_EmptySet
  <1>2. (base + 0) % CURVE_ORDER = base
    <2>1. base + 0 = base
      BY CurveOrderAssumption DEF Scalar
    <2> QED
      BY <2>1, SmallRemainder
  <1>3. \A p \in P : [q \in P |-> ReceivedSubShare(q)][p] = 0
    BY DEF ReceivedSubShare
  <1> HIDE DEF base, P, R
  <1>4. ZeroFold([s \in SUBSET R |-> base], R, P, base)
    <2>1. ASSUME NEW s \in SUBSET R, s # {}
          PROVE  (base + [p \in P |-> ReceivedSubShare(p)][CHOOSE p \in s : TRUE]) % CURVE_ORDER
                    = base
      BY <1>1, <1>2, <1>3, <2>1
    <2> QED
      BY <2>1 DEF ZeroFold
  <1>5. PICK h : /\ ZeroFold(h, R, P, base)
                 /\ FoldFunctionOnSet(Add, base, [p \in P |-> ReceivedSubShare(p)], R) = h[R]
    BY <1>4, Zenon DEF FoldFunctionOnSet, MapThenFoldSet, ZeroFold
  <1> DEFINE H == {s \in SUBSET R : h[s] = base}
  <1>6. ASSUME NEW T \in SUBSET R, \A p \in T : T \ {p} \in H PROVE h[T] = base
    <2>1. CASE T = {}
      BY <1>5, <2>1 DEF ZeroFold
    <2>2. CASE T # {}
      <3> DEFINE p == CHOOSE p \in T : TRUE
      <3>1. p \in T /\ h[T] = (h[T \ {p}] + [q \in P |-> ReceivedSubShare(q)][p]) % CURVE_ORDER
        BY <1>5, <2>2 DEF ZeroFold
      <3> HIDE DEF p
      <3>2. h[T \ {p}] = base /\ [q \in P |-> ReceivedSubShare(q)][p] = 0
        BY <1>1, <1>3, <1>6, <3>1
      <3> QED
        BY <1>2, <3>1, <3>2
    <2> QED
      BY <2>1, <2>2
  <1>7. Closed(R, H)
    BY <1>6 DEF Closed
  <1>8. h[R] = base
    <2>1. SUBSET R \subseteq H
      <3> HIDE DEF H
      <3> QED
        BY <1>1, <1>7, SubsetsFromSmaller
    <2> QED
      BY <2>1
  <1> QED
    BY <1>5, <1>8, Zenon DEF NewShareValue, base, P, R

-----------------------------------------------------------------------------
(* The inductive invariant of the refreshes *)

Coeffs == [1..(Threshold - 1) -> NonzeroScalar]

CallState ==
    [pc : {"idle", "failed"}]
        \cup [pc : {"sending"}, newEpoch : Nat, coeffs : Coeffs,
              peers : SUBSET Peer, todo : SUBSET Peer]
        \cup [pc : {"verifying", "done"}, newEpoch : Nat, coeffs : Coeffs, oldPaillier : Nat]

\* What a share is worth does not matter here: the shares are some sequence.
IsSequence(s) == \E S : s \in Seq(S)

RefreshTypes ==
    /\ IsSequence(shares)
    /\ paillier \in Nat
    /\ currentShare \in 0..Len(shares)
    /\ currentPaillier \in 0..paillier
    /\ currentEpoch \in Nat
    /\ call \in [Call -> CallState]
    /\ epochs \in Seq(Nat)

Verifying == {c \in Call : call[c].pc = "verifying"}

\* The keys that calls in flight are going to destroy.
OldKeys == {call[c].oldPaillier : c \in Verifying}

DroppedShares == {d[1] : d \in dropped}
DroppedKeys == {d[2] : d \in dropped}

\* What initialize replaced existed and is not in use.
DroppedAreOld ==
    /\ \A s \in DroppedShares : s \in 1..Len(shares) /\ s # currentShare
    /\ \A k \in DroppedKeys : k \in 1..paillier /\ k # currentPaillier

SharesAccounted ==
    released = (1..Len(shares)) \ ({currentShare} \cup DroppedShares)

\* Each key is current, dropped, destroyed or about to be, and only one of these;
\* no two calls are about to destroy one key.
KeysAccounted ==
    /\ zeroized = (1..paillier) \ ({currentPaillier} \cup DroppedKeys \cup OldKeys)
    /\ \A c \in Verifying :
          /\ call[c].oldPaillier \in 1..paillier
          /\ call[c].oldPaillier # currentPaillier
          /\ call[c].oldPaillier \notin DroppedKeys
          /\ \A d \in Verifying : call[c].oldPaillier = call[d].oldPaillier => c = d

\* Nothing runs before the first initialize.
InitializedFirst ==
    /\ epochs = <<>> <=> currentShare = 0
    /\ epochs = <<>> <=> currentPaillier = 0
    /\ epochs = <<>> => \A c \in Call : call[c].pc = "idle"

\* Only finitely many calls have begun: counting them makes sense.
CallsFinite == IsFiniteSet({c \in Call : call[c].pc # "idle"}) /\ IsFiniteSet(applied)

RefreshInv ==
    /\ RefreshTypes
    /\ DroppedAreOld
    /\ SharesAccounted
    /\ KeysAccounted
    /\ InitializedFirst
    /\ CallsFinite

-----------------------------------------------------------------------------
(* Sequences and sets of calls *)

\* A sequence grows by one item, whatever the items are.
LEMMA OneMoreItem ==
    ASSUME NEW s, IsSequence(s), NEW x
    PROVE  /\ IsSequence(Append(s, x)) /\ Len(s) \in Nat
           /\ Len(Append(s, x)) = Len(s) + 1 /\ Append(s, x)[Len(Append(s, x))] = x
  <1>1. PICK S : s \in Seq(S)
    BY DEF IsSequence
  <1>2. s \in Seq(S \cup {x})
    BY <1>1
  <1>3. /\ Append(s, x) \in Seq(S \cup {x}) /\ Len(s) \in Nat
        /\ Len(Append(s, x)) = Len(s) + 1 /\ Append(s, x)[Len(Append(s, x))] = x
    BY <1>2
  <1> QED
    BY <1>3 DEF IsSequence

\* The finished calls can be counted.
LEMMA DoneFinite ==
    ASSUME RefreshInv
    PROVE  IsFiniteSet(Done) /\ Cardinality(Done) \in Nat
  <1>1. Done \subseteq {c \in Call : call[c].pc # "idle"}
    BY DEF Done
  <1>2. IsFiniteSet(Done)
    BY <1>1, FS_Subset DEF RefreshInv, CallsFinite
  <1> QED
    BY <1>2, FS_CardinalityType

\* A call that moves leaves the others alone, and finitely many have begun.
LEMMA CallMoves ==
    ASSUME RefreshInv, NEW c \in Call, NEW st \in CallState, st.pc # "idle",
           call' = [call EXCEPT ![c] = st]
    PROVE  /\ call' \in [Call -> CallState]
           /\ call'[c] = st
           /\ \A d \in Call : d # c => call'[d] = call[d]
           /\ IsFiniteSet({d \in Call : call'[d].pc # "idle"})
  <1>1. /\ call' \in [Call -> CallState]
        /\ call'[c] = st
        /\ \A d \in Call : d # c => call'[d] = call[d]
    BY DEF RefreshInv, RefreshTypes
  <1>2. {d \in Call : call'[d].pc # "idle"} = {d \in Call : call[d].pc # "idle"} \cup {c}
    BY <1>1
  <1>3. IsFiniteSet({d \in Call : call[d].pc # "idle"} \cup {c})
    BY FS_AddElement DEF RefreshInv, CallsFinite
  <1> QED
    BY <1>1, <1>2, <1>3

-----------------------------------------------------------------------------
(* Every step keeps the invariant *)

\* initialize drops the current objects, which are then neither current nor released.
LEMMA InitializeKeeps ==
    ASSUME RefreshInv, NEW share, NEW epoch \in Epochs, Initialize(share, epoch)
    PROVE  RefreshInv'
  <1>1. /\ shares' = Append(shares, share) /\ currentShare' = Len(shares')
        /\ paillier' = paillier + 1 /\ currentPaillier' = paillier'
        /\ currentEpoch' = epoch /\ applied' = {} /\ epochs' = Append(epochs, epoch)
        /\ dropped' = IF currentShare = 0 THEN dropped
                      ELSE dropped \cup {<<currentShare, currentPaillier>>}
        /\ UNCHANGED <<released, zeroized, call>>
    BY DEF Initialize
  <1>2. /\ IsSequence(shares') /\ Len(shares) \in Nat /\ Len(shares') = Len(shares) + 1
        /\ currentShare \in 0..Len(shares) /\ currentPaillier \in 0..paillier
        /\ paillier \in Nat /\ epoch \in Nat
        /\ epochs' \in Seq(Nat) /\ epochs' # <<>>
        /\ currentShare = 0 <=> currentPaillier = 0
    <2>1. epochs \in Seq(Nat) /\ epoch \in Nat
      BY RefreshAssumption DEF RefreshInv, RefreshTypes
    <2>2. epochs' \in Seq(Nat) /\ epochs' # <<>>
      BY <1>1, <2>1
    <2> QED
      BY <1>1, <2>1, <2>2, OneMoreItem DEF RefreshInv, RefreshTypes, InitializedFirst
  <1>3. /\ DroppedShares' = IF currentShare = 0 THEN DroppedShares
                            ELSE DroppedShares \cup {currentShare}
        /\ DroppedKeys' = IF currentShare = 0 THEN DroppedKeys
                          ELSE DroppedKeys \cup {currentPaillier}
    <2>1. CASE currentShare = 0
      BY <1>1, <2>1 DEF DroppedShares, DroppedKeys
    <2>2. CASE currentShare # 0
      <3> DEFINE pair == <<currentShare, currentPaillier>>
      <3>1. dropped' = dropped \cup {pair}
        BY <1>1, <2>2
      <3>2. pair[1] = currentShare /\ pair[2] = currentPaillier
        OBVIOUS
      <3> HIDE DEF pair
      <3>3. /\ DroppedShares' = DroppedShares \cup {currentShare}
            /\ DroppedKeys' = DroppedKeys \cup {currentPaillier}
        BY <3>1, <3>2 DEF DroppedShares, DroppedKeys
      <3> QED
        BY <2>2, <3>3
    <2> QED
      BY <2>1, <2>2
  <1>4. Verifying' = Verifying /\ OldKeys' = OldKeys /\ Done' = Done
    BY <1>1 DEF Verifying, OldKeys, Done
  <1>5. RefreshTypes'
    BY <1>1, <1>2 DEF RefreshInv, RefreshTypes
  <1>6. DroppedAreOld'
    <2>1. /\ \A s \in DroppedShares : s \in 1..Len(shares)
          /\ \A k \in DroppedKeys : k \in 1..paillier
      BY DEF RefreshInv, DroppedAreOld
    <2>2. \A s \in DroppedShares' : s \in 1..Len(shares)
      BY <1>2, <1>3, <2>1
    <2>3. \A k \in DroppedKeys' : k \in 1..paillier
      BY <1>2, <1>3, <2>1
    <2> QED
      BY <1>1, <1>2, <2>2, <2>3 DEF DroppedAreOld
  <1>7. SharesAccounted'
    BY <1>1, <1>2, <1>3 DEF RefreshInv, SharesAccounted, DroppedAreOld
  <1>8. KeysAccounted'
    <2>1. \A c \in Verifying :
             /\ call[c].oldPaillier \in 1..paillier
             /\ call[c].oldPaillier # currentPaillier
             /\ call[c].oldPaillier \notin DroppedKeys
      BY DEF RefreshInv, KeysAccounted
    <2>2. OldKeys \subseteq 1..paillier
      BY <2>1 DEF OldKeys
    <2>3. zeroized' = (1..paillier') \ ({currentPaillier'} \cup DroppedKeys' \cup OldKeys')
      BY <1>1, <1>2, <1>3, <1>4, <2>2 DEF RefreshInv, KeysAccounted, DroppedAreOld
    <2> QED
      BY <1>1, <1>2, <1>3, <1>4, <2>1, <2>3 DEF RefreshInv, KeysAccounted
  <1>9. InitializedFirst'
    BY <1>1, <1>2 DEF InitializedFirst
  <1>10. CallsFinite'
    BY <1>1, FS_EmptySet DEF RefreshInv, CallsFinite
  <1> QED
    BY <1>5, <1>6, <1>7, <1>8, <1>9, <1>10 DEF RefreshInv

\* A call that only sends, or fails, touches nothing but itself.
LEMMA SendingKeeps ==
    ASSUME RefreshInv, NEW c \in Call, call[c].pc \in {"idle", "sending"}, currentShare # 0,
           NEW st \in CallState, st.pc \in {"sending", "failed"}, call' = [call EXCEPT ![c] = st],
           UNCHANGED <<engine, objects, initial, applied, dropped, epochs>>
    PROVE  RefreshInv'
  <1>1. /\ call' \in [Call -> CallState]
        /\ call'[c] = st
        /\ \A d \in Call : d # c => call'[d] = call[d]
        /\ IsFiniteSet({d \in Call : call'[d].pc # "idle"})
    BY CallMoves
  <1>2. Verifying' = Verifying /\ Done' = Done
    BY <1>1 DEF Verifying, Done
  <1>3. \A d \in Verifying : call'[d] = call[d]
    BY <1>1 DEF Verifying
  <1>4. OldKeys' = OldKeys /\ DroppedShares' = DroppedShares /\ DroppedKeys' = DroppedKeys
    BY <1>2, <1>3 DEF OldKeys, DroppedShares, DroppedKeys
  <1>5. UNCHANGED <<currentShare, currentPaillier, currentEpoch, shares, released, paillier,
                    zeroized, initial, applied, dropped, epochs>>
    BY DEF engine, objects
  <1>6. RefreshTypes' /\ DroppedAreOld' /\ SharesAccounted'
    BY <1>1, <1>4, <1>5 DEF RefreshInv, RefreshTypes, DroppedAreOld, SharesAccounted
  <1>7. KeysAccounted'
    BY <1>2, <1>3, <1>4, <1>5 DEF RefreshInv, KeysAccounted
  <1>8. InitializedFirst' /\ CallsFinite'
    BY <1>1, <1>2, <1>5 DEF RefreshInv, InitializedFirst, CallsFinite
  <1> QED
    BY <1>6, <1>7, <1>8 DEF RefreshInv

\* The share and the key are replaced in one step: what they were is released,
\* or becomes the old key of this call alone.
LEMMA CombineKeeps ==
    ASSUME RefreshInv, NEW c \in Call, call[c].pc \in {"idle", "sending"}, currentShare # 0,
           NEW l, l.newEpoch \in Nat, l.coeffs \in Coeffs,
           Combine(c, l)
    PROVE  RefreshInv'
  <1> DEFINE st == [pc |-> "verifying", newEpoch |-> l.newEpoch, coeffs |-> l.coeffs,
                    oldPaillier |-> currentPaillier]
  <1>1. /\ Len(shares) \in Nat /\ paillier \in Nat /\ epochs # <<>>
        /\ currentShare \in 1..Len(shares) /\ currentPaillier \in 1..paillier
        /\ currentShare \notin released
    <2>1. Len(shares) \in Nat
      BY OneMoreItem DEF RefreshInv, RefreshTypes
    <2> QED
      BY <2>1 DEF RefreshInv, RefreshTypes, InitializedFirst, SharesAccounted
  <1>2. /\ shares' = Append(shares, NewShareValue(l)) /\ currentShare' = Len(shares')
        /\ released' = released \cup {currentShare}
        /\ paillier' = paillier + 1 /\ currentPaillier' = paillier'
        /\ call' = [call EXCEPT ![c] = st]
        /\ applied' = applied \cup {c}
        /\ UNCHANGED <<currentEpoch, zeroized, initial, dropped, epochs>>
    BY <1>1 DEF Combine, Readable
  <1>3. st \in CallState /\ st.pc = "verifying" /\ st.newEpoch = l.newEpoch
           /\ st.oldPaillier = currentPaillier
    BY <1>1 DEF CallState
  <1> HIDE DEF st
  <1>4. /\ call' \in [Call -> CallState]
        /\ call'[c] = st
        /\ \A d \in Call : d # c => call'[d] = call[d]
        /\ IsFiniteSet({d \in Call : call'[d].pc # "idle"})
    BY <1>2, <1>3, CallMoves
  <1>5. IsSequence(shares') /\ Len(shares') = Len(shares) + 1
    BY <1>2, OneMoreItem DEF RefreshInv, RefreshTypes
  <1>6. /\ Done' = Done
        /\ Verifying' = Verifying \cup {c} /\ c \notin Verifying
        /\ \A d \in Verifying : call'[d] = call[d]
    BY <1>3, <1>4 DEF Verifying, Done
  <1>7. OldKeys' = OldKeys \cup {currentPaillier}
    BY <1>3, <1>4, <1>6 DEF OldKeys
  <1>8. DroppedShares' = DroppedShares /\ DroppedKeys' = DroppedKeys
    BY <1>2 DEF DroppedShares, DroppedKeys
  <1>9. RefreshTypes'
    BY <1>1, <1>2, <1>4, <1>5 DEF RefreshInv, RefreshTypes
  <1>10. DroppedAreOld'
    BY <1>1, <1>2, <1>5, <1>8 DEF RefreshInv, DroppedAreOld
  <1>11. SharesAccounted'
    BY <1>1, <1>2, <1>5, <1>8 DEF RefreshInv, SharesAccounted, DroppedAreOld
  <1>12. KeysAccounted'
    <2>1. \A d \in Verifying :
             /\ call[d].oldPaillier \in 1..paillier
             /\ call[d].oldPaillier # currentPaillier
             /\ call[d].oldPaillier \notin DroppedKeys
             /\ \A e \in Verifying : call[d].oldPaillier = call[e].oldPaillier => d = e
      BY DEF RefreshInv, KeysAccounted
    <2>2. zeroized' = (1..paillier') \ ({currentPaillier'} \cup DroppedKeys' \cup OldKeys')
      <3>1. OldKeys \subseteq 1..paillier /\ DroppedKeys \subseteq 1..paillier
        BY <2>1 DEF OldKeys, RefreshInv, DroppedAreOld
      <3>2. /\ zeroized' = (1..paillier) \ ({currentPaillier} \cup DroppedKeys \cup OldKeys)
            /\ currentPaillier' = paillier + 1 /\ paillier' = paillier + 1
            /\ 1..(paillier + 1) = (1..paillier) \cup {paillier + 1}
            /\ paillier + 1 \notin 1..paillier
        BY <1>1, <1>2 DEF RefreshInv, KeysAccounted
      <3> QED
        BY ONLY <1>7, <1>8, <3>1, <3>2
    <2>3. \A d \in Verifying' :
             /\ call'[d].oldPaillier \in 1..paillier
             /\ call'[d].oldPaillier \notin DroppedKeys
             /\ \A e \in Verifying' : call'[d].oldPaillier = call'[e].oldPaillier => d = e
      BY <1>1, <1>3, <1>4, <1>6, <2>1 DEF RefreshInv, DroppedAreOld
    <2> QED
      BY <1>1, <1>2, <1>8, <2>2, <2>3 DEF KeysAccounted
  <1>13. InitializedFirst'
    BY <1>1, <1>2, <1>5 DEF InitializedFirst
  <1>14. CallsFinite'
    BY <1>2, <1>4, FS_AddElement DEF RefreshInv, CallsFinite
  <1> QED
    BY <1>9, <1>10, <1>11, <1>12, <1>13, <1>14 DEF RefreshInv

\* executeRefresh begins, and without connected peers replaces the share at once.
LEMMA BeginKeeps ==
    ASSUME RefreshInv, NEW c \in Call, NEW coeffs \in Coeffs, NEW peers \in SUBSET Peer,
           Begin(c, coeffs, peers)
    PROVE  RefreshInv'
  <1> DEFINE l == [pc |-> "sending", newEpoch |-> currentEpoch + 1, coeffs |-> coeffs,
                   peers |-> peers, todo |-> peers]
  <1>1. /\ call[c].pc = "idle" /\ currentShare # 0
        /\ \/ Combine(c, l)
           \/ /\ call' = [call EXCEPT ![c] = l]
              /\ UNCHANGED <<engine, objects, initial, applied, dropped, epochs>>
    BY DEF Begin
  <1>2. currentEpoch \in Nat
    BY DEF RefreshInv, RefreshTypes
  <1>3. l \in CallState /\ l.pc = "sending" /\ l.newEpoch \in Nat /\ l.coeffs \in Coeffs
    BY <1>2 DEF CallState
  <1> HIDE DEF l
  <1> QED
    BY <1>1, <1>3, SendingKeeps, CombineKeeps

\* Sending a sub-share, or failing to, moves only the call itself.
LEMMA SendOneKeeps ==
    ASSUME RefreshInv, NEW c \in Call, NEW p \in Peer, NEW sent \in BOOLEAN, SendOne(c, p, sent)
    PROVE  RefreshInv'
  <1>1. /\ call[c].pc = "sending" /\ call[c] \in CallState
    BY DEF SendOne, RefreshInv, RefreshTypes
  <1>2. currentShare # 0
    BY <1>1 DEF RefreshInv, InitializedFirst
  <1>3. UNCHANGED <<engine, objects, initial, applied, dropped, epochs>>
    BY DEF SendOne, history
  <1>4. CASE call' = [call EXCEPT ![c] = [pc |-> "failed"]]
    <2>1. [pc |-> "failed"] \in CallState
      BY DEF CallState
    <2> QED
      BY <1>1, <1>2, <1>3, <1>4, <2>1, SendingKeeps
  <1>5. CASE call' = [call EXCEPT ![c].todo = @ \ {p}]
    <2> DEFINE st == [call[c] EXCEPT !.todo = @ \ {p}]
    <2>1. st \in CallState /\ st.pc = "sending"
      BY <1>1 DEF CallState
    <2>2. call' = [call EXCEPT ![c] = st]
      BY <1>5 DEF RefreshInv, RefreshTypes
    <2> HIDE DEF st
    <2> QED
      BY <1>1, <1>2, <1>3, <2>1, <2>2, SendingKeeps
  <1> QED
    BY <1>4, <1>5 DEF SendOne

\* A call that has sent everything goes on to replace the share.
LEMMA CollectedKeeps ==
    ASSUME RefreshInv, NEW c \in Call, Collected(c)
    PROVE  RefreshInv'
  <1>1. /\ call[c].pc = "sending" /\ call[c] \in CallState /\ Combine(c, call[c])
    BY DEF Collected, RefreshInv, RefreshTypes
  <1>2. currentShare # 0
    BY <1>1 DEF RefreshInv, InitializedFirst
  <1>3. call[c].newEpoch \in Nat /\ call[c].coeffs \in Coeffs
    BY <1>1 DEF CallState
  <1> QED
    BY <1>1, <1>2, <1>3, CombineKeeps

\* A call that finishes destroys a key that nobody else refers to any more.
LEMMA FinishKeeps ==
    ASSUME RefreshInv, NEW c \in Call, Finish(c)
    PROVE  RefreshInv'
  <1> DEFINE st == [call[c] EXCEPT !.pc = "done"]
  <1>1. /\ call[c].pc = "verifying" /\ call[c] \in CallState /\ c \in Verifying
        /\ currentEpoch' = call[c].newEpoch
        /\ zeroized' = zeroized \cup {call[c].oldPaillier}
        /\ UNCHANGED <<currentShare, currentPaillier, shares, released, paillier,
                       initial, applied, dropped, epochs>>
    BY DEF Finish, OldPaillier, history, RefreshInv, RefreshTypes, Verifying
  <1>2. call' = [call EXCEPT ![c] = st]
    BY DEF Finish, RefreshInv, RefreshTypes
  <1>3. st \in CallState /\ st.pc = "done" /\ call[c].newEpoch \in Nat
    BY <1>1 DEF CallState
  <1> HIDE DEF st
  <1>4. /\ call' \in [Call -> CallState]
        /\ call'[c] = st
        /\ \A d \in Call : d # c => call'[d] = call[d]
        /\ IsFiniteSet({d \in Call : call'[d].pc # "idle"})
    BY <1>2, <1>3, CallMoves
  <1>5. /\ Verifying' = Verifying \ {c}
        /\ \A d \in Verifying' : call'[d] = call[d]
    BY <1>1, <1>3, <1>4 DEF Verifying
  <1>7. DroppedShares' = DroppedShares /\ DroppedKeys' = DroppedKeys
    BY <1>1 DEF DroppedShares, DroppedKeys
  <1>8. RefreshTypes' /\ DroppedAreOld' /\ SharesAccounted'
    BY <1>1, <1>3, <1>4, <1>7 DEF RefreshInv, RefreshTypes, DroppedAreOld, SharesAccounted
  <1>9. KeysAccounted'
    <2>1. \A d \in Verifying :
             /\ call[d].oldPaillier \in 1..paillier
             /\ call[d].oldPaillier # currentPaillier
             /\ call[d].oldPaillier \notin DroppedKeys
             /\ \A e \in Verifying : call[d].oldPaillier = call[e].oldPaillier => d = e
      BY DEF RefreshInv, KeysAccounted
    <2>2. OldKeys' = OldKeys \ {call[c].oldPaillier}
      BY <1>1, <1>5, <2>1 DEF OldKeys
    <2> QED
      BY <1>1, <1>5, <1>7, <2>1, <2>2 DEF RefreshInv, KeysAccounted
  <1>10. InitializedFirst'
    BY <1>1 DEF RefreshInv, InitializedFirst
  <1>11. CallsFinite'
    BY <1>1, <1>4 DEF RefreshInv, CallsFinite
  <1> QED
    BY <1>8, <1>9, <1>10, <1>11 DEF RefreshInv

\* Every step of the refresh engine keeps the invariant.
LEMMA RefreshStep == RefreshInv /\ [RefreshNext]_refreshVars => RefreshInv'
  <1> SUFFICES ASSUME RefreshInv, [RefreshNext]_refreshVars
               PROVE  RefreshInv'
    OBVIOUS
  <1>1. ASSUME NEW share \in NonzeroScalar, NEW epoch \in Epochs,
               Initialize(share, epoch)
        PROVE  RefreshInv'
    BY <1>1, InitializeKeeps
  <1>2. ASSUME NEW c \in Call, NEW coeffs \in [1..(Threshold - 1) -> NonzeroScalar],
               NEW peers \in SUBSET Peer, Begin(c, coeffs, peers)
        PROVE  RefreshInv'
    BY <1>2, BeginKeeps DEF Coeffs
  <1>3. ASSUME NEW c \in Call, NEW p \in Peer, NEW sent \in BOOLEAN, SendOne(c, p, sent)
        PROVE  RefreshInv'
    BY <1>3, SendOneKeeps
  <1>4. ASSUME NEW c \in Call, Collected(c) \/ Finish(c) PROVE RefreshInv'
    BY <1>4, CollectedKeeps, FinishKeeps
  <1>5. CASE UNCHANGED refreshVars
    BY <1>5 DEF refreshVars, engine, objects, history, RefreshInv, RefreshTypes, DroppedAreOld,
                SharesAccounted, KeysAccounted, InitializedFirst, CallsFinite,
                Verifying, OldKeys, DroppedShares, DroppedKeys
  <1> QED
    BY <1>1, <1>2, <1>3, <1>4, <1>5 DEF RefreshNext

\* The invariant holds throughout.
LEMMA RefreshInvariance == RefreshSpec => []RefreshInv
  <1>1. RefreshInit => RefreshInv
    <2> SUFFICES ASSUME RefreshInit PROVE RefreshInv
      OBVIOUS
    <2>1. /\ call \in [Call -> CallState] /\ \A c \in Call : call[c].pc = "idle"
          /\ {c \in Call : call[c].pc # "idle"} = {}
          /\ Verifying = {} /\ Done = {} /\ OldKeys = {}
          /\ DroppedShares = {} /\ DroppedKeys = {}
      <3>1. NotCalled \in CallState /\ NotCalled.pc = "idle"
        BY DEF NotCalled, CallState
      <3>2. call = [c \in Call |-> NotCalled] /\ dropped = {}
        BY DEF RefreshInit
      <3> QED
        BY <3>1, <3>2 DEF Verifying, Done, OldKeys, DroppedShares, DroppedKeys
    <2>2. IsSequence(shares) /\ Len(shares) = 0
      <3>1. << >> \in Seq({}) /\ shares = << >>
        BY DEF RefreshInit
      <3> QED
        BY <3>1 DEF IsSequence
    <2>3. RefreshTypes
      BY <2>1, <2>2 DEF RefreshInit, RefreshTypes
    <2>4. DroppedAreOld /\ SharesAccounted /\ KeysAccounted
      <3>1. /\ released = {} /\ zeroized = {} /\ paillier = 0 /\ 1..0 = {}
            /\ currentShare = 0 /\ currentPaillier = 0
        BY DEF RefreshInit
      <3>2. DroppedAreOld
        BY <2>1 DEF DroppedAreOld
      <3>3. SharesAccounted
        BY <2>1, <2>2, <3>1 DEF SharesAccounted
      <3>4. KeysAccounted
        BY <2>1, <3>1 DEF KeysAccounted
      <3> QED
        BY <3>2, <3>3, <3>4
    <2>5. InitializedFirst
      BY <2>1 DEF RefreshInit, InitializedFirst
    <2>6. CallsFinite
      <3>1. applied = {}
        BY DEF RefreshInit
      <3> QED
        BY <2>1, <3>1, FS_EmptySet DEF CallsFinite
    <2> QED
      BY <2>3, <2>4, <2>5, <2>6 DEF RefreshInv
  <1> QED
    BY <1>1, RefreshStep, PTL DEF RefreshSpec

-----------------------------------------------------------------------------
(* The sum behind the current share *)

\* The share is a scalar, made of the contributions of calls that are past replacing it.
ShareSums ==
    /\ initial \in Scalar
    /\ currentShare # 0 => shares[currentShare] \in Scalar
    /\ applied \subseteq Call
    /\ \A c \in applied : call[c].pc \in {"verifying", "done"}
    /\ NoRefreshLost

\* What each applied call contributed is a number, and there are finitely many.
LEMMA ContributionsAreNumbers ==
    ASSUME RefreshInv, ShareSums
    PROVE  /\ IsFiniteSet(applied)
           /\ \A c \in applied : SelfSubShare(call[c].coeffs) \in Int
  <1>1. ASSUME NEW c \in applied PROVE call[c].coeffs \in Coeffs
    <2>1. call[c] \in CallState /\ call[c].pc \in {"verifying", "done"}
      BY DEF RefreshInv, RefreshTypes, ShareSums
    <2> QED
      BY <2>1 DEF CallState
  <1>2. ASSUME NEW c \in applied PROVE SelfSubShare(call[c].coeffs) \in Int
    BY <1>1, SelfSubShareType DEF Coeffs
  <1> QED
    BY <1>2 DEF RefreshInv, CallsFinite

\* Steps that leave the share and the coefficients of applied calls alone.
LEMMA ShareUntouched ==
    ASSUME ShareSums, UNCHANGED <<shares, currentShare, initial, applied>>,
           \A c \in applied : /\ call'[c].coeffs = call[c].coeffs
                              /\ call'[c].pc \in {"verifying", "done"}
    PROVE  ShareSums'
  <1> DEFINE f == [c \in applied |-> SelfSubShare(call[c].coeffs)]
             g == [c \in applied' |-> SelfSubShare(call'[c].coeffs)]
  <1>1. f = g
    OBVIOUS
  <1>2. currentShare' # 0 =>
           shares'[currentShare'] = (initial' + SumFunction(g)) % CURVE_ORDER
    <2>1. currentShare # 0 =>
             shares[currentShare] = (initial + SumFunction(f)) % CURVE_ORDER
      BY DEF ShareSums, NoRefreshLost
    <2> HIDE DEF f, g
    <2> QED
      BY <1>1, <2>1
  <1>3. NoRefreshLost'
    BY <1>2 DEF NoRefreshLost
  <1> QED
    BY <1>3 DEF ShareSums

\* initialize begins a new sum.
LEMMA InitializeSums ==
    ASSUME RefreshInv, ShareSums, NEW share \in NonzeroScalar, NEW epoch \in Epochs,
           Initialize(share, epoch)
    PROVE  ShareSums'
  <1>1. /\ shares' = Append(shares, share) /\ currentShare' = Len(shares')
        /\ initial' = share /\ applied' = {}
    BY DEF Initialize
  <1>2. shares'[currentShare'] = share
    BY <1>1, OneMoreItem DEF RefreshInv, RefreshTypes
  <1>3. share \in Scalar /\ share + 0 = share
    BY CurveOrderAssumption DEF Scalar, NonzeroScalar
  <1> DEFINE g == [c \in applied' |-> SelfSubShare(call'[c].coeffs)]
  <1>4. SumFunction(g) = 0
    <2>1. DOMAIN g = {}
      BY <1>1
    <2> HIDE DEF g
    <2> QED
      BY <2>1, EmptySum
  <1>5. shares'[currentShare'] = (initial' + SumFunction(g)) % CURVE_ORDER
    BY <1>1, <1>2, <1>3, <1>4, SmallRemainder
  <1>6. NoRefreshLost'
    BY <1>5 DEF NoRefreshLost
  <1> QED
    BY <1>1, <1>2, <1>3, <1>6 DEF ShareSums

\* A call that only sends, or fails, has not contributed yet.
LEMMA SendingSums ==
    ASSUME RefreshInv, ShareSums, NEW c \in Call, call[c].pc \in {"idle", "sending"},
           NEW st, call' = [call EXCEPT ![c] = st], UNCHANGED <<engine, objects, initial, applied>>
    PROVE  ShareSums'
  <1>1. c \notin applied /\ applied \subseteq Call
    BY DEF ShareSums
  <1>2. \A d \in applied : call'[d] = call[d]
    BY <1>1 DEF RefreshInv, RefreshTypes
  <1>3. UNCHANGED <<shares, currentShare, initial, applied>>
    BY DEF engine, objects
  <1>4. \A d \in applied : call[d].pc \in {"verifying", "done"}
    BY DEF ShareSums
  <1> QED
    BY <1>2, <1>3, <1>4, ShareUntouched

\* Replacing the share adds the contribution of one call, that had made none yet, to
\* the share that is current then.
LEMMA CombineSums ==
    ASSUME RefreshInv, ShareSums, NEW c \in Call, call[c].pc \in {"idle", "sending"},
           currentShare # 0, NEW l, l.coeffs \in Coeffs, l.peers \in SUBSET Peer,
           Combine(c, l)
    PROVE  ShareSums'
  <1> DEFINE st == [pc |-> "verifying", newEpoch |-> l.newEpoch, coeffs |-> l.coeffs,
                    oldPaillier |-> currentPaillier]
             f == [d \in applied |-> SelfSubShare(call[d].coeffs)]
             g == [d \in applied' |-> SelfSubShare(call'[d].coeffs)]
             own == SelfSubShare(l.coeffs)
  <1>1. currentShare \notin released
    BY DEF RefreshInv, SharesAccounted
  <1>2. /\ shares' = Append(shares, NewShareValue(l)) /\ currentShare' = Len(shares')
        /\ call' = [call EXCEPT ![c] = st]
        /\ applied' = applied \cup {c} /\ initial' = initial
    BY <1>1 DEF Combine, Readable
  <1>3. c \notin applied /\ applied \subseteq Call
    BY DEF ShareSums
  <1>4. call'[c] = st /\ \A d \in applied : call'[d] = call[d]
    BY <1>2, <1>3 DEF RefreshInv, RefreshTypes
  <1>5. st.pc = "verifying" /\ st.coeffs = l.coeffs
    OBVIOUS
  <1> HIDE DEF st
  <1>6. own \in Int
    BY SelfSubShareType DEF Coeffs
  <1>7. SumFunction(f) \in Int /\ SumFunction(g) = SumFunction(f) + own
    <2>1. DOMAIN f = applied /\ DOMAIN g = applied \cup {c}
      BY <1>2
    <2>2. \A d \in applied : f[d] \in Int /\ g[d] = f[d]
      BY <1>2, <1>4, ContributionsAreNumbers
    <2>3. g[c] = own
      BY <1>2, <1>4, <1>5
    <2>4. IsFiniteSet(applied)
      BY ContributionsAreNumbers
    <2> HIDE DEF f, g, own
    <2> QED
      BY <1>3, <1>6, <2>1, <2>2, <2>3, <2>4, SumAddsOne
  <1>8. /\ shares[currentShare] \in Scalar
        /\ shares[currentShare] = (initial + SumFunction(f)) % CURVE_ORDER
    BY DEF ShareSums, NoRefreshLost
  <1>9. NewShareValue(l) = (shares[currentShare] + own) % CURVE_ORDER
    <2>1. IsFiniteSet(l.peers)
      BY RefreshAssumption, FS_Subset
    <2> QED
      BY <1>8, <2>1, OwnSubShareAdded
  <1>10. shares'[currentShare'] = NewShareValue(l)
    BY <1>2, OneMoreItem DEF RefreshInv, RefreshTypes
  <1> DEFINE sum == initial + SumFunction(f)
  <1>11. initial \in Int /\ sum \in Int /\ sum + own = initial + SumFunction(g)
    <2>1. initial \in Int
      BY CurveOrderAssumption DEF ShareSums, Scalar
    <2> HIDE DEF f, g, own
    <2> QED
      BY <1>6, <1>7, <2>1
  <1>12. shares'[currentShare'] = (initial' + SumFunction(g)) % CURVE_ORDER
    <2> HIDE DEF f, g, own
    <2>1. ((sum % CURVE_ORDER) + own) % CURVE_ORDER = (sum + own) % CURVE_ORDER
      <3>1. CURVE_ORDER \in Nat /\ CURVE_ORDER > 1 /\ sum \in Int /\ own \in Int
        BY <1>6, <1>11, CurveOrderAssumption
      <3> HIDE DEF sum
      <3> QED
        BY <3>1, AddAfterReduction
    <2> QED
      BY <1>2, <1>8, <1>9, <1>10, <1>11, <2>1
  <1>13. NoRefreshLost'
    BY <1>12 DEF NoRefreshLost
  <1>14. shares'[currentShare'] \in Scalar
    <2>1. (sum + own) % CURVE_ORDER \in Scalar
      <3>1. sum + own \in Int
        BY <1>6, <1>11
      <3> HIDE DEF sum, own
      <3> QED
        BY <3>1, CurveOrderAssumption DEF Scalar
    <2> QED
      BY <1>2, <1>11, <1>12, <2>1
  <1>15. \A d \in applied' : call'[d].pc \in {"verifying", "done"}
    BY <1>2, <1>4, <1>5 DEF ShareSums
  <1> QED
    BY <1>2, <1>3, <1>13, <1>14, <1>15 DEF ShareSums

\* Finishing leaves the coefficients alone.
LEMMA FinishSums ==
    ASSUME RefreshInv, ShareSums, NEW c \in Call, Finish(c)
    PROVE  ShareSums'
  <1>1. /\ call' = [call EXCEPT ![c].pc = "done"]
        /\ UNCHANGED <<shares, currentShare, initial, applied>>
    BY DEF Finish, history
  <1>2. call[c] \in CallState /\ call[c].pc = "verifying"
    BY DEF Finish, RefreshInv, RefreshTypes
  <1>3. \A d \in applied : d \in Call /\ call[d].pc \in {"verifying", "done"}
    BY DEF ShareSums
  <1>4. call'[c].pc = "done" /\ call'[c].coeffs = call[c].coeffs
    BY <1>1, <1>2 DEF RefreshInv, RefreshTypes, CallState
  <1>5. \A d \in applied : d # c => call'[d] = call[d]
    BY <1>1, <1>3 DEF RefreshInv, RefreshTypes
  <1> QED
    BY <1>1, <1>3, <1>4, <1>5, ShareUntouched

\* Every step adds to the share exactly what it adds to the sum.
LEMMA SumStep == RefreshInv /\ ShareSums /\ [RefreshNext]_refreshVars => ShareSums'
  <1> SUFFICES ASSUME RefreshInv, ShareSums, [RefreshNext]_refreshVars
               PROVE  ShareSums'
    OBVIOUS
  <1>1. ASSUME NEW share \in NonzeroScalar, NEW epoch \in Epochs,
               Initialize(share, epoch)
        PROVE  ShareSums'
    BY <1>1, InitializeSums
  <1>2. ASSUME NEW c \in Call, NEW coeffs \in Coeffs, NEW peers \in SUBSET Peer,
               Begin(c, coeffs, peers)
        PROVE  ShareSums'
    <2> DEFINE l == [pc |-> "sending", newEpoch |-> currentEpoch + 1, coeffs |-> coeffs,
                     peers |-> peers, todo |-> peers]
    <2>1. /\ call[c].pc = "idle" /\ currentShare # 0
          /\ \/ Combine(c, l)
             \/ call' = [call EXCEPT ![c] = l] /\ UNCHANGED <<engine, objects, initial, applied>>
      BY <1>2 DEF Begin
    <2>2. l.coeffs \in Coeffs /\ l.peers \in SUBSET Peer
      OBVIOUS
    <2> HIDE DEF l
    <2> QED
      BY <2>1, <2>2, CombineSums, SendingSums
  <1>3. ASSUME NEW c \in Call, NEW p \in Peer, NEW sent \in BOOLEAN, SendOne(c, p, sent)
        PROVE  ShareSums'
    <2>1. call[c].pc = "sending" /\ UNCHANGED <<engine, objects, initial, applied>>
      BY <1>3 DEF SendOne, history
    <2>2. \E st : call' = [call EXCEPT ![c] = st]
      BY <1>3 DEF SendOne, RefreshInv, RefreshTypes
    <2> QED
      BY <2>1, <2>2, SendingSums
  <1>4. ASSUME NEW c \in Call, Collected(c) PROVE ShareSums'
    <2>1. call[c].pc = "sending" /\ call[c] \in CallState /\ Combine(c, call[c])
      BY <1>4 DEF Collected, RefreshInv, RefreshTypes
    <2>2. currentShare # 0
      BY <2>1 DEF RefreshInv, InitializedFirst
    <2>3. call[c].coeffs \in Coeffs /\ call[c].peers \in SUBSET Peer
      BY <2>1 DEF CallState
    <2> QED
      BY <2>1, <2>2, <2>3, CombineSums
  <1>5. ASSUME NEW c \in Call, Finish(c) PROVE ShareSums'
    BY <1>5, FinishSums
  <1>6. CASE UNCHANGED refreshVars
    BY <1>6, ShareUntouched DEF refreshVars, engine, objects, history, ShareSums
  <1> QED
    BY <1>1, <1>2, <1>3, <1>4, <1>5, <1>6 DEF RefreshNext, Coeffs

\* The sum is right throughout.
LEMMA SumInvariance == RefreshSpec => []ShareSums
  <1>1. RefreshInit => ShareSums
    BY CurveOrderAssumption DEF RefreshInit, ShareSums, NoRefreshLost, Scalar
  <1> QED
    BY <1>1, SumStep, RefreshInvariance, PTL DEF RefreshSpec

-----------------------------------------------------------------------------
(* The epoch *)

\* An epoch somebody gave, plus a number of calls.
Counts(n, calls) == \E e \in GivenEpochs : e <= n /\ n <= e + calls

\* A call in flight will set such an epoch too.
EpochsBounded ==
    /\ Counts(currentEpoch, Cardinality(Done))
    /\ \A c \in Call : InFlight(c) =>
          Counts(call[c].newEpoch - 1, Cardinality(Done))

\* The epoch that calls one at a time arrive at.
Counted == LastGiven + Cardinality(applied)

\* As long as no two calls overlapped, the one in flight, if there is one, is about
\* to raise the epoch by one.
LoneCallsCounted ==
    ~overlapped =>
        /\ \A c, d \in Call : InFlight(c) /\ InFlight(d) => c = d
        /\ (\A c \in Call : call[c].pc # "verifying") => currentEpoch = Counted
        /\ \A c \in Call :
              /\ call[c].pc = "sending" => call[c].newEpoch = currentEpoch + 1
              /\ call[c].pc = "verifying" => call[c].newEpoch = Counted

EpochInv == EpochsBounded /\ LoneCallsCounted

\* Epochs and counts are numbers.
LEMMA EpochNumbers ==
    ASSUME RefreshInv
    PROVE  /\ GivenEpochs \subseteq Nat /\ LastGiven \in Nat /\ currentEpoch \in Nat
           /\ IsFiniteSet(Done) /\ Cardinality(Done) \in Nat
           /\ IsFiniteSet(applied) /\ Cardinality(applied) \in Nat
           /\ \A c \in Call : InFlight(c) => call[c].newEpoch \in Nat
  <1>1. epochs \in Seq(Nat)
    BY DEF RefreshInv, RefreshTypes
  <1>2. GivenEpochs \subseteq Nat /\ LastGiven \in Nat
    BY <1>1 DEF GivenEpochs, LastGiven
  <1>3. IsFiniteSet(applied) /\ Cardinality(applied) \in Nat
    BY FS_CardinalityType DEF RefreshInv, CallsFinite
  <1>4. \A c \in Call : InFlight(c) => call[c].newEpoch \in Nat
    BY DEF RefreshInv, RefreshTypes, CallState, InFlight
  <1> QED
    BY <1>2, <1>3, <1>4, DoneFinite DEF RefreshInv, RefreshTypes

\* A call more never makes a number count for less.
LEMMA CountsGrow ==
    ASSUME RefreshInv, NEW n \in Int, NEW i \in Nat, NEW j \in Nat, i <= j, Counts(n, i)
    PROVE  Counts(n, j)
  <1>1. GivenEpochs \subseteq Nat
    BY EpochNumbers
  <1> QED
    BY <1>1 DEF Counts

\* initialize gives a new epoch, and forgets what was applied.
LEMMA InitializeCounts ==
    ASSUME RefreshInv, EpochInv, NEW share, NEW epoch \in Epochs, Initialize(share, epoch)
    PROVE  EpochInv'
  <1>1. /\ currentEpoch' = epoch /\ epochs' = Append(epochs, epoch) /\ applied' = {}
        /\ overlapped' = ~Quiet /\ UNCHANGED call
    BY DEF Initialize
  <1>2. /\ epochs \in Seq(Nat) /\ epoch \in Nat
    BY RefreshAssumption DEF RefreshInv, RefreshTypes
  <1>3. GivenEpochs' = GivenEpochs \cup {epoch} /\ LastGiven' = epoch
    BY <1>1, <1>2 DEF GivenEpochs, LastGiven
  <1>4. Done' = Done /\ \A c \in Call : InFlight(c)' = InFlight(c)
    BY <1>1 DEF Done, InFlight
  <1>5. EpochsBounded'
    <2>1. Counts(epoch, Cardinality(Done))'
      <3>1. epoch \in GivenEpochs' /\ Cardinality(Done') \in Nat
        BY <1>3, <1>4, EpochNumbers
      <3> QED
        BY <1>2, <3>1 DEF Counts
    <2>2. ASSUME NEW c \in Call, InFlight(c)
          PROVE  Counts(call[c].newEpoch - 1, Cardinality(Done))'
      BY <1>1, <1>3, <1>4, <2>2 DEF EpochInv, EpochsBounded, Counts
    <2> QED
      BY <1>1, <1>4, <2>1, <2>2 DEF EpochsBounded
  <1>6. LoneCallsCounted'
    <2>1. Cardinality(applied') = 0
      BY <1>1, FS_EmptySet
    <2>2. Counted' = epoch
      BY <1>2, <1>3, <2>1 DEF Counted
    <2> QED
      BY <1>1, <1>4, <2>2 DEF LoneCallsCounted, Quiet, InFlight
  <1> QED
    BY <1>5, <1>6 DEF EpochInv

\* A call that sends on, fails, or begins takes the epoch of this moment.
LEMMA SendingCounts ==
    ASSUME RefreshInv, EpochInv, NEW c \in Call, call[c].pc \in {"idle", "sending"},
           NEW st \in CallState, st.pc \in {"sending", "failed"}, call' = [call EXCEPT ![c] = st],
           call[c].pc = "idle" =>
               /\ st.newEpoch = currentEpoch + 1
               /\ overlapped' = (overlapped \/ ~Quiet),
           call[c].pc = "sending" =>
               /\ st.pc = "sending" => st.newEpoch = call[c].newEpoch
               /\ UNCHANGED overlapped,
           call[c].pc = "idle" => st.pc = "sending",
           UNCHANGED <<currentEpoch, applied, epochs>>
    PROVE  EpochInv'
  <1>1. /\ call'[c] = st /\ \A d \in Call : d # c => call'[d] = call[d]
        /\ call[c].pc # "done" /\ call[c].pc # "verifying"
    BY DEF RefreshInv, RefreshTypes
  <1>2. Done' = Done
    BY <1>1 DEF Done
  <1>3. /\ GivenEpochs' = GivenEpochs /\ LastGiven' = LastGiven /\ Counted' = Counted
        /\ \A n, k : Counts(n, k)' = Counts(n, k)
    BY DEF GivenEpochs, LastGiven, Counted, Counts
  <1>4. EpochsBounded'
    <2>1. st.pc = "sending" => Counts(st.newEpoch - 1, Cardinality(Done))
      <3>1. CASE call[c].pc = "idle"
        <4>1. st.newEpoch - 1 = currentEpoch
          BY <3>1, EpochNumbers
        <4> QED
          BY <4>1 DEF EpochInv, EpochsBounded
      <3>2. CASE call[c].pc = "sending"
        BY <3>2 DEF EpochInv, EpochsBounded, InFlight
      <3> QED
        BY <3>1, <3>2
    <2>2. ASSUME NEW d \in Call, InFlight(d)' PROVE Counts(call'[d].newEpoch - 1, Cardinality(Done))
      BY <1>1, <2>1, <2>2 DEF EpochInv, EpochsBounded, InFlight
    <2>3. Counts(currentEpoch, Cardinality(Done))
      BY DEF EpochInv, EpochsBounded
    <2> QED
      BY <1>2, <1>3, <2>2, <2>3 DEF EpochsBounded
  <1>5. LoneCallsCounted'
    <2> SUFFICES ASSUME ~overlapped' PROVE LoneCallsCounted'
      BY DEF LoneCallsCounted
    <2>1. ~overlapped /\ (call[c].pc = "idle" => Quiet)
      <3>1. CASE call[c].pc = "idle"
        <4>1. overlapped' = (overlapped \/ ~Quiet)
          BY <3>1
        <4> QED
          BY <4>1, Zenon
      <3>2. CASE call[c].pc = "sending"
        <4>1. overlapped' = overlapped
          BY <3>2
        <4> QED
          BY <3>2, <4>1
      <3> QED
        BY <3>1, <3>2
    <2>2. \A d \in Call : d # c => ~InFlight(d) /\ ~InFlight(d)'
      BY <1>1, <2>1 DEF EpochInv, LoneCallsCounted, InFlight, Quiet
    <2>3. currentEpoch = Counted
      BY <1>1, <2>1, <2>2 DEF EpochInv, LoneCallsCounted, InFlight
    <2>4. st.pc = "sending" => st.newEpoch = currentEpoch + 1
      BY <2>1 DEF EpochInv, LoneCallsCounted
    <2> QED
      BY <1>1, <1>3, <2>2, <2>3, <2>4 DEF LoneCallsCounted, InFlight
  <1> QED
    BY <1>4, <1>5 DEF EpochInv

\* Replacing the share counts once, for a call that had not counted yet.
LEMMA CombineCounts ==
    ASSUME RefreshInv, ShareSums, EpochInv, NEW c \in Call, call[c].pc \in {"idle", "sending"},
           currentShare # 0, NEW l, l.newEpoch \in Nat, Combine(c, l),
           call[c].pc = "idle" =>
               /\ l.newEpoch = currentEpoch + 1
               /\ overlapped' = (overlapped \/ ~Quiet),
           call[c].pc = "sending" => l.newEpoch = call[c].newEpoch /\ UNCHANGED overlapped
    PROVE  EpochInv'
  <1> DEFINE st == [pc |-> "verifying", newEpoch |-> l.newEpoch, coeffs |-> l.coeffs,
                    oldPaillier |-> currentPaillier]
  <1>1. currentShare \notin released
    BY DEF RefreshInv, SharesAccounted
  <1>2. /\ call' = [call EXCEPT ![c] = st] /\ applied' = applied \cup {c}
        /\ UNCHANGED <<currentEpoch, epochs>>
    BY <1>1 DEF Combine, Readable
  <1>3. st.pc = "verifying" /\ st.newEpoch = l.newEpoch
    OBVIOUS
  <1> HIDE DEF st
  <1>4. /\ call'[c] = st /\ \A d \in Call : d # c => call'[d] = call[d]
        /\ call[c].pc # "done" /\ call[c].pc # "verifying"
    BY <1>2 DEF RefreshInv, RefreshTypes
  <1>5. Done' = Done
    BY <1>3, <1>4 DEF Done
  <1>6. Counted' = Counted + 1 /\ Counted \in Nat
    <2>1. c \notin applied
      BY DEF ShareSums
    <2>2. Cardinality(applied') = Cardinality(applied) + 1
      BY <1>2, <2>1, EpochNumbers, FS_AddElement
    <2>3. LastGiven' = LastGiven
      BY <1>2 DEF LastGiven
    <2> QED
      BY <2>2, <2>3, EpochNumbers DEF Counted
  <1>7. \A n, k : Counts(n, k)' = Counts(n, k)
    BY <1>2 DEF GivenEpochs, Counts
  <1>8. EpochsBounded'
    <2>1. Counts(st.newEpoch - 1, Cardinality(Done))
      <3>1. CASE call[c].pc = "idle"
        <4>1. st.newEpoch - 1 = currentEpoch
          BY <1>3, <3>1, EpochNumbers
        <4> QED
          BY <4>1 DEF EpochInv, EpochsBounded
      <3>2. CASE call[c].pc = "sending"
        BY <1>3, <3>2 DEF EpochInv, EpochsBounded, InFlight
      <3> QED
        BY <3>1, <3>2
    <2>2. ASSUME NEW d \in Call, InFlight(d)' PROVE Counts(call'[d].newEpoch - 1, Cardinality(Done))
      BY <1>4, <2>1, <2>2 DEF EpochInv, EpochsBounded, InFlight
    <2>3. Counts(currentEpoch, Cardinality(Done))
      BY DEF EpochInv, EpochsBounded
    <2> QED
      BY <1>2, <1>5, <1>7, <2>2, <2>3 DEF EpochsBounded
  <1>9. LoneCallsCounted'
    <2> SUFFICES ASSUME ~overlapped' PROVE LoneCallsCounted'
      BY DEF LoneCallsCounted
    <2>1. ~overlapped /\ (call[c].pc = "idle" => Quiet)
      <3>1. CASE call[c].pc = "idle"
        <4>1. overlapped' = (overlapped \/ ~Quiet)
          BY <3>1
        <4> QED
          BY <4>1, Zenon
      <3>2. CASE call[c].pc = "sending"
        <4>1. overlapped' = overlapped
          BY <3>2
        <4> QED
          BY <3>2, <4>1
      <3> QED
        BY <3>1, <3>2
    <2>2. \A d \in Call : d # c => ~InFlight(d) /\ ~InFlight(d)'
      BY <1>4, <2>1 DEF EpochInv, LoneCallsCounted, InFlight, Quiet
    <2>3. currentEpoch = Counted
      BY <1>4, <2>1, <2>2 DEF EpochInv, LoneCallsCounted, InFlight
    <2>4. l.newEpoch = currentEpoch + 1
      BY <2>1 DEF EpochInv, LoneCallsCounted
    <2> QED
      BY <1>3, <1>4, <1>6, <2>2, <2>3, <2>4 DEF LoneCallsCounted, InFlight
  <1> QED
    BY <1>8, <1>9 DEF EpochInv

\* The call that finishes sets the epoch it took, and is one more that finished.
LEMMA FinishCounts ==
    ASSUME RefreshInv, EpochInv, NEW c \in Call, Finish(c)
    PROVE  EpochInv'
  <1>1. /\ call' = [call EXCEPT ![c].pc = "done"] /\ call[c].pc = "verifying"
        /\ currentEpoch' = call[c].newEpoch
        /\ UNCHANGED <<applied, epochs, overlapped>>
    BY DEF Finish, history
  <1>2. call[c] \in CallState
    BY DEF RefreshInv, RefreshTypes
  <1>3. /\ call'[c].pc = "done" /\ \A d \in Call : d # c => call'[d] = call[d]
    BY <1>1, <1>2 DEF RefreshInv, RefreshTypes, CallState
  <1>4. Done' = Done \cup {c} /\ c \notin Done
    BY <1>1, <1>3 DEF Done
  <1>5. Cardinality(Done') = Cardinality(Done) + 1
    BY <1>4, EpochNumbers, FS_AddElement
  <1>6. /\ GivenEpochs' = GivenEpochs /\ Counted' = Counted /\ GivenEpochs \subseteq Nat
        /\ Cardinality(Done) \in Nat /\ call[c].newEpoch \in Nat
    BY <1>1, EpochNumbers DEF GivenEpochs, Counted, LastGiven, InFlight
  <1>7. EpochsBounded'
    <2>1. Counts(call[c].newEpoch - 1, Cardinality(Done))
      BY <1>1 DEF EpochInv, EpochsBounded, InFlight
    <2>2. PICK e \in GivenEpochs : e <= call[c].newEpoch - 1
                                   /\ call[c].newEpoch - 1 <= e + Cardinality(Done)
      BY <2>1 DEF Counts
    <2>3. Counts(currentEpoch, Cardinality(Done))'
      <3>1. e \in Nat
        BY <1>6
      <3>2. e <= call[c].newEpoch /\ call[c].newEpoch <= e + (Cardinality(Done) + 1)
        BY <1>6, <2>2, <3>1
      <3> QED
        BY <1>1, <1>5, <1>6, <3>2 DEF Counts
    <2>4. ASSUME NEW d \in Call, InFlight(d)'
          PROVE  Counts(call[d].newEpoch - 1, Cardinality(Done))'
      <3>1. d # c /\ InFlight(d) /\ call'[d] = call[d]
        BY <1>3, <2>4 DEF InFlight
      <3>2. Counts(call[d].newEpoch - 1, Cardinality(Done)) /\ call[d].newEpoch - 1 \in Int
        BY <3>1, EpochNumbers DEF EpochInv, EpochsBounded
      <3>3. Counts(call[d].newEpoch - 1, Cardinality(Done) + 1)
        BY <1>6, <3>2, CountsGrow
      <3> QED
        BY <1>5, <1>6, <3>1, <3>3 DEF Counts
    <2> QED
      BY <2>3, <2>4 DEF EpochsBounded
  <1>8. LoneCallsCounted'
    BY <1>1, <1>3, <1>6 DEF EpochInv, LoneCallsCounted, InFlight
  <1> QED
    BY <1>7, <1>8 DEF EpochInv

\* Every step keeps count.
LEMMA EpochStep == RefreshInv /\ ShareSums /\ EpochInv /\ [RefreshNext]_refreshVars => EpochInv'
  <1> SUFFICES ASSUME RefreshInv, ShareSums, EpochInv, [RefreshNext]_refreshVars
               PROVE  EpochInv'
    OBVIOUS
  <1>1. ASSUME NEW share \in NonzeroScalar, NEW epoch \in Epochs, Initialize(share, epoch)
        PROVE  EpochInv'
    BY <1>1, InitializeCounts
  <1>2. ASSUME NEW c \in Call, NEW coeffs \in Coeffs, NEW peers \in SUBSET Peer,
               Begin(c, coeffs, peers)
        PROVE  EpochInv'
    <2> DEFINE l == [pc |-> "sending", newEpoch |-> currentEpoch + 1, coeffs |-> coeffs,
                     peers |-> peers, todo |-> peers]
    <2>1. /\ call[c].pc = "idle" /\ currentShare # 0
          /\ overlapped' = (overlapped \/ ~Quiet)
          /\ \/ Combine(c, l)
             \/ call' = [call EXCEPT ![c] = l] /\ UNCHANGED <<currentEpoch, applied, epochs>>
      BY <1>2 DEF Begin, engine
    <2>2. /\ l \in CallState /\ l.pc = "sending"
          /\ l.newEpoch = currentEpoch + 1 /\ l.newEpoch \in Nat
      BY EpochNumbers DEF CallState
    <2> HIDE DEF l
    <2> QED
      BY <2>1, <2>2, CombineCounts, SendingCounts
  <1>3. ASSUME NEW c \in Call, NEW p \in Peer, NEW sent \in BOOLEAN, SendOne(c, p, sent)
        PROVE  EpochInv'
    <2>1. /\ call[c].pc = "sending" /\ call[c] \in CallState
          /\ UNCHANGED <<currentEpoch, applied, epochs, overlapped>>
      BY <1>3 DEF SendOne, RefreshInv, RefreshTypes, engine, history
    <2>2. CASE call' = [call EXCEPT ![c] = [pc |-> "failed"]]
      <3>1. [pc |-> "failed"] \in CallState
        BY DEF CallState
      <3> QED
        BY <2>1, <2>2, <3>1, SendingCounts
    <2>3. CASE call' = [call EXCEPT ![c].todo = @ \ {p}]
      <3> DEFINE st == [call[c] EXCEPT !.todo = @ \ {p}]
      <3>1. st \in CallState /\ st.pc = "sending" /\ st.newEpoch = call[c].newEpoch
        BY <2>1 DEF CallState
      <3>2. call' = [call EXCEPT ![c] = st]
        BY <2>3 DEF RefreshInv, RefreshTypes
      <3> HIDE DEF st
      <3> QED
        BY <2>1, <3>1, <3>2, SendingCounts
    <2> QED
      BY <1>3, <2>2, <2>3 DEF SendOne
  <1>4. ASSUME NEW c \in Call, Collected(c) PROVE EpochInv'
    <2>1. /\ call[c].pc = "sending" /\ Combine(c, call[c]) /\ UNCHANGED overlapped
      BY <1>4 DEF Collected
    <2>2. currentShare # 0 /\ call[c].newEpoch \in Nat
      BY <2>1, EpochNumbers DEF RefreshInv, InitializedFirst, InFlight
    <2> QED
      BY <2>1, <2>2, CombineCounts
  <1>5. ASSUME NEW c \in Call, Finish(c) PROVE EpochInv'
    BY <1>5, FinishCounts
  <1>6. CASE UNCHANGED refreshVars
    BY <1>6 DEF refreshVars, engine, history, EpochInv, EpochsBounded, LoneCallsCounted,
                Counted, Counts, GivenEpochs, LastGiven, Done, InFlight
  <1> QED
    BY <1>1, <1>2, <1>3, <1>4, <1>5, <1>6 DEF RefreshNext, Coeffs

\* The count is right throughout.
LEMMA EpochInvariance == RefreshSpec => []EpochInv
  <1>1. RefreshInit => EpochInv
    <2> SUFFICES ASSUME RefreshInit PROVE EpochInv
      OBVIOUS
    <2>1. /\ \A c \in Call : call[c].pc = "idle"
          /\ epochs = <<>> /\ applied = {} /\ currentEpoch = 0
      BY DEF RefreshInit, NotCalled
    <2>2. Done = {} /\ Cardinality({}) = 0 /\ \A c \in Call : ~InFlight(c)
      BY <2>1, FS_EmptySet DEF Done, InFlight
    <2>3. 0 \in GivenEpochs /\ LastGiven = 0
      BY <2>1 DEF GivenEpochs, LastGiven
    <2> QED
      BY <2>1, <2>2, <2>3 DEF EpochInv, EpochsBounded, Counts, LoneCallsCounted, Counted
  <1> QED
    BY <1>1, EpochStep, RefreshInvariance, SumInvariance, PTL DEF RefreshSpec

-----------------------------------------------------------------------------
(* The theorems about KeyRefresh *)

\* Overlapping refreshes destroy every share and key they replace, and never
\* the share or key in use.
THEOREM OldOnesDestroyed == RefreshSpec => []OldKeysDestroyed
  <1>1. RefreshInv => OldKeysDestroyed
    <2> SUFFICES ASSUME RefreshInv PROVE OldKeysDestroyed
      OBVIOUS
    <2>1. Quiet => OldKeys = {}
      BY DEF Quiet, InFlight, OldKeys, Verifying
    <2> QED
      BY <2>1 DEF RefreshInv, SharesAccounted, KeysAccounted, OldKeysDestroyed,
                  DroppedShares, DroppedKeys
  <1> QED
    BY <1>1, RefreshInvariance, PTL

\* Overlapping or not, the epoch is one that was given plus at most one for each
\* finished call; and calls that come one at a time count up from the epoch last
\* given, each by one.
THEOREM EpochsAddUp == RefreshSpec => []EpochAccounted
  <1>1. EpochInv => EpochAccounted
    <2> SUFFICES ASSUME EpochInv PROVE EpochAccounted
      OBVIOUS
    <2>1. \E e \in GivenEpochs : e <= currentEpoch /\ currentEpoch <= e + Cardinality(Done)
      BY DEF EpochInv, EpochsBounded, Counts
    <2>2. ~overlapped /\ Quiet => currentEpoch = LastGiven + Cardinality(applied)
      BY DEF EpochInv, LoneCallsCounted, Counted, Quiet, InFlight
    <2> QED
      BY <2>1, <2>2, Zenon DEF EpochAccounted
  <1> QED
    BY <1>1, EpochInvariance, PTL

\* No refresh is lost: whatever the overlap, the share is the one given to
\* initialize plus the contribution of each call that replaced it since.
THEOREM RefreshesAddUp == RefreshSpec => []NoRefreshLost
  <1>1. ShareSums => NoRefreshLost
    BY DEF ShareSums
  <1> QED
    BY <1>1, SumInvariance, PTL

-----------------------------------------------------------------------------
(* The inductive invariant of MpcEngine *)

\* The records executeDKG appends.
SessionRecord ==
    [sessionId : Nat, threshold : Nat, totalParties : Nat, phase : {Ok},
     masterPublicKey : Scalar, parties : Seq(Nat \ {0})]

\* The shares stored for session s are the values of a polynomial, one coefficient per
\* party of the threshold, whose constant is the secret of the master public key.
SharesKept(s, stored) ==
    /\ s.sessionId \in DOMAIN stored
    /\ Len(s.parties) < CURVE_ORDER
    /\ s.threshold \in 1..Len(s.parties)
    /\ \E joint \in [1..s.threshold -> Scalar] :
          /\ s.masterPublicKey = joint[1]
          /\ stored[s.sessionId] = AllShares(s.parties, joint)

\* new has all the shares of old.
KeepsAll(old, new) == \A id \in DOMAIN old : id \in DOMAIN new /\ new[id] = old[id]

\* Every stored session id is below the next one, and every session has its shares.
EngineInv ==
    /\ nodeRegistry \in Seq(Nat \ {0})
    /\ nextId \in Nat
    /\ \A id \in DOMAIN nodeShares : id \in Nat /\ id < nextId
    /\ dkgSessions \in Seq(SessionRecord)
    /\ \A i \in DOMAIN dkgSessions : SharesKept(dkgSessions[i], nodeShares)

-----------------------------------------------------------------------------
\* The first positions of a sequence.
LEMMA FirstPositions ==
    ASSUME NEW S, NEW s \in Seq(S), NEW m \in Nat, m <= Len(s)
    PROVE  /\ SubSeq(s, 1, m) \in Seq(S) /\ Len(SubSeq(s, 1, m)) = m
           /\ \A i \in 1..m : SubSeq(s, 1, m)[i] = s[i]
  OBVIOUS

\* The registry is filled up with node numbers.
LEMMA RegistryFilled ==
    ASSUME NEW registry \in Seq(Nat \ {0}), NEW m \in Nat
    PROVE  /\ EnsureRegistered(registry, m) \in Seq(Nat \ {0})
           /\ m <= Len(EnsureRegistered(registry, m))
  <1> DEFINE n == IF Len(registry) < m THEN m ELSE Len(registry)
             e == EnsureRegistered(registry, m)
  <1>1. n \in Nat /\ m <= n
    OBVIOUS
  <1>2. e = [i \in 1..n |-> IF i <= Len(registry) THEN registry[i] ELSE i]
    BY DEF EnsureRegistered
  <1>3. \A i \in 1..n : (IF i <= Len(registry) THEN registry[i] ELSE i) \in Nat \ {0}
    OBVIOUS
  <1> HIDE DEF n, e
  <1>4. e \in [1..n -> Nat \ {0}]
    BY <1>2, <1>3
  <1>5. e \in Seq(Nat \ {0}) /\ Len(e) = n
    BY <1>1, <1>4
  <1> QED
    BY <1>1, <1>5 DEF e

\* A threshold and a number of parties executeDKG is called with.
LEMMA DKGArguments ==
    ASSUME NEW p \in DKGParams
    PROVE  /\ p[1] \in Nat /\ p[2] \in Nat /\ p[1] \in 1..p[2] /\ p[2] < CURVE_ORDER
  BY MpcAssumption, CurveOrderAssumption

\* The parties and the polynomial of a DKG.
LEMMA CeremonyFacts ==
    ASSUME EngineInv, NEW p \in DKGParams, ExecuteDKG(p[1], p[2]),
           NEW selected, selected = SubSeq(nodeRegistry', 1, p[2])
    PROVE  /\ nodeRegistry' \in Seq(Nat \ {0})
           /\ selected \in Seq(Nat \ {0}) /\ Len(selected) = p[2]
           /\ JointPolynomials(p[1], Cardinality(NodesOf(selected))) \subseteq [1..p[1] -> Scalar]
  <1>1. nodeRegistry' = EnsureRegistered(nodeRegistry, p[2])
    BY DEF ExecuteDKG
  <1>2. nodeRegistry' \in Seq(Nat \ {0}) /\ p[2] <= Len(nodeRegistry') /\ p[2] \in Nat
    BY <1>1, RegistryFilled, DKGArguments DEF EngineInv
  <1>3. selected \in Seq(Nat \ {0}) /\ Len(selected) = p[2]
    <2> DEFINE S == Nat \ {0}
    <2>1. nodeRegistry' \in Seq(S)
      BY <1>2
    <2> HIDE DEF S
    <2>2. selected \in Seq(S) /\ Len(selected) = p[2]
      BY <1>2, <2>1, FirstPositions
    <2> QED
      BY <2>2 DEF S
  <1>4. NonzeroScalar \subseteq Scalar
    BY CurveOrderAssumption DEF NonzeroScalar, Scalar
  <1> QED
    BY <1>2, <1>3, <1>4 DEF JointPolynomials

\* A session keeps its shares when the shares of earlier ids are kept.
LEMMA KeptStaysKept ==
    ASSUME NEW old, NEW new, NEW s, SharesKept(s, old),
           KeepsAll(old, new)
    PROVE  SharesKept(s, new)
  BY DEF SharesKept, KeepsAll

\* What executeDKG does to the stored shares and sessions.
LEMMA DKGEffect ==
    ASSUME EngineInv, NEW p \in DKGParams, ExecuteDKG(p[1], p[2])
    PROVE  /\ nodeRegistry' \in Seq(Nat \ {0}) /\ nextId' = nextId + 1
           /\ KeepsAll(nodeShares, nodeShares')
           /\ DOMAIN nodeShares' \subseteq DOMAIN nodeShares \cup {nextId}
           /\ \/ dkgSessions' = dkgSessions
              \/ \E s \in SessionRecord :
                    SharesKept(s, nodeShares') /\ dkgSessions' = Append(dkgSessions, s)
  <1> DEFINE selected == SubSeq(nodeRegistry', 1, p[2])
             t == p[1]
             n == p[2]
  <1>1. /\ nodeRegistry' \in Seq(Nat \ {0})
        /\ selected \in Seq(Nat \ {0}) /\ Len(selected) = n
        /\ JointPolynomials(t, Cardinality(NodesOf(selected))) \subseteq [1..t -> Scalar]
    <2>1. selected = SubSeq(nodeRegistry', 1, p[2])
      OBVIOUS
    <2> HIDE DEF selected
    <2> QED
      BY <2>1, CeremonyFacts
  <1>2. PICK joint \in JointPolynomials(t, Cardinality(NodesOf(selected))) :
           IF ShareThrows(selected, joint)
           THEN UNCHANGED <<nodeShares, dkgSessions>>
           ELSE /\ nodeShares' = Put(nodeShares, nextId, AllShares(selected, joint))
                /\ dkgSessions' = IF joint[1] = 0 THEN dkgSessions
                                  ELSE Append(dkgSessions, Session(nextId, t, n, selected, joint))
    BY Zenon DEF ExecuteDKG
  <1>3. t \in Nat /\ n \in Nat /\ t \in 1..n /\ n < CURVE_ORDER
    BY DKGArguments
  <1>4. nextId \in Nat /\ nextId' = nextId + 1 /\ nextId \notin DOMAIN nodeShares
    BY DEF EngineInv, ExecuteDKG
  <1>5. joint \in [1..t -> Scalar]
    BY <1>1, <1>2
  <1> HIDE DEF selected, t, n
  <1>6. CASE ShareThrows(selected, joint)
    BY <1>1, <1>2, <1>4, <1>6 DEF KeepsAll
  <1>7. CASE ~ShareThrows(selected, joint)
    <2> DEFINE f == AllShares(selected, joint)
               s == Session(nextId, t, n, selected, joint)
    <2>1. /\ nodeShares' = [x \in DOMAIN nodeShares \cup {nextId} |->
                              IF x = nextId THEN f ELSE nodeShares[x]]
          /\ dkgSessions' = IF joint[1] = 0 THEN dkgSessions ELSE Append(dkgSessions, s)
      BY <1>2, <1>7 DEF Put
    <2>2. /\ s \in SessionRecord /\ s.sessionId = nextId /\ s.threshold = t
          /\ s.masterPublicKey = joint[1] /\ s.parties = selected
      <3>1. joint[1] \in Scalar
        BY <1>3, <1>5
      <3> QED
        BY <1>1, <1>3, <1>4, <3>1 DEF Session, SessionRecord
    <2> HIDE DEF f, s
    <2>3. nodeShares'[s.sessionId] = f /\ s.sessionId \in DOMAIN nodeShares'
      BY <2>1, <2>2
    <2>4. SharesKept(s, nodeShares')
      <3>1. nodeShares'[s.sessionId] = AllShares(s.parties, joint)
        BY <2>2, <2>3 DEF f
      <3>2. Len(s.parties) < CURVE_ORDER /\ s.threshold \in 1..Len(s.parties)
        BY <1>1, <1>3, <2>2
      <3>3. joint \in [1..s.threshold -> Scalar] /\ s.masterPublicKey = joint[1]
        BY <1>5, <2>2
      <3> QED
        BY <2>3, <3>1, <3>2, <3>3, Zenon DEF SharesKept
    <2> QED
      BY <1>1, <1>4, <2>1, <2>2, <2>4 DEF KeepsAll
  <1> QED
    BY <1>6, <1>7

\* The records of a longer sequence.
LEMMA AppendedSessions ==
    ASSUME EngineInv, NEW s \in SessionRecord
    PROVE  /\ Append(dkgSessions, s) \in Seq(SessionRecord)
           /\ \A i \in DOMAIN dkgSessions : Append(dkgSessions, s)[i] = dkgSessions[i]
           /\ \A i \in DOMAIN Append(dkgSessions, s) :
                 \/ Append(dkgSessions, s)[i] = s
                 \/ i \in DOMAIN dkgSessions /\ Append(dkgSessions, s)[i] = dkgSessions[i]
  <1> DEFINE R == SessionRecord
  <1>1. dkgSessions \in Seq(R) /\ s \in R
    BY DEF EngineInv
  <1> HIDE DEF R
  <1>2. Append(dkgSessions, s) \in Seq(R)
    BY <1>1
  <1>3. \A i \in DOMAIN dkgSessions : Append(dkgSessions, s)[i] = dkgSessions[i]
    BY <1>1
  <1>4. \A i \in DOMAIN Append(dkgSessions, s) :
           \/ Append(dkgSessions, s)[i] = s
           \/ i \in DOMAIN dkgSessions /\ Append(dkgSessions, s)[i] = dkgSessions[i]
    BY <1>1
  <1> QED
    BY <1>2, <1>3, <1>4 DEF R

\* A step keeps the records and shares there are, and adds at most one session.
LEMMA EngineStep ==
    ASSUME EngineInv, [MpcNext]_mpcVars
    PROVE  /\ EngineInv'
           /\ \A i \in DOMAIN dkgSessions : dkgSessions'[i] = dkgSessions[i]
           /\ KeepsAll(nodeShares, nodeShares')
  <1> DEFINE Goal == /\ EngineInv'
                     /\ \A i \in DOMAIN dkgSessions : dkgSessions'[i] = dkgSessions[i]
                     /\ KeepsAll(nodeShares, nodeShares')
  <1>1. ASSUME nodeRegistry' \in Seq(Nat \ {0}), UNCHANGED <<nodeShares, dkgSessions>>,
               nextId' \in {nextId, nextId + 1}
        PROVE  Goal
    <2>1. nextId' \in Nat /\ nextId <= nextId' /\ nextId \in Nat
      BY <1>1 DEF EngineInv
    <2>2. \A i \in DOMAIN dkgSessions : SharesKept(dkgSessions[i], nodeShares')
      BY <1>1 DEF EngineInv
    <2> QED
      BY <1>1, <2>1, <2>2 DEF EngineInv, KeepsAll
  <1>2. ASSUME NEW nodes \in Registries, RegisterNodes(nodes) PROVE Goal
    <2>1. nodes \in Seq(Nat \ {0})
      BY MpcAssumption
    <2> QED
      BY <1>1, <1>2, <2>1 DEF RegisterNodes
  <1>3. ASSUME NEW p \in DKGParams, ExecuteDKG(p[1], p[2]) PROVE Goal
    <2>1. /\ nodeRegistry' \in Seq(Nat \ {0}) /\ nextId' = nextId + 1
          /\ DOMAIN nodeShares' \subseteq DOMAIN nodeShares \cup {nextId}
          /\ \/ dkgSessions' = dkgSessions
             \/ \E s \in SessionRecord :
                   SharesKept(s, nodeShares') /\ dkgSessions' = Append(dkgSessions, s)
      BY <1>3, DKGEffect
    <2>2. KeepsAll(nodeShares, nodeShares')
      BY <1>3, DKGEffect
    <2>3. nextId' \in Nat /\ \A id \in DOMAIN nodeShares' : id \in Nat /\ id < nextId'
      BY <2>1 DEF EngineInv
    <2>4. \A i \in DOMAIN dkgSessions : SharesKept(dkgSessions[i], nodeShares')
      BY <2>2, KeptStaysKept DEF EngineInv
    <2>5. CASE dkgSessions' = dkgSessions
      BY <2>1, <2>2, <2>3, <2>4, <2>5 DEF EngineInv
    <2>6. ASSUME NEW s \in SessionRecord, SharesKept(s, nodeShares'),
                 dkgSessions' = Append(dkgSessions, s)
          PROVE  Goal
      <3>1. /\ dkgSessions' \in Seq(SessionRecord)
            /\ \A i \in DOMAIN dkgSessions : dkgSessions'[i] = dkgSessions[i]
            /\ \A i \in DOMAIN dkgSessions' :
                  \/ dkgSessions'[i] = s
                  \/ i \in DOMAIN dkgSessions /\ dkgSessions'[i] = dkgSessions[i]
        BY <2>6, AppendedSessions
      <3>3. ASSUME NEW i \in DOMAIN dkgSessions' PROVE SharesKept(dkgSessions'[i], nodeShares')
        BY <2>4, <2>6, <3>1
      <3> QED
        BY <2>1, <2>2, <2>3, <3>1, <3>3 DEF EngineInv
    <2> QED
      BY <2>1, <2>5, <2>6
  <1>4. ASSUME NEW d \in NodesOf(nodeRegistry) \cup {0}, NEW z \in Scalar,
               ExecuteThresholdSigning(d, z)
        PROVE  Goal
    <2>1. UNCHANGED <<nodeRegistry, nodeShares, dkgSessions>>
      BY <1>4 DEF ExecuteThresholdSigning
    <2>2. nextId' \in {nextId, nextId + 1}
      BY <1>4, Zenon DEF ExecuteThresholdSigning
    <2> QED
      BY <1>1, <2>1, <2>2 DEF EngineInv
  <1>5. ASSUME NEW s \in Sessions, ExecuteKeyRefresh(s) PROVE Goal
    BY <1>1, <1>5 DEF ExecuteKeyRefresh, EngineInv
  <1>6. CASE UNCHANGED mpcVars
    BY <1>1, <1>6 DEF mpcVars, EngineInv
  <1> QED
    BY <1>2, <1>3, <1>4, <1>5, <1>6, Zenon DEF MpcNext

-----------------------------------------------------------------------------
(* MpcEngine: sessions are kept and shares reconstruct *)

\* The engine invariant holds in every reachable state.
LEMMA EngineInvariance == MpcSpec => []EngineInv
  <1>1. MpcInit => EngineInv
    BY DEF MpcInit, EngineInv
  <1>2. EngineInv /\ [MpcNext]_mpcVars => EngineInv'
    BY EngineStep
  <1> QED
    BY <1>1, <1>2, PTL DEF MpcSpec

\* Records and shares, once stored, are never changed: not by a DKG that throws half way,
\* nor by a registration, a ceremony or a refresh.
THEOREM SessionsNeverChange == MpcSpec => SessionsImmutable
  <1> DEFINE Kept == /\ \A i \in DOMAIN dkgSessions : dkgSessions'[i] = dkgSessions[i]
                     /\ \A id \in DOMAIN nodeShares :
                           id \in DOMAIN nodeShares' /\ nodeShares'[id] = nodeShares[id]
  <1>1. EngineInv /\ [MpcNext]_mpcVars => [Kept]_mpcVars
    BY EngineStep DEF KeepsAll
  <1>2. EngineInv /\ [MpcNext]_mpcVars => EngineInv'
    BY EngineStep
  <1>3. MpcInit => EngineInv
    BY DEF MpcInit, EngineInv
  <1>4. MpcSpec => [][Kept]_mpcVars
    BY <1>1, <1>2, <1>3, PTL DEF MpcSpec
  <1> QED
    BY <1>4 DEF SessionsImmutable

-----------------------------------------------------------------------------
\* A finite set is listed without repetition.
LEMMA SetListed ==
    ASSUME NEW S, IsFiniteSet(S)
    PROVE  /\ SeqOps!SetToSeq(S) \in [1..Cardinality(S) -> S]
           /\ \A i, j \in 1..Cardinality(S) :
                 SeqOps!SetToSeq(S)[i] = SeqOps!SetToSeq(S)[j] => i = j
  <1> DEFINE n == Cardinality(S)
             f == SeqOps!SetToSeq(S)
  <1>1. \E g \in [1..n -> S] : SeqOps!IsInjective(g)
    <2>1. PICK g \in Bijection(1..n, S) : TRUE
      BY FS_CardinalityType, Zenon DEF ExistsBijection
    <2>2. g \in [1..n -> S] /\ \A a, b \in 1..n : g[a] = g[b] => a = b
      BY <2>1, Zenon DEF Bijection, Injection, IsInjective
    <2>3. SeqOps!IsInjective(g)
      BY <2>2, Zenon DEF SeqOps!IsInjective
    <2> QED
      BY <2>2, <2>3
  <1>2. f = CHOOSE g \in [1..n -> S] : SeqOps!IsInjective(g)
    <2>1. SeqOps!Cardinality(S) = Cardinality(S)
      BY Zenon DEF SeqOps!Cardinality, Cardinality
    <2> QED
      BY <2>1, Zenon DEF SeqOps!SetToSeq
  <1>3. f \in [1..n -> S] /\ SeqOps!IsInjective(f)
    BY <1>1, <1>2, Zenon
  <1> HIDE DEF f
  <1>4. ASSUME NEW i \in 1..n, NEW j \in 1..n, f[i] = f[j] PROVE i = j
    BY <1>3, <1>4, Zenon DEF SeqOps!IsInjective
  <1> QED
    BY <1>3, <1>4 DEF f

\* A party that is registered once has the share of its position.
LEMMA ShareOfPosition ==
    ASSUME NEW parties, Distinct(parties), NEW joint, NEW i \in DOMAIN parties, i \in Int
    PROVE  AllShares(parties, joint)[parties[i]] = EvalPolynomial(joint, i)
  <1> DEFINE P == {j \in DOMAIN parties : parties[j] = parties[i]}
  <1>1. P = {i}
    BY DEF Distinct
  <1>2. SeqOps!Max({i}) = i
    BY DEF SeqOps!Max
  <1>3. parties[i] \in NodesOf(parties)
    BY DEF NodesOf
  <1>4. AllShares(parties, joint)[parties[i]] = EvalPolynomial(joint, SeqOps!Max(P))
    BY <1>3, Zenon DEF AllShares
  <1> QED
    BY <1>1, <1>2, <1>4

\* What the invariant says of a session with distinct parties.
LEMMA SessionFacts ==
    ASSUME EngineInv, NEW s \in Sessions, Distinct(s.parties)
    PROVE  /\ s.parties \in Seq(Nat \ {0})
           /\ Len(s.parties) \in Nat /\ Len(s.parties) < CURVE_ORDER
           /\ DOMAIN s.parties = 1..Len(s.parties)
           /\ s.threshold \in 1..Len(s.parties)
           /\ \E joint \in [1..s.threshold -> Scalar] :
                 /\ s.masterPublicKey = joint[1]
                 /\ \A i \in 1..Len(s.parties) :
                       nodeShares[s.sessionId][s.parties[i]] = EvalPolynomial(joint, i)
  <1>1. s \in SessionRecord /\ SharesKept(s, nodeShares)
    BY DEF EngineInv, Sessions
  <1>2. s.parties \in Seq(Nat \ {0})
    BY <1>1 DEF SessionRecord
  <1>3. Len(s.parties) \in Nat /\ DOMAIN s.parties = 1..Len(s.parties)
    BY <1>2
  <1>4. PICK joint \in [1..s.threshold -> Scalar] :
           /\ s.masterPublicKey = joint[1]
           /\ nodeShares[s.sessionId] = AllShares(s.parties, joint)
    BY <1>1, Zenon DEF SharesKept
  <1>5. \A i \in 1..Len(s.parties) :
           nodeShares[s.sessionId][s.parties[i]] = EvalPolynomial(joint, i)
    <2>1. ASSUME NEW i \in 1..Len(s.parties)
          PROVE  AllShares(s.parties, joint)[s.parties[i]] = EvalPolynomial(joint, i)
      <3> DEFINE p == s.parties
      <3>1. i \in DOMAIN p /\ i \in Int /\ Distinct(p)
        BY <1>3
      <3> HIDE DEF p
      <3>2. AllShares(p, joint)[p[i]] = EvalPolynomial(joint, i)
        BY <3>1, ShareOfPosition
      <3> QED
        BY <3>2 DEF p
    <2> QED
      BY <1>4, <2>1
  <1> QED
    BY <1>1, <1>2, <1>3, <1>4, <1>5, Zenon DEF SharesKept

\* The value of a polynomial of scalars is a number.
LEMMA ShareIsNumber ==
    ASSUME NEW m \in Nat, NEW joint \in [1..m -> Scalar], NEW i \in Int
    PROVE  EvalPolynomial(joint, i) \in Int
  <1>1. joint \in [1..m -> Int]
    <2>1. Scalar \subseteq Int
      BY CurveOrderAssumption DEF Scalar
    <2> QED
      BY <2>1
  <1>2. EvalPolynomial(joint, i) \in Scalar
    BY <1>1, EvalPolynomialValue
  <1> QED
    BY <1>2, CurveOrderAssumption DEF Scalar

\* Any threshold of the shares interpolates to the secret.
LEMMA EngineReconstructs == EngineInv => SharesReconstruct
  <1>1. SUFFICES ASSUME EngineInv, NEW s \in Sessions, Distinct(s.parties),
                        NEW subset \in SUBSET DOMAIN s.parties,
                        Cardinality(subset) = s.threshold,
                        NEW idx, idx = SeqOps!SetToSeq(subset)
                 PROVE  CombineSignatures(
                            [i \in DOMAIN idx |-> nodeShares[s.sessionId][s.parties[idx[i]]]], idx)
                          = s.masterPublicKey
    BY Zenon DEF SharesReconstruct
  <1> DEFINE p == Len(s.parties)
             t == s.threshold
             held == [i \in DOMAIN idx |-> nodeShares[s.sessionId][s.parties[idx[i]]]]
  <1>2. p \in Nat /\ p < CURVE_ORDER /\ t \in 1..p /\ DOMAIN s.parties = 1..p
    BY <1>1, SessionFacts
  <1>3. PICK joint \in [1..t -> Scalar] :
           /\ s.masterPublicKey = joint[1]
           /\ \A i \in 1..p : nodeShares[s.sessionId][s.parties[i]] = EvalPolynomial(joint, i)
    BY <1>1, SessionFacts
  <1>4. IsFiniteSet(subset)
    <2>1. IsFiniteSet(1..p)
      BY <1>2, FS_Interval
    <2> QED
      BY <1>2, <2>1, FS_Subset
  <1>5. idx \in [1..t -> 1..p] /\ \A i, j \in 1..t : idx[i] = idx[j] => i = j
    <2>1. /\ idx \in [1..t -> subset]
          /\ \A i, j \in 1..t : idx[i] = idx[j] => i = j
      BY <1>1, <1>4, SetListed
    <2>2. subset \subseteq 1..p
      BY <1>2
    <2> QED
      BY <2>1, <2>2
  <1>6. DistinctIndices(idx, t)
    <2>1. 1..p \subseteq NonzeroScalar
      BY <1>2, CurveOrderAssumption DEF NonzeroScalar
    <2> QED
      BY <1>5, <2>1 DEF DistinctIndices
  <1>7. SharesAt(held, joint, idx, t)
    <2>1. \A i \in 1..t : idx[i] \in 1..p /\ held[i] = EvalPolynomial(joint, idx[i])
      BY <1>3, <1>5
    <2>2. ASSUME NEW i \in 1..t PROVE held[i] \in Int
      <3>1. t \in Nat /\ idx[i] \in Int /\ held[i] = EvalPolynomial(joint, idx[i])
        BY <1>2, <2>1
      <3> HIDE DEF t, held
      <3> QED
        BY <3>1, ShareIsNumber
    <2>3. held \in [1..t -> Int]
      BY <1>5, <2>2
    <2> QED
      BY <2>1, <2>3 DEF SharesAt
  <1>8. t \in Nat /\ t \in 1..t
    BY <1>2
  <1> HIDE DEF p, t, held
  <1>9. CombineSignatures(held, idx) = joint[1]
    BY <1>6, <1>7, <1>8, SharesCombine
  <1> QED
    BY <1>3, <1>9 DEF held

\* SharesReconstruct in every reachable state, for every curve order, threshold and
\* number of parties.
THEOREM SharesAlwaysReconstruct == MpcSpec => []SharesReconstruct
  BY EngineInvariance, EngineReconstructs, PTL

-----------------------------------------------------------------------------
(* MpcEngine: a common nonce signs *)

\* One step of the selection of the signers.
KeepStep(kept, n, d) == IF n = d THEN kept ELSE Append(kept, n)

KeepFold(h, seq, d) ==
    h = [s \in SUBSET DOMAIN seq |->
            IF s = {} THEN << >>
            ELSE KeepStep(h[s \ {Largest(s)}], seq[Largest(s)], d)]

Kept(seq, d) == (CHOOSE h : KeepFold(h, seq, d))[DOMAIN seq]

\* The selection is that fold over the first threshold parties.
LEMMA SelectIsFold ==
    ASSUME NEW s, NEW d
    PROVE  SelectSigners(s, d) = Kept(SubSeq(s.parties, 1, s.threshold), d)
  BY Zenon DEF SelectSigners, SeqOps!FoldLeft, SeqOps!MapThenFoldSet, Largest, Kept,
               KeepFold, KeepStep

\* Without a dropped party the selection appends one party after the other.
LEMMA KeepUnfolds ==
    ASSUME NEW n \in Nat, NEW seq \in [1..n -> Nat \ {0}]
    PROVE  \E h : /\ Kept(seq, 0) = h[1..n]
                  /\ h[1..0] = << >>
                  /\ \A k \in 1..n : h[1..k] = Append(h[1..(k - 1)], seq[k])
  <1> DEFINE V == Seq(Nat \ {0})
             F == [p \in (1..n) \X V |-> KeepStep(p[2], seq[p[1]], 0)]
             base == << >>
  <1>1. F \in [(1..n) \X V -> V] /\ base \in V
    <2>1. ASSUME NEW p \in (1..n) \X V PROVE KeepStep(p[2], seq[p[1]], 0) \in V
      <3>1. p[1] \in 1..n /\ p[2] \in V /\ seq[p[1]] \in Nat \ {0}
        OBVIOUS
      <3> QED
        BY <3>1 DEF KeepStep
    <2> QED
      BY <2>1
  <1>2. \A j \in 1..n, a \in V : F[<<j, a>>] = KeepStep(a, seq[j], 0)
    OBVIOUS
  <1> HIDE DEF V, F, base
  <1>3. PICK g : Folds(g, n, V, base, F)
    BY <1>1, FoldFound
  <1>4. DOMAIN seq = 1..n
    OBVIOUS
  <1>5. KeepFold(g, seq, 0)
    <2>1. ASSUME NEW s \in SUBSET (1..n)
          PROVE  g[s] = IF s = {} THEN << >>
                        ELSE KeepStep(g[s \ {Largest(s)}], seq[Largest(s)], 0)
      <3>1. CASE s = {}
        BY <1>3, <3>1 DEF base, Folds
      <3>2. CASE s # {}
        <4> DEFINE j == Largest(s)
                   a == g[s \ {Largest(s)}]
        <4>1. j \in 1..n /\ a \in V /\ g[s] = F[<<j, a>>]
          BY <1>3, <3>2 DEF Folds
        <4> HIDE DEF j, a
        <4>2. g[s] = KeepStep(a, seq[j], 0)
          BY <1>2, <4>1
        <4> QED
          BY <3>2, <4>2 DEF j, a
      <3> QED
        BY <3>1, <3>2
    <2>2. g = [s \in SUBSET (1..n) |-> g[s]]
      BY <1>3 DEF Folds
    <2>3. g = [s \in SUBSET (1..n) |->
                 IF s = {} THEN << >>
                 ELSE KeepStep(g[s \ {Largest(s)}], seq[Largest(s)], 0)]
      BY <2>1, <2>2
    <2> QED
      BY <1>4, <2>3 DEF KeepFold
  <1> DEFINE h == CHOOSE h : KeepFold(h, seq, 0)
  <1>6. KeepFold(h, seq, 0)
    BY <1>5, Zenon
  <1>7. Kept(seq, 0) = h[1..n]
    BY <1>4 DEF Kept
  <1> HIDE DEF h
  <1>8. h[1..0] = << >>
    <2>1. 1..0 = {} /\ {} \in SUBSET (1..n)
      OBVIOUS
    <2> QED
      BY <1>4, <1>6, <2>1 DEF KeepFold
  <1>9. ASSUME NEW k \in 1..n
        PROVE  h[1..k] = Append(h[1..(k - 1)], seq[k])
    <2>1. /\ 1..k \in SUBSET (1..n) /\ 1..k # {}
          /\ Largest(1..k) = k /\ (1..k) \ {Largest(1..k)} = 1..(k - 1)
      BY FirstIndices
    <2>2. h[1..k] = KeepStep(h[(1..k) \ {Largest(1..k)}], seq[Largest(1..k)], 0)
      BY <1>4, <1>6, <2>1 DEF KeepFold
    <2>3. seq[k] # 0
      OBVIOUS
    <2> QED
      BY <2>1, <2>2, <2>3 DEF KeepStep
  <1> QED
    BY <1>7, <1>8, <1>9

\* kept are the first k elements of seq.
FirstOf(kept, seq, k) ==
    kept \in Seq(Nat \ {0}) /\ Len(kept) = k /\ \A i \in 1..k : kept[i] = seq[i]

\* So nobody is left out.
LEMMA KeptAll ==
    ASSUME NEW n \in Nat, NEW seq \in [1..n -> Nat \ {0}]
    PROVE  FirstOf(Kept(seq, 0), seq, n)
  <1>1. PICK h : /\ Kept(seq, 0) = h[1..n]
                 /\ h[1..0] = << >>
                 /\ \A k \in 1..n : h[1..k] = Append(h[1..(k - 1)], seq[k])
    BY KeepUnfolds
  <1> DEFINE S == {k \in Nat : k <= n => FirstOf(h[1..k], seq, k)}
  <1>2. 0 \in S
    <2> DEFINE V == Nat \ {0}
    <2>1. << >> \in Seq(V) /\ Len(<< >>) = 0 /\ 1..0 = {}
      OBVIOUS
    <2>2. FirstOf(<< >>, seq, 0)
      BY <2>1 DEF FirstOf
    <2> QED
      BY <1>1, <2>2
  <1>3. ASSUME NEW k \in Nat, k \in S, k + 1 <= n PROVE FirstOf(h[1..(k + 1)], seq, k + 1)
    <2> DEFINE V == Nat \ {0}
               kept == h[1..k]
               e == seq[k + 1]
    <2>1. k + 1 \in 1..n /\ (k + 1) - 1 = k
      BY <1>3
    <2>2. kept \in Seq(V) /\ Len(kept) = k /\ \A i \in 1..k : kept[i] = seq[i]
      BY <1>3 DEF FirstOf
    <2>3. e \in V /\ h[1..(k + 1)] = Append(kept, e)
      BY <1>1, <2>1
    <2> HIDE DEF V, kept
    <2>4. Append(kept, e) \in Seq(V) /\ Len(Append(kept, e)) = k + 1
      BY <2>2, <2>3
    <2>5. ASSUME NEW i \in 1..(k + 1) PROVE Append(kept, e)[i] = seq[i]
      BY <2>2, <2>3
    <2> QED
      BY <2>3, <2>4, <2>5 DEF FirstOf, V
  <1>4. \A k \in Nat : k \in S => k + 1 \in S
    BY <1>3
  <1> HIDE DEF S
  <1>5. n \in S
    BY <1>2, <1>4, NaturalsByInduction
  <1> QED
    BY <1>1, <1>5 DEF S

\* The signers of a session, when nobody is dropped, are its first threshold parties.
LEMMA FirstSigners ==
    ASSUME NEW s, s.parties \in Seq(Nat \ {0}), s.threshold \in 1..Len(s.parties)
    PROVE  /\ DOMAIN SelectSigners(s, 0) = 1..s.threshold
           /\ \A i \in 1..s.threshold : SelectSigners(s, 0)[i] = s.parties[i]
  <1> DEFINE V == Nat \ {0}
             p == s.parties
             t == s.threshold
             seq == SubSeq(p, 1, t)
  <1>1. p \in Seq(V) /\ t \in Nat /\ t <= Len(p)
    OBVIOUS
  <1> HIDE DEF V, p, t
  <1>2. seq \in Seq(V) /\ Len(seq) = t /\ \A i \in 1..t : seq[i] = p[i]
    BY <1>1, FirstPositions
  <1> HIDE DEF seq
  <1>3. seq \in [1..t -> V]
    BY <1>1, <1>2
  <1>4. FirstOf(Kept(seq, 0), seq, t)
    BY <1>1, <1>3, KeptAll DEF V
  <1>5. SelectSigners(s, 0) = Kept(seq, 0)
    BY SelectIsFold DEF seq, p, t
  <1>6. DOMAIN Kept(seq, 0) = 1..t /\ \A i \in 1..t : Kept(seq, 0)[i] = p[i]
    BY <1>2, <1>4 DEF FirstOf
  <1> QED
    BY <1>5, <1>6 DEF p, t

\* The map of distinct ids has them in their order.
LEMMA KeysOfDistinct ==
    ASSUME NEW ids, NEW t \in Nat, DOMAIN ids = 1..t, Distinct(ids)
    PROVE  DOMAIN MapKeys(ids) = 1..t /\ \A n \in 1..t : MapKeys(ids)[n] = ids[n]
  <1> DEFINE first == {i \in DOMAIN ids : \A j \in 1..(i - 1) : ids[j] # ids[i]}
             Rank(i) == Cardinality({j \in first : j <= i})
  <1>1. first = 1..t
    <2>1. ASSUME NEW i \in 1..t, NEW j \in 1..(i - 1) PROVE ids[j] # ids[i]
      BY DEF Distinct
    <2> QED
      BY <2>1
  <1>2. MapKeys(ids) = [n \in 1..Cardinality(first) |-> ids[CHOOSE i \in first : Rank(i) = n]]
    BY DEF MapKeys
  <1> HIDE DEF first
  <1>3. ASSUME NEW i \in Nat, i <= t PROVE Cardinality(1..i) = i
    <2>1. Cardinality(1..i) = IF 1 > i THEN 0 ELSE i - 1 + 1
      BY FS_Interval
    <2> QED
      BY <1>3, <2>1
  <1>4. ASSUME NEW i \in 1..t PROVE Rank(i) = i
    <2>1. {j \in first : j <= i} = 1..i
      BY <1>1
    <2>2. i \in Nat /\ i <= t
      OBVIOUS
    <2>3. Cardinality(1..i) = i
      BY <1>3, <2>2
    <2> QED
      BY <2>1, <2>3
  <1> HIDE DEF Rank
  <1>5. ASSUME NEW n \in 1..t PROVE (CHOOSE i \in first : Rank(i) = n) = n
    BY <1>1, <1>4
  <1>6. Cardinality(first) = t
    BY <1>1, <1>3
  <1> QED
    BY <1>2, <1>5, <1>6

\* What the signers of a session compute for a common nonce.
LEMMA SignersCombine ==
    ASSUME EngineInv, NEW s \in Sessions, Distinct(s.parties),
           NEW z \in Scalar, NEW k \in NonzeroScalar, NEW r \in Int
    PROVE  LET signers == SelectSigners(s, 0) IN
           /\ FinalSignature(s, signers, [n \in NodesOf(signers) |-> k], r, z)[2]
                = PartialSignature(k, r, z, s.masterPublicKey)
           /\ s.masterPublicKey \in Scalar
  <1> DEFINE signers == SelectSigners(s, 0)
             p == Len(s.parties)
             t == s.threshold
             ids == MapKeys(signers)
             nonces == [n \in NodesOf(signers) |-> k]
             sigs == PartialSigs(s, signers, nonces, r, z)
             indices == [i \in DOMAIN signers |-> i]
  <1>1. p \in Nat /\ p < CURVE_ORDER /\ t \in 1..p
    BY SessionFacts
  <1>2. PICK joint \in [1..t -> Scalar] :
           /\ s.masterPublicKey = joint[1]
           /\ \A i \in 1..p : nodeShares[s.sessionId][s.parties[i]] = EvalPolynomial(joint, i)
    BY SessionFacts
  <1>3. DOMAIN signers = 1..t /\ \A i \in 1..t : signers[i] = s.parties[i]
    BY SessionFacts, FirstSigners
  <1> HIDE DEF signers, p, t
  <1>10. DOMAIN ids = 1..t /\ \A i \in 1..t : ids[i] = signers[i]
    <2>1. t \in Nat
      BY <1>1
    <2>2. Distinct(signers)
      <3>1. DOMAIN s.parties = 1..p
        BY SessionFacts DEF p
      <3> QED
        BY <1>1, <1>3, <3>1 DEF Distinct
    <2> QED
      BY <1>3, <2>1, <2>2, KeysOfDistinct
  <1>4. DistinctIndices(indices, t)
    <2>1. 1..t \subseteq NonzeroScalar
      BY <1>1, CurveOrderAssumption DEF NonzeroScalar
    <2> QED
      BY <1>3, <2>1 DEF DistinctIndices
  <1>5. ASSUME NEW i \in 1..t
        PROVE  /\ sigs[i] = PartialSignature(k, r, z, EvalPolynomial(joint, indices[i]))
               /\ sigs[i] \in Int
    <2> DEFINE e == EvalPolynomial(joint, i)
    <2>1. i \in Int /\ i \in 1..p /\ t \in Nat
      BY <1>1
    <2>2. e \in Int
      BY <2>1, ShareIsNumber
    <2>3. sigs[i] = PartialSignature(k, r, z, e) /\ indices[i] = i
      <3>1. ids[i] = signers[i] /\ signers[i] \in NodesOf(signers)
        BY <1>3, <1>10 DEF NodesOf
      <3>2. sigs[i] = PartialSignature(nonces[ids[i]], r, z, nodeShares[s.sessionId][ids[i]])
        BY <1>10 DEF PartialSigs
      <3>3. nonces[ids[i]] = k
        BY <3>1
      <3> HIDE DEF ids, sigs, nonces
      <3> QED
        BY <1>2, <1>3, <2>1, <3>1, <3>2, <3>3
    <2> HIDE DEF e, sigs
    <2>4. z \in Int
      BY CurveOrderAssumption DEF Scalar
    <2>5. PartialSignature(k, r, z, e) \in Scalar
      <3> DEFINE w == ModInverseOrder(k)
      <3>1. w = ModInverseOrder(k)
        OBVIOUS
      <3> HIDE DEF w
      <3> QED
        BY <2>2, <2>4, <3>1, PartialSignatureValue
    <2> QED
      BY <2>3, <2>5, CurveOrderAssumption DEF Scalar, e
  <1>6. SignaturesAt(sigs, joint, indices, t, k, r, z)
    <2>1. sigs = [i \in 1..t |-> sigs[i]]
      BY <1>10 DEF PartialSigs
    <2> HIDE DEF sigs, indices
    <2>2. sigs \in [1..t -> Int]
      BY <1>5, <2>1
    <2> QED
      BY <1>5, <2>2 DEF SignaturesAt
  <1>7. t \in Nat /\ t \in 1..t /\ z \in Int /\ joint[1] \in Scalar
    BY <1>1, CurveOrderAssumption DEF Scalar
  <1> HIDE DEF sigs, indices
  <1>8. CombineSignatures(sigs, indices) = PartialSignature(k, r, z, joint[1])
    BY <1>4, <1>6, <1>7, PartialSignaturesCombine
  <1>9. FinalSignature(s, signers, nonces, r, z)[2] = CombineSignatures(sigs, indices)
    BY DEF FinalSignature, sigs, indices
  <1> QED
    BY <1>2, <1>7, <1>8, <1>9 DEF signers

\* The combination of phase 4 gives, for a common nonce, a signature that verifies.
LEMMA EngineSigns == EngineInv => CommonNonceSigns
  <1>1. SUFFICES ASSUME EngineInv, NEW s \in Sessions, Distinct(s.parties),
                        NEW z \in Scalar, NEW k \in NonzeroScalar,
                        NEW r, r = XCoordinate(k), NEW signers, signers = SelectSigners(s, 0),
                        NEW sig,
                        sig = FinalSignature(s, signers, [n \in NodesOf(signers) |-> k], r, z)
                 PROVE  /\ sig[2] = PartialSignature(k, r, z, s.masterPublicKey)
                        /\ sig[2] # 0 => ECDSAVerify(s.masterPublicKey, z, r, sig[2])
    BY Zenon DEF CommonNonceSigns
  <1>2. r \in Int
    <2>1. k * k \in Int
      BY DEF NonzeroScalar
    <2>2. (k * k) % CURVE_ORDER \in Scalar
      BY <2>1, Remainders
    <2> QED
      BY <1>1, <2>2, CurveOrderAssumption DEF XCoordinate, Scalar
  <1>3. /\ sig[2] = PartialSignature(k, r, z, s.masterPublicKey)
        /\ s.masterPublicKey \in Scalar
    BY <1>1, <1>2, SignersCombine
  <1> DEFINE x == s.masterPublicKey
  <1>4. PartialSignature(k, XCoordinate(k), z, x) # 0
          => ECDSAVerify(x, z, XCoordinate(k), PartialSignature(k, XCoordinate(k), z, x))
    <2>1. x \in Scalar
      BY <1>3
    <2> HIDE DEF x
    <2> QED
      BY <2>1, SignatureVerifies
  <1> QED
    BY <1>1, <1>3, <1>4

\* CommonNonceSigns in every reachable state, for every curve order, threshold and
\* number of parties.
THEOREM CommonNonceAlwaysSigns == MpcSpec => []CommonNonceSigns
  BY EngineInvariance, EngineSigns, PTL

-----------------------------------------------------------------------------
(* The loops of Paillier *)

\* What remains to be done in the loop of gcd, from s.
GcdNext(s) == <<s[2], s[1] % s[2]>>

\* The loop of gcd.
GcdLoop == CHOOSE f : f = [s \in Nat \X Nat |-> IF s[2] = 0 THEN s[1] ELSE f[GcdNext(s)]]

LEMMA GcdIsLoop ==
    ASSUME NEW x \in Nat, NEW y \in Nat
    PROVE  Gcd(x, y) = GcdLoop[<<x, y>>]
  <1>1. (IF x < 0 THEN -x ELSE x) = x /\ (IF y < 0 THEN -y ELSE y) = y
    OBVIOUS
  <1> QED
    BY <1>1, Zenon DEF Gcd, GcdLoop, GcdNext

\* The loop of gcd computes a number with exactly the common divisors of its arguments.
LEMMA GcdDivides ==
    ASSUME NEW x \in Nat, NEW y \in Nat
    PROVE  /\ Gcd(x, y) \in Nat
           /\ \A d \in Nat : Divides(d, Gcd(x, y)) <=> Divides(d, x) /\ Divides(d, y)
  <1> DEFINE X == Nat \X Nat
             V == Nat
             m == [s \in X |-> s[2]]
             base == [s \in X |-> s[1]]
             next == [s \in X |-> IF s[2] = 0 THEN s ELSE GcdNext(s)]
             Common(d) == Divides(d, x) /\ Divides(d, y)
             I == {s \in X : \A d \in Nat : Divides(d, s[1]) /\ Divides(d, s[2]) <=> Common(d)}
             R == {g \in Nat : \A d \in Nat : Divides(d, g) <=> Common(d)}
             L == GcdLoop
  <1>1. ASSUME NEW s \in X
        PROVE  s[1] \in Nat /\ s[2] \in Nat /\ next[s] \in X /\ m[s] = s[2] /\ base[s] = s[1]
               /\ (s[2] # 0 => m[next[s]] < m[s] /\ next[s] = GcdNext(s)
                               /\ next[s][1] = s[2] /\ next[s][2] = s[1] % s[2])
    BY DEF GcdNext
  <1>2. m \in [X -> Nat] /\ base \in [X -> V] /\ next \in [X -> X]
    BY <1>1
  <1>3. PICK f \in [X -> V] : IsLoop(f, X, m, base, next)
    <2> HIDE DEF X, V, m, base, next
    <2>1. \A s \in X : m[s] # 0 => m[next[s]] < m[s]
      BY <1>1
    <2> QED
      BY <1>2, <2>1, TailRecursion
  <1>4. f = [s \in X |-> IF s[2] = 0 THEN s[1] ELSE f[GcdNext(s)]]
    <2>1. \A s \in X : f[s] = IF s[2] = 0 THEN s[1] ELSE f[GcdNext(s)]
      <3> HIDE DEF X, m, base, next
      <3> QED
        BY <1>1, <1>3 DEF IsLoop
    <2> HIDE DEF X
    <2> QED
      BY <2>1
  <1>5. L = [s \in X |-> IF s[2] = 0 THEN s[1] ELSE L[GcdNext(s)]]
    BY <1>4, Zenon DEF GcdLoop
  <1> HIDE DEF L
  <1>6. \A s \in X : L[s] = IF s[2] = 0 THEN s[1] ELSE L[GcdNext(s)]
    <2> HIDE DEF X
    <2> QED
      BY <1>5
  <1>7. ASSUME NEW s \in I, m[s] # 0 PROVE next[s] \in I
    <2>1. s \in X /\ s[1] \in Nat /\ s[2] \in Nat /\ s[2] > 0 /\ next[s] \in X
          /\ next[s][1] = s[2] /\ next[s][2] = s[1] % s[2]
      <3>1. s \in X
        OBVIOUS
      <3> HIDE DEF X, I, m, next
      <3> QED
        BY <1>1, <1>7, <3>1
    <2>2. ASSUME NEW d \in Nat
          PROVE  Divides(d, next[s][1]) /\ Divides(d, next[s][2]) <=> Common(d)
      <3>1. Divides(d, s[2]) => (Divides(d, s[1] % s[2]) <=> Divides(d, s[1]))
        BY <2>1, DividesRemainder
      <3>2. Divides(d, s[1]) /\ Divides(d, s[2]) <=> Common(d)
        OBVIOUS
      <3> QED
        BY <2>1, <3>1, <3>2
    <2> HIDE DEF X, next, Common
    <2> QED
      BY <2>1, <2>2
  <1>8. ASSUME NEW s \in I, m[s] = 0 PROVE L[s] \in R
    <2>1. s \in X /\ s[1] \in Nat /\ s[2] = 0 /\ L[s] = s[1]
      BY <1>1, <1>6, <1>8
    <2>2. ASSUME NEW d \in Nat PROVE Divides(d, s[1]) <=> Common(d)
      <3>1. Divides(d, s[2])
        BY <2>1, DividesTrivially
      <3> QED
        BY <3>1
    <2> HIDE DEF X, Common
    <2> QED
      BY <2>1, <2>2
  <1>9. \A s \in I : L[s] \in R
    <2>1. \A s \in X : m[s] # 0 => m[next[s]] < m[s] /\ L[s] = L[next[s]]
      <3> HIDE DEF X, m, next
      <3> QED
        BY <1>1, <1>6
    <2>2. I \in SUBSET X
      OBVIOUS
    <2> HIDE DEF X, m, next, I, R
    <2> QED
      BY <1>2, <1>7, <1>8, <2>1, <2>2, LoopKeeps
  <1>10. <<x, y>> \in I
    <2> DEFINE s == <<x, y>>
    <2>1. s \in X /\ s[1] = x /\ s[2] = y
      OBVIOUS
    <2> HIDE DEF s, X
    <2>2. s \in I
      BY <2>1
    <2> QED
      BY <2>2 DEF s
  <1>11. L[<<x, y>>] \in R
    <2> HIDE DEF I, R
    <2> QED
      BY <1>9, <1>10
  <1> QED
    BY <1>11, GcdIsLoop DEF L

\* The residues modulo mod that p does not divide.
Coprime(p, mod) == {g \in 0..(mod - 1) : ~Divides(p, g)}

\* The product of two numbers a prime factor of mod divides neither of.
LEMMA CoprimeProduct ==
    ASSUME NEW p \in Nat, Prime(p), NEW mod \in Nat, mod > 0, Divides(p, mod),
           NEW a \in Nat, NEW b \in Nat, ~Divides(p, a), ~Divides(p, b)
    PROVE  (a * b) % mod \in Coprime(p, mod)
  <1> DEFINE n == a * b
  <1>1. n \in Nat
    OBVIOUS
  <1>2. ~Divides(p, n)
    BY PrimeDividesFactor
  <1> HIDE DEF n
  <1>3. n % mod \in 0..(mod - 1) /\ ~Divides(p, n % mod)
    BY <1>1, <1>2, DividesRemainder
  <1> QED
    BY <1>3 DEF n, Coprime

\* What remains to be done in the loop of modPow, from s = <<result, base, exp>>.
PowNext(s, mod) ==
    <<IF s[3] % 2 = 1 THEN (s[1] * s[2]) % mod ELSE s[1], (s[2] * s[2]) % mod, s[3] \div 2>>

\* The loop of modPow.
PowLoop(mod) ==
    CHOOSE f : f = [s \in Nat \X Nat \X Nat |-> IF s[3] = 0 THEN s[1] ELSE f[PowNext(s, mod)]]

\* The residue modPow starts from.
LEMMA PowBase ==
    ASSUME NEW p \in Nat, NEW mod \in Nat, mod > 0, Divides(p, mod), NEW a \in Nat, ~Divides(p, a)
    PROVE  JSRem(JSRem(a, mod) + mod, mod) \in Coprime(p, mod)
  <1> DEFINE r == a % mod
  <1>1. r \in Nat /\ ~Divides(p, r)
    BY DividesRemainder
  <1>2. JSRem(a, mod) = r
    BY DEF JSRem
  <1> HIDE DEF r
  <1> DEFINE t == r + mod
  <1>3. t \in Nat /\ JSRem(t, mod) = t % mod
    BY <1>1 DEF JSRem
  <1>4. ~Divides(p, t)
    <2>1. ASSUME Divides(p, t) PROVE Divides(p, t - mod)
      <3> HIDE DEF t
      <3> QED
        BY <1>3, <2>1, DividesSum
    <2>2. t - mod = r
      BY <1>1
    <2> QED
      BY <1>1, <2>1, <2>2
  <1> HIDE DEF t
  <1>5. t % mod \in 0..(mod - 1) /\ ~Divides(p, t % mod)
    BY <1>3, <1>4, DividesRemainder
  <1> QED
    BY <1>2, <1>3, <1>5 DEF t, Coprime

\* A step of the loop of modPow.
LEMMA PowStepType ==
    ASSUME NEW mod \in Nat, mod > 0, NEW s \in Nat \X Nat \X Nat, s[3] # 0
    PROVE  /\ PowNext(s, mod) \in Nat \X Nat \X Nat
           /\ PowNext(s, mod)[1] = IF s[3] % 2 = 1 THEN (s[1] * s[2]) % mod ELSE s[1]
           /\ PowNext(s, mod)[2] = (s[2] * s[2]) % mod
           /\ PowNext(s, mod)[3] = s[3] \div 2
           /\ s[3] \div 2 < s[3]
  <1>1. s[1] \in Nat /\ s[2] \in Nat /\ s[3] \in Nat
    OBVIOUS
  <1>2. \A a, b \in Nat : (a * b) % mod \in Nat
    <2>1. ASSUME NEW a \in Nat, NEW b \in Nat PROVE (a * b) % mod \in Nat
      <3> DEFINE n == a * b
      <3>1. n \in Nat
        OBVIOUS
      <3> HIDE DEF n
      <3>2. n % mod \in Nat
        BY <3>1
      <3> QED
        BY <3>2 DEF n
    <2> QED
      BY <2>1
  <1>3. s[3] \div 2 \in Nat /\ s[3] \div 2 < s[3]
    BY <1>1
  <1> QED
    BY <1>1, <1>2, <1>3 DEF PowNext

\* The loop of modPow is what its recursive definition says.
LEMMA PowLoopUnfolds ==
    ASSUME NEW mod \in Nat, mod > 0
    PROVE  \A s \in Nat \X Nat \X Nat :
              PowLoop(mod)[s] = IF s[3] = 0 THEN s[1] ELSE PowLoop(mod)[PowNext(s, mod)]
  <1> DEFINE X == Nat \X Nat \X Nat
             V == Nat
             m == [s \in X |-> s[3]]
             base == [s \in X |-> s[1]]
             next == [s \in X |-> IF s[3] = 0 THEN s ELSE PowNext(s, mod)]
             L == PowLoop(mod)
  <1>1. ASSUME NEW s \in X
        PROVE  s[1] \in Nat /\ s[3] \in Nat /\ next[s] \in X /\ m[s] = s[3] /\ base[s] = s[1]
               /\ (s[3] # 0 => m[next[s]] < m[s] /\ next[s] = PowNext(s, mod))
    <2>1. s[1] \in Nat /\ s[3] \in Nat
      OBVIOUS
    <2>2. s[3] # 0 => PowNext(s, mod) \in X /\ PowNext(s, mod)[3] < s[3]
      BY PowStepType
    <2> HIDE DEF X
    <2> QED
      BY <2>1, <2>2
  <1>2. m \in [X -> Nat] /\ base \in [X -> V] /\ next \in [X -> X]
    <2> HIDE DEF X
    <2> QED
      BY <1>1
  <1>3. PICK f \in [X -> V] : IsLoop(f, X, m, base, next)
    <2> HIDE DEF X, V, m, base, next
    <2>1. \A s \in X : m[s] # 0 => m[next[s]] < m[s]
      BY <1>1
    <2> QED
      BY <1>2, <2>1, TailRecursion
  <1>4. f = [s \in X |-> IF s[3] = 0 THEN s[1] ELSE f[PowNext(s, mod)]]
    <2>1. \A s \in X : f[s] = IF s[3] = 0 THEN s[1] ELSE f[PowNext(s, mod)]
      <3> HIDE DEF X, m, base, next
      <3> QED
        BY <1>1, <1>3 DEF IsLoop
    <2> HIDE DEF X
    <2> QED
      BY <2>1
  <1>5. L = [s \in X |-> IF s[3] = 0 THEN s[1] ELSE L[PowNext(s, mod)]]
    BY <1>4, Zenon DEF PowLoop
  <1> HIDE DEF L
  <1>6. \A s \in X : L[s] = IF s[3] = 0 THEN s[1] ELSE L[PowNext(s, mod)]
    <2> HIDE DEF X
    <2> QED
      BY <1>5
  <1> QED
    BY <1>6 DEF L

\* A power of a number that a prime factor of the modulus does not divide.
LEMMA ModPowCoprime ==
    ASSUME NEW p \in Nat, Prime(p), NEW mod \in Nat, mod > 1, Divides(p, mod),
           NEW a \in Nat, ~Divides(p, a), NEW exp \in Nat
    PROVE  ModPow(a, exp, mod) \in Coprime(p, mod)
  <1> DEFINE X == Nat \X Nat \X Nat
             m == [s \in X |-> s[3]]
             next == [s \in X |-> IF s[3] = 0 THEN s ELSE PowNext(s, mod)]
             R == Coprime(p, mod)
             I == {s \in X : s[1] \in R /\ ~Divides(p, s[2])}
             L == PowLoop(mod)
             b == JSRem(JSRem(a, mod) + mod, mod)
  <1>1. ModPow(a, exp, mod) = L[<<1, b, exp>>]
    <2>1. mod # 1 /\ ~(exp < 0)
      OBVIOUS
    <2> QED
      BY <2>1, Zenon DEF ModPow, PowLoop, PowNext
  <1>2. b \in R
    BY PowBase
  <1> HIDE DEF L, b
  <1>3. ASSUME NEW s \in X
        PROVE  /\ s[1] \in Nat /\ s[2] \in Nat /\ s[3] \in Nat /\ next[s] \in X /\ m[s] = s[3]
               /\ s[3] = 0 => L[s] = s[1]
               /\ s[3] # 0 => /\ m[next[s]] < m[s] /\ L[s] = L[next[s]]
                              /\ next[s][1] = (IF s[3] % 2 = 1 THEN (s[1] * s[2]) % mod ELSE s[1])
                              /\ next[s][2] = (s[2] * s[2]) % mod
    <2>1. s[1] \in Nat /\ s[2] \in Nat /\ s[3] \in Nat
      OBVIOUS
    <2>2. s[3] # 0 => /\ PowNext(s, mod) \in X /\ PowNext(s, mod)[3] < s[3]
                      /\ PowNext(s, mod)[1] = (IF s[3] % 2 = 1 THEN (s[1] * s[2]) % mod ELSE s[1])
                      /\ PowNext(s, mod)[2] = (s[2] * s[2]) % mod
      BY PowStepType
    <2>3. L[s] = IF s[3] = 0 THEN s[1] ELSE L[PowNext(s, mod)]
      BY PowLoopUnfolds DEF L
    <2> HIDE DEF X
    <2> QED
      BY <2>1, <2>2, <2>3
  <1>4. ASSUME NEW s \in I, m[s] # 0 PROVE next[s] \in I
    <2>1. s \in X /\ s[1] \in R /\ ~Divides(p, s[2])
      OBVIOUS
    <2>2. /\ s[1] \in Nat /\ s[2] \in Nat /\ next[s] \in X
          /\ next[s][1] = (IF s[3] % 2 = 1 THEN (s[1] * s[2]) % mod ELSE s[1])
          /\ next[s][2] = (s[2] * s[2]) % mod
      <3> HIDE DEF X, m, next, R, I
      <3> QED
        BY <1>3, <1>4, <2>1
    <2>3. ~Divides(p, s[1])
      BY <2>1 DEF Coprime
    <2>4. (s[1] * s[2]) % mod \in R /\ (s[2] * s[2]) % mod \in R
      <3> HIDE DEF X, m, next, I
      <3> QED
        BY <2>1, <2>2, <2>3, CoprimeProduct
    <2>5. next[s][1] \in R /\ next[s][2] \in R
      <3> HIDE DEF X, m, next, I, R
      <3> QED
        BY <2>1, <2>2, <2>4
    <2>6. ~Divides(p, next[s][2])
      <3> HIDE DEF X, m, next, I
      <3> QED
        BY <2>5 DEF Coprime
    <2> HIDE DEF X, next, R
    <2> QED
      BY <2>2, <2>5, <2>6
  <1>5. ASSUME NEW s \in I, m[s] = 0 PROVE L[s] \in R
    <2>1. s \in X /\ s[1] \in R
      OBVIOUS
    <2> HIDE DEF X, m, next, I, R
    <2> QED
      BY <1>3, <1>5, <2>1
  <1>6. \A s \in I : L[s] \in R
    <2>1. \A s \in X : m[s] # 0 => m[next[s]] < m[s] /\ L[s] = L[next[s]]
      <3> HIDE DEF X, m, next
      <3> QED
        BY <1>3
    <2>2. I \in SUBSET X
      OBVIOUS
    <2>3. m \in [X -> Nat] /\ next \in [X -> X]
      <3> HIDE DEF X
      <3> QED
        BY <1>3
    <2> HIDE DEF X, m, next, I, R
    <2> QED
      BY <1>4, <1>5, <2>1, <2>2, <2>3, LoopKeeps
  <1>7. ~Divides(p, 1)
    <2>1. ASSUME Divides(p, 1) PROVE FALSE
      <3>1. PICK i \in Int : 1 = i * p
        BY <2>1 DEF Divides
      <3>2. (i * p) % p = 0
        BY MultipleHasNoRemainder DEF Prime
      <3>3. 1 % p = 1
        BY DEF Prime
      <3> QED
        BY <3>1, <3>2, <3>3
    <2> QED
      BY <2>1
  <1>8. <<1, b, exp>> \in I
    <2>1. b \in Nat /\ ~Divides(p, b)
      BY <1>2 DEF Coprime
    <2>2. 1 \in R
      BY <1>7 DEF Coprime
    <2> HIDE DEF R
    <2> QED
      BY <2>1, <2>2
  <1> HIDE DEF I, R
  <1>9. L[<<1, b, exp>>] \in R
    BY <1>6, <1>8
  <1> QED
    BY <1>1, <1>9 DEF R

-----------------------------------------------------------------------------
(* Ciphertexts *)

\* Only one divides one.
LEMMA DivisorOfOne ==
    ASSUME NEW d \in Nat, Divides(d, 1)
    PROVE  d = 1
  <1>1. PICK i \in Int : 1 = i * d
    BY DEF Divides
  <1>2. ASSUME d = 0 PROVE FALSE
    <2>1. i * 0 = 0
      OBVIOUS
    <2> QED
      BY <1>1, <1>2, <2>1
  <1>3. ASSUME d > 1 PROVE FALSE
    <2>1. (i * d) % d = 0
      BY <1>3, MultipleHasNoRemainder
    <2>2. 1 % d = 1
      BY <1>3
    <2> QED
      BY <1>1, <2>1, <2>2
  <1> QED
    BY <1>2, <1>3

\* The modulus of a key pair.
LEMMA ModulusFacts ==
    /\ N \in Nat /\ N > 8 /\ NSquared \in Nat /\ NSquared > 1 /\ G \in Nat
    /\ CURVE_ORDER <= N
  <1>1. CURVE_ORDER \in Nat /\ CURVE_ORDER >= 3
    BY CurveOrderAssumption, MpcAssumption
  <1>2. CURVE_ORDER * CURVE_ORDER >= 3 * CURVE_ORDER /\ CURVE_ORDER * CURVE_ORDER \in Nat
    BY <1>1
  <1>3. N \in Nat /\ N > CURVE_ORDER * CURVE_ORDER
    <2>1. PrimeP \in Nat /\ PrimeQ \in Nat /\ PrimeP * PrimeQ > CURVE_ORDER * CURVE_ORDER
      BY PrimesAssumption
    <2> QED
      BY <2>1 DEF N
  <1>4. N > 8 /\ CURVE_ORDER <= N
    BY <1>1, <1>2, <1>3
  <1> DEFINE n == N
  <1>5. n \in Nat /\ n > 8
    BY <1>3, <1>4
  <1> HIDE DEF n
  <1>6. n * n >= 8 * n /\ n * n \in Nat
    BY <1>5
  <1>7. n * n > 1
    BY <1>5, <1>6
  <1> QED
    BY <1>3, <1>4, <1>6, <1>7 DEF n, NSquared, G

\* A prime factor of the modulus of a key pair.
Factor(p) == p \in Nat /\ Prime(p) /\ Divides(p, N) /\ Divides(p, NSquared)

\* The modulus has a prime factor.
LEMMA FactorExists == \E p : Factor(p)
  <1>1. PrimeP \in Nat /\ PrimeQ \in Nat /\ N = PrimeP * PrimeQ /\ N = PrimeQ * PrimeP
    BY PrimesAssumption DEF N
  <1>2. N \in Nat /\ N > 8
    BY ModulusFacts
  <1>3. Divides(PrimeP, N) /\ Divides(PrimeQ, N)
    BY <1>1 DEF Divides
  <1>4. \E p \in {PrimeP, PrimeQ} : Prime(p)
    <2>1. CASE PrimeP > 1
      BY <1>1, <2>1, PrimesAssumption DEF Prime
    <2>2. CASE PrimeP <= 1
      <3>1. PrimeQ > 1
        <4>1. 0 * PrimeQ = 0 /\ 1 * PrimeQ = PrimeQ /\ (PrimeP = 0 \/ PrimeP = 1)
          BY <1>1, <2>2
        <4> QED
          BY <1>1, <1>2, <4>1
      <3> QED
        BY <1>1, <3>1, PrimesAssumption DEF Prime
    <2> QED
      BY <1>1, <2>1, <2>2
  <1>5. ASSUME NEW p \in Nat, Divides(p, N) PROVE Divides(p, NSquared)
    BY <1>2, <1>5, DividesMultiple DEF NSquared
  <1> QED
    BY <1>1, <1>3, <1>4, <1>5 DEF Factor

\* The loop of encryptPaillier finds a randomizer.
LEMMA RandomizerExists == Randomizers # {}
  <1> DEFINE n == N
             g == Gcd(n - 1, n)
  <1>1. n \in Nat /\ n > 8 /\ n - 1 \in Nat
    BY ModulusFacts
  <1> HIDE DEF n
  <1>2. g \in Nat /\ Divides(g, n - 1) /\ Divides(g, n)
    <2>1. g \in Nat /\ (Divides(g, g) <=> Divides(g, n - 1) /\ Divides(g, n))
      BY <1>1, GcdDivides
    <2> HIDE DEF g
    <2> QED
      BY <2>1, DividesTrivially
  <1> HIDE DEF g
  <1>3. Divides(g, n - (n - 1)) /\ n - (n - 1) = 1
    BY <1>1, <1>2, DividesSum
  <1>4. g = 1
    BY <1>2, <1>3, DivisorOfOne
  <1>5. n - 1 \in Randomizers
    BY <1>1, <1>4 DEF Randomizers, n, g
  <1> QED
    BY <1>5

\* A prime factor of the modulus divides neither the generator nor a randomizer.
LEMMA UnitsCoprime ==
    ASSUME NEW p, Factor(p)
    PROVE  /\ ~Divides(p, G)
           /\ \A r \in Randomizers : r \in Nat /\ ~Divides(p, r)
  <1>1. p \in Nat /\ p # 1 /\ Divides(p, N) /\ N \in Nat
    BY ModulusFacts DEF Factor, Prime
  <1>2. ASSUME Divides(p, N + 1) PROVE FALSE
    <2>1. Divides(p, (N + 1) - N)
      BY <1>1, <1>2, DividesSum
    <2>2. (N + 1) - N = 1
      BY <1>1
    <2> QED
      BY <1>1, <2>1, <2>2, DivisorOfOne
  <1>3. ASSUME NEW r \in Randomizers PROVE r \in Nat /\ ~Divides(p, r)
    <2>1. r \in Nat /\ Gcd(r, N) = 1
      BY <1>1 DEF Randomizers
    <2>2. Divides(p, r) => Divides(p, 1)
      BY <1>1, <2>1, GcdDivides
    <2> QED
      BY <1>1, <2>1, <2>2, DivisorOfOne
  <1> QED
    BY <1>2, <1>3 DEF G

\* What encryptPaillier returns is in the range the audit asks for.
LEMMA CiphertextInRange ==
    ASSUME NEW alpha \in 0..(N - 1), NEW r \in Randomizers
    PROVE  EncryptPaillier(alpha, r) \in 1..(NSquared - 1)
  <1>1. PICK p : Factor(p)
    BY FactorExists
  <1>2. /\ p \in Nat /\ Prime(p) /\ Divides(p, NSquared) /\ N \in Nat
        /\ NSquared \in Nat /\ NSquared > 1 /\ G \in Nat
    BY <1>1, ModulusFacts DEF Factor
  <1>3. ~Divides(p, G) /\ r \in Nat /\ ~Divides(p, r)
    BY <1>1, UnitsCoprime
  <1> DEFINE x == ModPow(G, alpha, NSquared)
             y == ModPow(r, N, NSquared)
  <1>4. alpha \in Nat /\ ~(alpha < 0 \/ alpha >= N)
    BY <1>2
  <1>5. x \in Coprime(p, NSquared) /\ y \in Coprime(p, NSquared)
    BY <1>2, <1>3, <1>4, ModPowCoprime
  <1> HIDE DEF x, y
  <1>6. x \in Nat /\ y \in Nat /\ ~Divides(p, x) /\ ~Divides(p, y)
    BY <1>2, <1>5 DEF Coprime
  <1> DEFINE c == (x * y) % NSquared
  <1>7. c \in Coprime(p, NSquared)
    <2> DEFINE mod == NSquared
    <2>1. mod \in Nat /\ mod > 0 /\ Divides(p, mod)
      BY <1>2
    <2> HIDE DEF mod
    <2>2. (x * y) % mod \in Coprime(p, mod)
      BY <1>2, <1>6, <2>1, CoprimeProduct
    <2> QED
      BY <2>2 DEF mod
  <1>8. EncryptPaillier(alpha, r) = c
    BY <1>4 DEF EncryptPaillier, x, y
  <1> HIDE DEF c
  <1>9. c \in 0..(NSquared - 1) /\ c # 0
    BY <1>2, <1>7, DividesTrivially DEF Coprime
  <1> QED
    BY <1>2, <1>8, <1>9

-----------------------------------------------------------------------------
(* MpcEngine: the audit of aborts *)

\* How an honest proof was made.
LEMMA ProofMade ==
    ASSUME NEW extraData, NEW proof \in ProofsIn(extraData)
    PROVE  \E x \in {0, 1, -1, CURVE_ORDER * CURVE_ORDER * CURVE_ORDER + 1},
              alpha \in {1, CURVE_ORDER - 1}, e \in 0..(CURVE_ORDER - 1) :
              proof = GenerateMtARangeProof(x, extraData, alpha, CHOOSE r \in Randomizers : TRUE, e)
  BY DEF ProofsIn

\* The secret far outside the range is an integer.
LEMMA CubeIsInteger ==
    ASSUME NEW a \in Int
    PROVE  a * a * a + 1 \in Int
  OBVIOUS

\* The response of a proof is an integer before it is reduced.
LEMMA SumIsInteger ==
    ASSUME NEW a \in Int, NEW b \in Int, NEW c \in Int
    PROVE  a + b * c \in Int
  OBVIOUS

\* Honest proofs verify in the context they were made in, and in no other.
LEMMA ProofVerifies ==
    ASSUME NEW extraData, NEW proof \in ProofsIn(extraData)
    PROVE  VerifyMtARangeProof(proof, "") <=> extraData = ""
  <1> DEFINE r == CHOOSE r \in Randomizers : TRUE
             cube == CURVE_ORDER * CURVE_ORDER * CURVE_ORDER + 1
  <1>1. r \in Randomizers
    BY RandomizerExists
  <1>2. CURVE_ORDER \in Nat /\ CURVE_ORDER > 2 /\ cube \in Int
    <2>1. CURVE_ORDER \in Nat /\ CURVE_ORDER > 2
      BY CurveOrderAssumption, MpcAssumption
    <2> QED
      BY <2>1, CubeIsInteger
  <1>3. PICK x \in {0, 1, -1, cube}, alpha \in {1, CURVE_ORDER - 1}, e \in 0..(CURVE_ORDER - 1) :
            proof = GenerateMtARangeProof(x, extraData, alpha, r, e)
    BY ProofMade
  <1> HIDE DEF r, cube
  <1>4. x \in Int /\ e \in Int /\ alpha \in Int /\ alpha \in 0..(CURVE_ORDER - 1)
    <2>1. x \in Int
      BY <1>2
    <2>2. e \in Int
      BY <1>2
    <2>3. alpha \in Int /\ alpha \in 0..(CURVE_ORDER - 1)
      BY <1>2
    <2> QED
      BY <2>1, <2>2, <2>3
  <1> DEFINE c == EncryptPaillier(alpha, r)
             z == ModN(alpha + e * x)
  <1>5. c \in 1..(NSquared - 1)
    <2>1. alpha \in 0..(N - 1)
      BY <1>2, <1>4, ModulusFacts
    <2> QED
      BY <1>1, <2>1, CiphertextInRange
  <1>6. z \in 0..(CURVE_ORDER - 1)
    <2>1. alpha + e * x \in Int
      BY <1>4, SumIsInteger
    <2> QED
      BY <2>1, Remainders DEF Scalar
  <1> HIDE DEF c, z
  <1>7. proof = [commitment |-> c, z |-> z, challenge |-> <<N, G, c, extraData>>]
    BY <1>3, Zenon DEF GenerateMtARangeProof, GenerateChallenge, c, z
  <1>8. proof.commitment = c /\ proof.z = z /\ proof.challenge = <<N, G, c, extraData>>
    BY <1>7
  <1>9. VerifyMtARangeProof(proof, "") <=> <<N, G, c, extraData>> = <<N, G, c, "">>
    BY <1>5, <1>6, <1>8, Zenon DEF VerifyMtARangeProof, GenerateChallenge
  <1> QED
    BY <1>9

\* A proof that was tampered with does not verify: its challenge is the one of
\* another commitment.
LEMMA TamperedRejected ==
    ASSUME NEW extraData, NEW proof \in ProofsIn(extraData)
    PROVE  ~VerifyMtARangeProof(Tampered(proof), extraData)
  <1> DEFINE r == CHOOSE r \in Randomizers : TRUE
             cube == CURVE_ORDER * CURVE_ORDER * CURVE_ORDER + 1
  <1>1. r \in Randomizers
    BY RandomizerExists
  <1>2. PICK x \in {0, 1, -1, cube}, alpha \in {1, CURVE_ORDER - 1}, e \in 0..(CURVE_ORDER - 1) :
            proof = GenerateMtARangeProof(x, extraData, alpha, r, e)
    BY ProofMade
  <1> HIDE DEF r, cube
  <1> DEFINE c == EncryptPaillier(alpha, r)
             z == ModN(alpha + e * x)
  <1>3. c \in 1..(NSquared - 1) /\ NSquared \in Nat
    <2>1. CURVE_ORDER \in Nat /\ CURVE_ORDER > 2
      BY CurveOrderAssumption, MpcAssumption
    <2>2. alpha \in 0..(N - 1) /\ NSquared \in Nat
      BY <2>1, ModulusFacts
    <2> QED
      BY <1>1, <2>2, CiphertextInRange
  <1> HIDE DEF c, z
  <1>4. proof = [commitment |-> c, z |-> z, challenge |-> <<N, G, c, extraData>>]
    BY <1>2, Zenon DEF GenerateMtARangeProof, GenerateChallenge, c, z
  <1>5. /\ Tampered(proof).commitment = c + 1
        /\ Tampered(proof).challenge = <<N, G, c, extraData>>
    BY <1>4 DEF Tampered
  <1>6. <<N, G, c, extraData>> # <<N, G, c + 1, extraData>>
    <2>1. c # c + 1
      BY <1>3
    <2> QED
      BY <2>1
  <1> QED
    BY <1>5, <1>6, Zenon DEF VerifyMtARangeProof, GenerateChallenge

\* The verification of the audit, in the empty context.
Verifies(proof) == VerifyMtARangeProof(proof, "")

\* The evidence of the audit against node n.
Evidence(n, commitments, proofs, keyed) ==
    CASE n \notin commitments -> "MISSING_COMMITMENT"
      [] n \in commitments /\ n \notin DOMAIN proofs -> "MISSING_PROOF"
      [] n \in commitments /\ n \in keyed \cap DOMAIN proofs
           /\ ~Verifies(proofs[n]) -> "INVALID_PROOF"
      [] OTHER -> "none"

\* The positions of the nodes the audit has evidence against.
Faulty(nodes, commitments, proofs, keyed) ==
    {i \in DOMAIN nodes : Evidence(nodes[i], commitments, proofs, keyed) # "none"}

\* i is the least element of S.
Least(i, S) == i \in S /\ \A j \in S : i <= j

\* When every node has sent a proof, there is evidence against who sent no commitment, and
\* else against who has a key and a proof that does not verify.
LEMMA EvidenceAgainst ==
    ASSUME NEW nodes, NEW commitments, NEW keyed, NEW i \in DOMAIN nodes,
           NEW proofs, nodes[i] \in DOMAIN proofs
    PROVE  i \in Faulty(nodes, commitments, proofs, keyed) <=>
             \/ nodes[i] \notin commitments
             \/ (nodes[i] \in keyed /\ ~Verifies(proofs[nodes[i]]))
  <1> DEFINE n == nodes[i]
             valid == Verifies(proofs[n])
  <1>1. n \in DOMAIN proofs
    OBVIOUS
  <1>2. i \in Faulty(nodes, commitments, proofs, keyed)
          <=> Evidence(n, commitments, proofs, keyed) # "none"
    BY DEF Faulty
  <1>3. Evidence(n, commitments, proofs, keyed) =
          CASE n \notin commitments -> "MISSING_COMMITMENT"
            [] n \in commitments /\ n \notin DOMAIN proofs -> "MISSING_PROOF"
            [] n \in commitments /\ n \in keyed \cap DOMAIN proofs /\ ~valid -> "INVALID_PROOF"
            [] OTHER -> "none"
    BY <1>1 DEF Evidence
  <1> HIDE DEF n, valid
  <1>4. Evidence(n, commitments, proofs, keyed) # "none"
          <=> (n \notin commitments \/ (n \in keyed /\ ~valid))
    <2>1. CASE n \notin commitments
      <3>1. Evidence(n, commitments, proofs, keyed) = "MISSING_COMMITMENT"
        BY <1>3, <2>1, Zenon
      <3> QED
        BY <2>1, <3>1
    <2>2. CASE n \in commitments /\ n \in keyed /\ ~valid
      <3>1. Evidence(n, commitments, proofs, keyed) = "INVALID_PROOF"
        BY <1>1, <1>3, <2>2, Zenon
      <3> QED
        BY <2>2, <3>1
    <2>3. CASE n \in commitments /\ ~(n \in keyed /\ ~valid)
      <3>1. Evidence(n, commitments, proofs, keyed) = "none"
        BY <1>1, <1>3, <2>3, Zenon
      <3> QED
        BY <2>3, <3>1
    <2> QED
      BY <2>1, <2>2, <2>3
  <1> QED
    BY <1>2, <1>4, Zenon DEF n, valid

\* The report r blames the first node at a position in F.
Blames(r, nodes, F) ==
    IF r.aborted THEN \E i \in DOMAIN nodes : r.faultyNodeId = nodes[i] /\ Least(i, F)
    ELSE F = {}

\* The report blames the first node there is evidence against.
LEMMA AuditBlamesFirst ==
    ASSUME NEW S, NEW nodes \in Seq(S), NEW commitments, NEW proofs, NEW keyed
    PROVE  Blames(AuditIdentifiableAbort(nodes, commitments, proofs, keyed), nodes,
                  Faulty(nodes, commitments, proofs, keyed))
  <1> DEFINE F == Faulty(nodes, commitments, proofs, keyed)
             r == AuditIdentifiableAbort(nodes, commitments, proofs, keyed)
             i == CHOOSE i \in F : \A j \in F : i <= j
             blame == [aborted |-> TRUE, faultyNodeId |-> nodes[i],
                       evidence |-> Evidence(nodes[i], commitments, proofs, keyed)]
  <1>1. r = IF F = {} THEN [aborted |-> FALSE] ELSE blame
    BY Zenon DEF AuditIdentifiableAbort, Faulty, Evidence, Verifies
  <1>2. F \in SUBSET Nat /\ F \in SUBSET DOMAIN nodes
    BY DEF Faulty
  <1> HIDE DEF F, r
  <1>3. CASE F = {}
    <2>1. r = [aborted |-> FALSE]
      BY <1>1, <1>3
    <2> QED
      BY <1>3, <2>1 DEF Blames, F, r
  <1>4. CASE F # {}
    <2>1. \E k \in F : \A j \in F : k <= j
      BY <1>2, <1>4, LeastNatural
    <2>2. Least(i, F)
      BY <2>1 DEF Least
    <2> HIDE DEF i
    <2>3. r = blame
      BY <1>1, <1>4
    <2>4. r.aborted = TRUE /\ r.faultyNodeId = nodes[i]
      BY <2>3
    <2>5. i \in DOMAIN nodes
      BY <1>2, <2>2 DEF Least
    <2>6. Blames(r, nodes, F)
      BY <2>2, <2>4, <2>5 DEF Blames
    <2> QED
      BY <2>6 DEF F, r
  <1> QED
    BY <1>3, <1>4

\* The report r blames the first node that is in guilty.
Outcome(r, nodes, guilty) ==
    IF r.aborted
    THEN \E i \in DOMAIN nodes : /\ nodes[i] = r.faultyNodeId /\ r.faultyNodeId \in guilty
                                 /\ \A j \in 1..(i - 1) : nodes[j] \notin guilty
    ELSE NodesOf(nodes) \cap guilty = {}

\* guilty are, of the nodes, those in silent, and those with a key and a proof that does not
\* verify.
Guilty(guilty, nodes, silent, keyed, proofs) ==
    \A n \in NodesOf(nodes) :
        n \in guilty <=> n \in silent \/ (n \in keyed /\ ~Verifies(proofs[n]))

\* The report when every node sent a proof, and those in silent no commitment.
LEMMA AuditOf ==
    ASSUME NEW S, NEW nodes \in Seq(S), NEW silent, NEW keyed, NEW guilty,
           NEW proofs, DOMAIN proofs = NodesOf(nodes),
           Guilty(guilty, nodes, silent, keyed, proofs)
    PROVE  Outcome(AuditIdentifiableAbort(nodes, NodesOf(nodes) \ silent, proofs, keyed),
                   nodes, guilty)
  <1> DEFINE commitments == NodesOf(nodes) \ silent
             F == Faulty(nodes, commitments, proofs, keyed)
             r == AuditIdentifiableAbort(nodes, commitments, proofs, keyed)
  <1>1. ASSUME NEW i \in DOMAIN nodes PROVE i \in F <=> nodes[i] \in guilty
    <2>1. nodes[i] \in NodesOf(nodes)
      BY DEF NodesOf
    <2>2. i \in F <=> \/ nodes[i] \notin commitments
                      \/ (nodes[i] \in keyed /\ ~Verifies(proofs[nodes[i]]))
      <3> HIDE DEF commitments
      <3> QED
        BY <2>1, EvidenceAgainst
    <2>3. nodes[i] \notin commitments <=> nodes[i] \in silent
      BY <2>1
    <2> HIDE DEF F, commitments
    <2> QED
      BY <2>1, <2>2, <2>3, Zenon DEF Guilty
  <1>2. Blames(r, nodes, F)
    <2> HIDE DEF commitments
    <2> QED
      BY AuditBlamesFirst
  <1> HIDE DEF F, r
  <1>3. DOMAIN nodes = 1..Len(nodes) /\ Len(nodes) \in Nat
    OBVIOUS
  <1>4. CASE r.aborted
    <2>1. PICK i \in DOMAIN nodes : r.faultyNodeId = nodes[i] /\ Least(i, F)
      BY <1>2, <1>4 DEF Blames
    <2>2. ASSUME NEW j \in 1..(i - 1) PROVE nodes[j] \notin guilty
      <3>1. j \in DOMAIN nodes /\ ~(i <= j)
        BY <1>3
      <3> QED
        BY <1>1, <2>1, <3>1 DEF Least
    <2>3. nodes[i] \in guilty
      BY <1>1, <2>1 DEF Least
    <2>4. Outcome(r, nodes, guilty)
      BY <1>4, <2>1, <2>2, <2>3 DEF Outcome
    <2> QED
      BY <2>4 DEF r
  <1>5. CASE ~r.aborted
    <2>1. F = {}
      BY <1>2, <1>5 DEF Blames
    <2>2. ASSUME NEW n \in NodesOf(nodes), n \in guilty PROVE FALSE
      <3>1. PICK i \in DOMAIN nodes : n = nodes[i]
        BY DEF NodesOf
      <3> QED
        BY <1>1, <2>1, <2>2, <3>1
    <2>3. Outcome(r, nodes, guilty)
      BY <1>5, <2>2 DEF Outcome
    <2> QED
      BY <2>3 DEF r
  <1> QED
    BY <1>4, <1>5

\* The audit blames whom AuditBlamesFirstFaulty says, whatever nodes are registered and
\* whichever of them have a key.
LEMMA EngineBlames ==
    ASSUME NEW S, nodeRegistry \in Seq(S)
    PROVE  AuditBlamesFirstFaulty
  <1> DEFINE nodes == NodesOf(nodeRegistry)
             keyed == DOMAIN nodePaillierKeys
             Sent(p, forgers) == [n \in nodes |-> IF n \in forgers THEN Tampered(p) ELSE p]
             Report(p, silent, forgers) ==
                 AuditIdentifiableAbort(nodeRegistry, nodes \ silent, Sent(p, forgers), keyed)
  <1>1. ASSUME NEW p \in PlainProofs, NEW silent \in SUBSET nodes,
               NEW forgers \in SUBSET (keyed \cap (nodes \ silent))
        PROVE  IF Report(p, silent, forgers).aborted
               THEN FirstIn(Report(p, silent, forgers).faultyNodeId, nodeRegistry,
                            silent \cup forgers)
               ELSE silent \cup forgers = {}
    <2>1. Verifies(p)
      BY ProofVerifies, Zenon DEF PlainProofs, Verifies
    <2>2. ~Verifies(Tampered(p))
      BY TamperedRejected, Zenon DEF PlainProofs, Verifies
    <2> DEFINE proofs == Sent(p, forgers)
               guilty == silent \cup forgers
    <2>3. ASSUME NEW n \in nodes
          PROVE  n \in guilty <=> n \in silent \/ (n \in keyed /\ ~Verifies(proofs[n]))
      <3>1. proofs[n] = IF n \in forgers THEN Tampered(p) ELSE p
        OBVIOUS
      <3>2. n \in forgers => n \in keyed
        OBVIOUS
      <3> HIDE DEF proofs, nodes, keyed
      <3> QED
        BY <2>1, <2>2, <3>1, <3>2, Zenon DEF guilty
    <2>4. Guilty(guilty, nodeRegistry, silent, keyed, proofs)
      <3> HIDE DEF proofs, keyed, guilty
      <3> QED
        BY <2>3, Zenon DEF Guilty, nodes
    <2>5. DOMAIN proofs = nodes /\ nodes \cap guilty = guilty
      OBVIOUS
    <2> HIDE DEF proofs, keyed, guilty
    <2>6. Outcome(AuditIdentifiableAbort(nodeRegistry, nodes \ silent, proofs, keyed),
                  nodeRegistry, guilty)
      BY <2>4, <2>5, AuditOf DEF nodes
    <2> QED
      BY <2>5, <2>6, Zenon DEF Outcome, FirstIn, proofs, guilty, nodes
  <1> QED
    BY <1>1, Zenon DEF AuditBlamesFirstFaulty

\* EngineInv has the registry that AuditBlamesFirstFaulty needs.
LEMMA EngineAudits == EngineInv => AuditBlamesFirstFaulty
  BY EngineBlames DEF EngineInv

\* AuditBlamesFirstFaulty in every reachable state, for every curve order, every pair of
\* primes and every registry: of proofs in its own context auditIdentifiableAbort accepts
\* the untouched ones, and it blames the first node it has evidence against.
THEOREM AuditBlamesTheFaulty == MpcSpec => []AuditBlamesFirstFaulty
  BY EngineInvariance, EngineAudits, PTL

=============================================================================
