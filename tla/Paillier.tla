------------------------------ MODULE Paillier ------------------------------
(***************************************************************************)
(* Paillier encryption of crypto/paillier.ts and the multiplication-to-    *)
(* addition exchange of crypto/mta_zkp.ts built on it, over tiny primes.   *)
(* Random choices are parameters.  The hash in a range proof is the term   *)
(* of what is hashed, and its value modulo the order a parameter.          *)
(***************************************************************************)
EXTENDS ScalarField

CONSTANTS PrimeP, PrimeQ    \* what generateSecurePrime returned

Throws == "throws"    \* an exception

-----------------------------------------------------------------------------
(* Modular arithmetic *)

ModPow(base, exp, mod) ==
    LET Loop[s \in Nat \X Nat \X Nat] ==    \* <<result, base, exp>>
            IF s[3] = 0 THEN s[1]
            ELSE Loop[<<IF s[3] % 2 = 1 THEN (s[1] * s[2]) % mod ELSE s[1],
                        (s[2] * s[2]) % mod, s[3] \div 2>>]
    IN  IF mod = 1 THEN 0
        ELSE IF exp < 0 THEN Throws
        ELSE Loop[<<1, JSRem(JSRem(base, mod) + mod, mod), exp>>]

ExtendedGcd[a \in Nat, b \in Nat] ==
    IF b = 0 THEN <<a, 1, 0>>
    ELSE LET e == ExtendedGcd[b, a % b]
         IN  <<e[1], e[3], e[2] - (a \div b) * e[3]>>

ModInverse(a, m) ==
    LET e == ExtendedGcd[JSRem(JSRem(a, m) + m, m), m]
    IN  IF e[1] # 1 THEN Throws ELSE JSRem(JSRem(e[2], m) + m, m)

Gcd(x, y) ==
    LET Loop[s \in Nat \X Nat] == IF s[2] = 0 THEN s[1] ELSE Loop[<<s[2], s[1] % s[2]>>]
    IN  Loop[<<IF x < 0 THEN -x ELSE x, IF y < 0 THEN -y ELSE y>>]

Lcm(a, b) == (a * b) \div Gcd(a, b)

-----------------------------------------------------------------------------
(* Primes *)

\* n - 1 = 2^r d, as <<r, d>>.
Decompose(n) ==
    LET Loop[r \in Nat, d \in Nat] == IF d % 2 = 0 THEN Loop[r + 1, d \div 2] ELSE <<r, d>>
    IN  Loop[0, n - 1]

\* Mutant: the last squaring is left out.
Squarings_OneLess(r) == 1..(r - 2)

\* The squarings of a round after x = a^d.
Squarings(r) == 1..(r - 1)

\* One round of isProbablePrime with the base a: it does not find n composite.
RoundPasses(n, a) ==
    LET rd == Decompose(n)
        x == ModPow(a, rd[2], n)
        Square[j \in Nat] == IF j = 0 THEN x ELSE ModPow(Square[j - 1], 2, n)
    IN  \/ x = 1
        \/ x = n - 1
        \/ \E j \in Squarings(rd[1]) : Square[j] = n - 1

\* The bases randomBigIntRange(2, n - 2) can return; its upper end is excluded.
Bases(n) == 2..(n - 3)

\* isProbablePrime(n, k) for n > 3 when the rounds draw the bases in A.
IsProbablePrime(n, A) == n % 2 # 0 /\ \A a \in A : RoundPasses(n, a)

-----------------------------------------------------------------------------
(* Keys, encryption and decryption *)

\* The loop of generatePaillierKeys goes on until the primes fit together.
PrimesFit(p, q) == q # p /\ Gcd(p - 1, q - 1) = 2

ASSUME PrimesAssumption ==
    /\ {PrimeP, PrimeQ} \subseteq Nat
    /\ \A d \in 2..(PrimeP - 1) : PrimeP % d # 0
    /\ \A d \in 2..(PrimeQ - 1) : PrimeQ % d # 0
    /\ PrimesFit(PrimeP, PrimeQ)
    /\ PrimeP * PrimeQ > CURVE_ORDER * CURVE_ORDER

N == PrimeP * PrimeQ
NSquared == N * N
G == N + 1
Lambda == Lcm(PrimeP - 1, PrimeQ - 1)
Mu == ModInverse((ModPow(G, Lambda, NSquared) - 1) \div N, N)

\* The r that encryptPaillier can draw.
Randomizers == {r \in 2..(N - 1) : Gcd(r, N) = 1}

EncryptPaillier(plaintext, r) ==
    IF plaintext < 0 \/ plaintext >= N THEN Throws
    ELSE (ModPow(G, plaintext, NSquared) * ModPow(r, N, NSquared)) % NSquared

\* Mutant: the blinding is not removed.
DecryptPaillier_NoLambda(c) == (((c - 1) \div N) * Mu) % N

DecryptPaillier(c) ==
    IF c <= 0 \/ c >= NSquared THEN Throws
    ELSE (((ModPow(c, Lambda, NSquared) - 1) \div N) * Mu) % N

AddEncrypted(c1, c2) == (c1 * c2) % NSquared

MultiplyEncryptedByScalar(c, k) == ModPow(c, k, NSquared)

-----------------------------------------------------------------------------
(* The exchange: A has x, B has y, and they get alpha and beta *)

ExecuteMtARound1(x, r) == EncryptPaillier(x, r)

NegBeta(beta) == (N - (beta % N)) % N

ExecuteMtARound2(cx, y, beta, r) ==
    (ModPow(cx, y, NSquared) * EncryptPaillier(NegBeta(beta), r)) % NSquared

ExecuteMtADecrypt(cK) ==
    JSRem(JSRem(DecryptPaillier(cK), CURVE_ORDER) + CURVE_ORDER, CURVE_ORDER)

Alpha(x, y, beta, rA, rB) ==
    ExecuteMtADecrypt(ExecuteMtARound2(ExecuteMtARound1(x, rA), y, beta, rB))

\* A small and the largest randomizer, for the exchange: KeyPairWorks has all.
Samples == {CHOOSE r \in Randomizers : TRUE,
            CHOOSE r \in Randomizers : \A s \in Randomizers : s <= r}

-----------------------------------------------------------------------------
(* Range proofs and the audit of aborts *)

\* Mutant: the ciphertext is not hashed.
GenerateChallenge_NoCiphertext(ciphertext, extraData) == <<N, G, extraData>>

GenerateChallenge(ciphertext, extraData) == <<N, G, ciphertext, extraData>>

\* e is the value of the challenge; w and isValid are read by nobody.  Every
\* proof made here has a challenge, so the case without one is left out below.
GenerateMtARangeProof(secretShare, extraData, alpha, r, e) ==
    LET c == EncryptPaillier(alpha, r) IN
    [commitment |-> c, z |-> ModN(alpha + e * secretShare),
     challenge |-> GenerateChallenge(c, extraData)]

VerifyMtARangeProof(proof, extraData) ==
    /\ proof.z \in 0..(CURVE_ORDER - 1)
    /\ proof.commitment \in 1..(NSquared - 1)
    /\ proof.challenge = GenerateChallenge(proof.commitment, extraData)

\* The report on a sequence of nodes: those that sent a commitment, the proofs
\* of those that sent one, and the nodes whose Paillier key is at hand.  The
\* audit verifies in the empty context.
AuditIdentifiableAbort(nodes, commitments, proofs, keyed) ==
    LET Evidence(n) ==
            CASE n \notin commitments -> "MISSING_COMMITMENT"
              [] n \in commitments /\ n \notin DOMAIN proofs -> "MISSING_PROOF"
              [] n \in commitments /\ n \in keyed \cap DOMAIN proofs
                   /\ ~VerifyMtARangeProof(proofs[n], "") -> "INVALID_PROOF"
              [] OTHER -> "none"
        faulty == {i \in DOMAIN nodes : Evidence(nodes[i]) # "none"}
    IN  IF faulty = {} THEN [aborted |-> FALSE]
        ELSE LET i == CHOOSE i \in faulty : \A j \in faulty : i <= j
             IN  [aborted |-> TRUE, faultyNodeId |-> nodes[i], evidence |-> Evidence(nodes[i])]

\* Honest proofs, of secrets in the range and far outside it.
ProofsIn(extraData) ==
    {GenerateMtARangeProof(x, extraData, alpha, CHOOSE r \in Randomizers : TRUE, e) :
        x \in {0, 1, -1, CURVE_ORDER * CURVE_ORDER * CURVE_ORDER + 1},
        alpha \in {1, CURVE_ORDER - 1}, e \in 0..(CURVE_ORDER - 1)}

\* The proofs that executeMtARound1 makes, and those of the tests of the audit.
Round1Proofs == ProofsIn("round1")
PlainProofs == ProofsIn("")

\* A proof whose commitment was replaced after it was made.
Tampered(proof) == [proof EXCEPT !.commitment = @ + 1]

-----------------------------------------------------------------------------
(* What a key pair and an exchange are for *)

\* Decryption undoes encryption for every plaintext, and products and powers
\* of ciphertexts decrypt to sums and products modulo n, at the wrap-around
\* of n too.
KeyPairWorks ==
    \A m \in 0..(N - 1), r \in Randomizers : LET c == EncryptPaillier(m, r) IN
        /\ DecryptPaillier(c) = m
        /\ \A k \in {0, 1, N - m, N - 1} \ {N} :
             /\ DecryptPaillier(AddEncrypted(c, EncryptPaillier(k, r))) = (m + k) % N
             /\ DecryptPaillier(MultiplyEncryptedByScalar(c, k)) = (m * k) % N

\* The rounds never reject a prime, and no odd composite passes them for every
\* base they can draw.
FindsPrimes ==
    \A m \in {i \in 5..75 : i % 2 = 1} :
        IsProbablePrime(m, Bases(m)) <=> \A d \in 2..(m - 1) : m % d # 0

\* What the comment on executeMtADecrypt says of every exchange: alpha is
\* xy - beta modulo the curve order.
SharesOfProduct ==
    \A x, y, beta \in NonzeroScalar, rA, rB \in Samples :
        (Alpha(x, y, beta, rA, rB) + beta) % CURVE_ORDER = (x * y) % CURVE_ORDER

=============================================================================
