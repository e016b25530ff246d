----------------------------- MODULE ScalarField -----------------------------
(***************************************************************************)
(* Scalar arithmetic of crypto/secp256k1.ts and protocol/mpc_cmp.ts over a *)
(* small prime in place of the curve order: reduction, inversion, sharing  *)
(* polynomials, Lagrange interpolation and (partial) ECDSA signatures.     *)
(*                                                                         *)
(* A curve point k*G is represented by its scalar k: G has prime order, so *)
(* the map is injective and addition of points is addition of scalars.     *)
(***************************************************************************)
EXTENDS Integers, Sequences
SeqOps == INSTANCE SequencesExt

CONSTANT CURVE_ORDER    \* a prime

ASSUME CurveOrderAssumption ==
    /\ CURVE_ORDER \in Nat \ {0, 1}
    /\ \A d \in 2..(CURVE_ORDER - 1) : CURVE_ORDER % d # 0

Scalar == 0..(CURVE_ORDER - 1)
NonzeroScalar == 1..(CURVE_ORDER - 1)    \* what randomScalar returns

\* The % of JavaScript: the remainder has the sign of the dividend.
JSRem(x, n) == IF x >= 0 THEN x % n ELSE -((-x) % n)

ModN(x) ==
    LET r == JSRem(x, CURVE_ORDER) IN
    IF r < 0 THEN r + CURVE_ORDER ELSE r

\* The loop of modInverseOrder from s = <<t, newt, r, newr>>; its result is <<r, t>>.
Euclid[s \in Int \X Int \X Nat \X Nat] ==
    IF s[4] = 0 THEN <<s[3], s[1]>>
    ELSE LET q == s[3] \div s[4]
         IN  Euclid[<<s[2], s[1] - q * s[2], s[4], s[3] - q * s[4]>>]

NotInvertible == "Not invertible"    \* the exception

ModInverseOrder(k) ==
    LET n == CURVE_ORDER
        e == Euclid[<<0, 1, n, JSRem(JSRem(k, n) + n, n)>>]
    IN  IF e[1] > 1 THEN NotInvertible
        ELSE IF e[2] < 0 THEN e[2] + n ELSE e[2]

\* Value at x of the polynomial with the given coefficients, constant first.
EvalPolynomial(coefficients, x) ==
    LET Step(acc, a) == [value |-> (acc.value + a * acc.power) % CURVE_ORDER,
                         power |-> (acc.power * x) % CURVE_ORDER]
    IN  SeqOps!FoldLeft(Step, [value |-> 0, power |-> 1], coefficients).value

Positions(s) == [j \in 1..Len(s) |-> j]

\* Mutant: the differences have the other sign.
LagrangeCoefficient_Negated(indices, i) ==
    LET Num(acc, j) == IF j = i THEN acc ELSE ModN(acc * indices[j])
        Den(acc, j) == IF j = i THEN acc ELSE ModN(acc * (indices[i] - indices[j]))
    IN  ModN(SeqOps!FoldLeft(Num, 1, Positions(indices))
               * ModInverseOrder(SeqOps!FoldLeft(Den, 1, Positions(indices))))

LagrangeCoefficient(indices, i) ==
    LET Num(acc, j) == IF j = i THEN acc ELSE ModN(acc * indices[j])
        Den(acc, j) == IF j = i THEN acc ELSE ModN(acc * (indices[j] - indices[i]))
    IN  ModN(SeqOps!FoldLeft(Num, 1, Positions(indices))
               * ModInverseOrder(SeqOps!FoldLeft(Den, 1, Positions(indices))))

\* combineSignatures: interpolation at 0.
CombineSignatures(partialSigs, indices) ==
    LET Add(acc, i) == ModN(acc + partialSigs[i] * LagrangeCoefficient(indices, i))
    IN  SeqOps!FoldLeft(Add, 0, Positions(partialSigs))

\* generatePartialSignature, executeOnlineSign and phase 3 of
\* executeThresholdSigning: s = 1/k (z + r x).
PartialSignature(k, r, z, share) ==
    ModN(ModInverseOrder(k) * ModN(z + ModN(r * share)))

\* The x coordinate of k*G: even in k and one to one up to sign.  On this
\* small group squaring stands for it.
XCoordinate(k) == (k * k) % CURVE_ORDER

\* secp256k1.verify for the public key x*G and the hash z.
ECDSAVerify(x, z, r, s) ==
    /\ r # 0
    /\ s # 0
    /\ LET w == ModInverseOrder(s)
           R == ModN(ModN(z * w) + ModN(ModN(r * w) * x))
       IN  R # 0 /\ XCoordinate(R) = r

=============================================================================
