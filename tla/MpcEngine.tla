------------------------------ MODULE MpcEngine ------------------------------
(***************************************************************************)
(* MPCCMPEngine of protocol/mpc_cmp.ts: node registry, distributed key     *)
(* generation, threshold signing, and key refresh.                         *)
(*                                                                         *)
(* None of the functions awaits, so each call is one atomic action.  The   *)
(* node called node-i is the number i.  A session id is a number; the ids  *)
(* generateSessionId returns are distinct.                                 *)
(*                                                                         *)
(* The parties' polynomials matter only through their sum.  With one party *)
(* its coefficients are what randomScalar returns (nonzero); a sum of two  *)
(* or more nonzero scalars can be any scalar when CURVE_ORDER > 2.         *)
(***************************************************************************)
EXTENDS Paillier, FiniteSets

CONSTANTS
    Registries,   \* arguments of registerNodes: sequences of node numbers
    DKGParams,    \* arguments of executeDKG: pairs <<threshold, totalParties>>
    MaxSessions   \* bound on the session ids drawn

ASSUME MpcAssumption ==
    /\ CURVE_ORDER > 2
    /\ Registries \subseteq Seq(Nat \ {0})
    /\ \A p \in DKGParams : p[1] \in 1..p[2] /\ p[2] \in 1..(CURVE_ORDER - 1)
    /\ MaxSessions \in Nat

VARIABLES
    nodeRegistry,       \* sequence of node numbers
    nodePaillierKeys,   \* node -> the DKG call that made its key pair
    nodeShares,         \* session id -> node -> share
    dkgSessions,        \* sequence of session records, in insertion order
    signSessions,       \* sequence of finished ceremonies
    nextId,             \* the next id generateSessionId returns
    refreshed,          \* the newSessionId values executeKeyRefresh returned
    signed              \* calls of executeThresholdSigning so far: whether there
                        \* was a completed session, and the outcome

mpcVars == <<nodeRegistry, nodePaillierKeys, nodeShares, dkgSessions, signSessions,
             nextId, refreshed, signed>>

NoSession == "No active DKG session found"
Insufficient == "Insufficient signers"
Ok == "COMPLETED"

NodesOf(nodes) == {nodes[i] : i \in DOMAIN nodes}

MpcInit ==
    /\ nodeRegistry = << >>
    /\ nodePaillierKeys = << >>
    /\ nodeShares = << >>
    /\ dkgSessions = << >>
    /\ signSessions = << >>
    /\ nextId = 1
    /\ refreshed = {}
    /\ signed = {}

RegisterNodes(nodes) ==
    /\ nodeRegistry' = nodes
    /\ UNCHANGED <<nodePaillierKeys, nodeShares, dkgSessions, signSessions, nextId,
                   refreshed, signed>>

-----------------------------------------------------------------------------
(* Distributed key generation *)

\* Position i is filled with node-i, whatever ids are registered already.
EnsureRegistered(registry, totalParties) ==
    [i \in 1..(IF Len(registry) < totalParties THEN totalParties ELSE Len(registry)) |->
        IF i <= Len(registry) THEN registry[i] ELSE i]

\* Sums of the polynomials of the given number of parties.
JointPolynomials(threshold, parties) ==
    [1..threshold -> IF parties = 1 THEN NonzeroScalar ELSE Scalar]

\* Mutant: zero-based evaluation points.
AllShares_ZeroBased(selected, joint) ==
    [n \in NodesOf(selected) |->
        EvalPolynomial(joint, SeqOps!Max({i \in DOMAIN selected : selected[i] = n}) - 1)]

\* allShares is a Map keyed by node id: of the positions of a repeated id the
\* last one is kept.
AllShares(selected, joint) ==
    [n \in NodesOf(selected) |->
        EvalPolynomial(joint, SeqOps!Max({i \in DOMAIN selected : selected[i] = n}))]

\* Multiplying the base point by zero throws.
ShareThrows(selected, joint) ==
    \E i \in DOMAIN selected : EvalPolynomial(joint, i) = 0

\* The session record.  It has a field phase, and none called state.
Session(id, threshold, totalParties, selected, joint) ==
    [sessionId |-> id, threshold |-> threshold, totalParties |-> totalParties,
     phase |-> Ok, masterPublicKey |-> joint[1], parties |-> selected]

\* Mutant: the map holds the latest session only.
Put_Latest(f, k, v) == [x \in {k} |-> v]

Put(f, k, v) == [x \in DOMAIN f \cup {k} |-> IF x = k THEN v ELSE f[x]]

\* A new key pair for every node of the ceremony, keyed by node alone.
PaillierKeysAfter(nodes) ==
    [n \in DOMAIN nodePaillierKeys \cup nodes |->
        IF n \in nodes THEN nextId ELSE nodePaillierKeys[n]]

\* A zero share throws before anything but the registry and the Paillier keys
\* is written; a zero group key throws after the shares are stored.
ExecuteDKG(threshold, totalParties) ==
    /\ nextId <= MaxSessions
    /\ nextId' = nextId + 1
    /\ nodeRegistry' = EnsureRegistered(nodeRegistry, totalParties)
    /\ LET selected == SubSeq(nodeRegistry', 1, totalParties)
           nodes == NodesOf(selected)
       IN  /\ nodePaillierKeys' = PaillierKeysAfter(nodes)
           /\ \E joint \in JointPolynomials(threshold, Cardinality(nodes)) :
                 IF ShareThrows(selected, joint)
                 THEN UNCHANGED <<nodeShares, dkgSessions>>
                 ELSE /\ nodeShares' = Put(nodeShares, nextId, AllShares(selected, joint))
                      /\ dkgSessions' =
                            IF joint[1] = 0 THEN dkgSessions
                            ELSE Append(dkgSessions,
                                   Session(nextId, threshold, totalParties, selected, joint))
    /\ UNCHANGED <<signSessions, refreshed, signed>>

-----------------------------------------------------------------------------
(* Signing *)

\* The predicate both lookups pass to find: s.state === 'COMPLETED'.
IsActive(s) == "state" \in DOMAIN s /\ s.state = Ok

\* The first threshold parties, then without the dropped one.
SelectSigners(s, droppedPartyId) ==
    LET Keep(kept, n) == IF n = droppedPartyId THEN kept ELSE Append(kept, n)
    IN  SeqOps!FoldLeft(Keep, << >>, SubSeq(s.parties, 1, s.threshold))

Active == SelectSeq(dkgSessions, IsActive)

SignOutcome(droppedPartyId) ==
    CASE Active = << >> -> NoSession
      [] Active # << >> /\ Len(SelectSigners(Active[1], droppedPartyId))
                             < Active[1].threshold -> Insufficient
      [] OTHER -> Ok

\* The keys of a Map in insertion order when the given ids are put into it: each
\* id once, where it comes first.
MapKeys(ids) ==
    LET first == {i \in DOMAIN ids : \A j \in 1..(i - 1) : ids[j] # ids[i]}
        Rank(i) == Cardinality({j \in first : j <= i})
    IN  [n \in 1..Cardinality(first) |-> ids[CHOOSE i \in first : Rank(i) = n]]

\* Phase 2: the scalar of the sum of the nonce points.  Nonces are kept by
\* signer id, the last one of a repeated id.
CombinedNonce(signers, k) ==
    LET Plus(acc, n) == ModN(acc + k[n]) IN SeqOps!FoldLeft(Plus, 0, MapKeys(signers))

\* Phase 3: a signer uses its own nonce and share against the common r.
PartialSigs(s, signers, k, r, z) ==
    LET ids == MapKeys(signers)
    IN  [i \in DOMAIN ids |->
            PartialSignature(k[ids[i]], r, z, nodeShares[s.sessionId][ids[i]])]

\* Phase 4: the signers are given the indices 1, 2, ... in their order.
FinalSignature(s, signers, k, r, z) ==
    <<r, CombineSignatures(PartialSigs(s, signers, k, r, z),
                           [i \in DOMAIN signers |-> i])>>

\* The ceremony for the message hash z.  When the nonce points add up to the
\* point at infinity the library throws.
ExecuteThresholdSigning(droppedPartyId, z) ==
    /\ signed' = signed \cup {<<dkgSessions # << >>, SignOutcome(droppedPartyId)>>}
    /\ IF SignOutcome(droppedPartyId) # Ok
       THEN UNCHANGED <<signSessions, nextId>>
       ELSE LET s == Active[1]
                signers == SelectSigners(s, droppedPartyId)
            IN  /\ nextId <= MaxSessions
                /\ nextId' = nextId + 1
                /\ \E k \in [NodesOf(signers) -> NonzeroScalar] :
                      LET R == CombinedNonce(signers, k) IN
                      signSessions' =
                        IF R = 0 THEN signSessions
                        ELSE Append(signSessions,
                               [ceremonyId |-> nextId, signers |-> signers,
                                sig |-> FinalSignature(s, signers, k, XCoordinate(R), z)])
    /\ UNCHANGED <<nodeRegistry, nodePaillierKeys, nodeShares, dkgSessions, refreshed>>

-----------------------------------------------------------------------------
(* Refresh *)

\* A fresh id is returned and nothing is stored under it.
ExecuteKeyRefresh(s) ==
    /\ nextId <= MaxSessions
    /\ nextId' = nextId + 1
    /\ refreshed' = refreshed \cup {nextId}
    /\ UNCHANGED <<nodeRegistry, nodePaillierKeys, nodeShares, dkgSessions, signSessions, signed>>

Sessions == {dkgSessions[i] : i \in DOMAIN dkgSessions}

MpcNext ==
    \/ \E nodes \in Registries : RegisterNodes(nodes)
    \/ \E p \in DKGParams : ExecuteDKG(p[1], p[2])
    \/ \E d \in NodesOf(nodeRegistry) \cup {0}, z \in Scalar : ExecuteThresholdSigning(d, z)
    \/ \E s \in Sessions : ExecuteKeyRefresh(s)

MpcSpec == MpcInit /\ [][MpcNext]_mpcVars

-----------------------------------------------------------------------------
(* Properties *)

Distinct(s) == \A i, j \in DOMAIN s : s[i] = s[j] => i = j

\* Whatever was registered, regenerated or thrown before, any threshold of the
\* parties of a session with distinct party ids hold stored shares that
\* interpolate, at their positions, to the secret of its master public key.
SharesReconstruct ==
    \A s \in Sessions : Distinct(s.parties) =>
        \A subset \in SUBSET DOMAIN s.parties : Cardinality(subset) = s.threshold =>
            LET idx == SeqOps!SetToSeq(subset)
            IN  CombineSignatures(
                    [i \in DOMAIN idx |-> nodeShares[s.sessionId][s.parties[idx[i]]]], idx)
                  = s.masterPublicKey

\* No call, a DKG that throws half way included, changes the record or the
\* stored shares of an earlier session.
SessionsImmutable ==
    [][/\ \A i \in DOMAIN dkgSessions : dkgSessions'[i] = dkgSessions[i]
       /\ \A id \in DOMAIN nodeShares :
             id \in DOMAIN nodeShares' /\ nodeShares'[id] = nodeShares[id]]_mpcVars

\* The key pairs that DKG gives the nodes: isProbablePrime accepts exactly the
\* primes, and decryption and the homomorphic operations are right for every
\* plaintext and randomizer, at the wrap-around of n too.
KeyPairsSound == nodePaillierKeys # << >> => FindsPrimes /\ KeyPairWorks

\* Node n is in S, and no node before it in the sequence is.
FirstIn(n, nodes, S) ==
    \E i \in DOMAIN nodes : /\ nodes[i] = n /\ n \in S
                            /\ \A j \in 1..(i - 1) : nodes[j] \notin S

\* The audit of the registered nodes with proofs in the audit's own context, as
\* tests/crypto/mta_zkp.test.ts makes them: it blames the first node that sent no
\* commitment or, having a key of the DKG, a proof that was tampered with, and
\* nobody when there is none.
AuditBlamesFirstFaulty ==
    LET nodes == NodesOf(nodeRegistry)
        keyed == DOMAIN nodePaillierKeys
    IN  \A p \in PlainProofs, silent \in SUBSET nodes :
        \A forgers \in SUBSET (keyed \cap (nodes \ silent)) :
            LET proofs == [n \in nodes |-> IF n \in forgers THEN Tampered(p) ELSE p]
                r == AuditIdentifiableAbort(nodeRegistry, nodes \ silent, proofs, keyed)
            IN  IF r.aborted
                THEN FirstIn(r.faultyNodeId, nodeRegistry, silent \cup forgers)
                ELSE silent \cup forgers = {}

\* "Identifiable abort: Malicious nodes detected and excluded", and no abort
\* "when all nodes provide valid proofs": when every node sent a commitment and
\* the proof it makes in round 1 of the exchange, the audit blames nobody.
HonestProofsNotBlamed ==
    LET nodes == NodesOf(nodeRegistry) IN
    \A p \in Round1Proofs :
        ~AuditIdentifiableAbort(nodeRegistry, nodes, [n \in nodes |-> p],
                                DOMAIN nodePaillierKeys).aborted

\* "alpha = xy - beta (mod q)": two nodes with a key pair turn the product of
\* any two secrets into the sum of two shares.
MtAProductShared == Cardinality(DOMAIN nodePaillierKeys) >= 2 => SharesOfProduct

\* For a nonce common to all signers the combination of phase 4 is sound: for
\* every message the first threshold parties of a session with distinct ids
\* get, from their shares, the signature the undivided key would give, and
\* that signature verifies unless its s is zero.  (executeOnlineSign of the
\* pre-signature engine is the case of one signer.)
CommonNonceSigns ==
    \A s \in Sessions : Distinct(s.parties) =>
        \A z \in Scalar, k \in NonzeroScalar :
            LET r == XCoordinate(k)
                signers == SelectSigners(s, 0)
                sig == FinalSignature(s, signers, [n \in NodesOf(signers) |-> k], r, z)
            IN  /\ sig[2] = PartialSignature(k, r, z, s.masterPublicKey)
                /\ sig[2] # 0 => ECDSAVerify(s.masterPublicKey, z, r, sig[2])

\* "should execute threshold signing": with a completed DKG session a ceremony
\* can be run.
SigningFindsSession == <<TRUE, NoSession>> \notin signed

=============================================================================
