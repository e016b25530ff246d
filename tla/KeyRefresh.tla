------------------------------ MODULE KeyRefresh ------------------------------
(***************************************************************************)
(* KeyRefreshEngine of protocol/key_refresh_engine.ts: the share, Paillier *)
(* key and epoch of one node, under calls of executeRefresh that overlap   *)
(* at their awaits and calls of initialize between them.                   *)
(*                                                                         *)
(* SecureBigInt and key objects are numbered in the order of creation, so  *)
(* that two references to one object can be told apart from two objects    *)
(* with one value.  Proofs sent along with a sub-share are not modelled:   *)
(* nothing in the engine reads them.                                       *)
(***************************************************************************)
EXTENDS FiniteSets, Functions, ScalarField

CONSTANTS
    Call,         \* calls of executeRefresh
    Peer,         \* ids of the other nodes
    Index,        \* Index[p], the number in the id of peer p, or NoIndex
    SelfIndex,    \* the number in this node's own id, or NoIndex
    Threshold,    \* config.threshold
    Epochs,       \* epochs the callers of initialize pass
    MaxInit       \* bound on calls of initialize

NoIndex == -1    \* what getPeerIndex returns for an id without a number

ASSUME RefreshAssumption ==
    /\ IsFiniteSet(Peer)
    /\ Index \in [Peer -> Nat \cup {NoIndex}]
    /\ SelfIndex \in Nat \cup {NoIndex}
    /\ Threshold \in Nat \ {0}
    /\ Epochs \subseteq Nat
    /\ MaxInit \in Nat

VARIABLES
    currentShare,     \* number of the share object, 0 for null
    currentPaillier,  \* number of the Paillier key object, 0 for null
    currentEpoch,
    shares,           \* values of the share objects created so far
    released,         \* share objects that were released
    paillier,         \* number of Paillier key objects created so far
    zeroized,         \* Paillier keys whose private part was overwritten
    call,             \* call[c]: the local variables of a call
    initial,          \* history: value of the share last given to initialize
    applied,          \* history: calls that replaced the share since then
    dropped,          \* history: <<share, key>> replaced by initialize
    epochs,           \* history: the epochs given to initialize, in order
    overlapped        \* history: a call began, or initialize was called, while
                      \* a call was in flight

engine == <<currentShare, currentPaillier, currentEpoch>>
objects == <<shares, released, paillier, zeroized>>
history == <<initial, applied, dropped, epochs, overlapped>>
refreshVars == <<engine, objects, call, history>>

NotCalled == [pc |-> "idle"]

InFlight(c) == call[c].pc \in {"sending", "verifying"}
Quiet == \A c \in Call : ~InFlight(c)

RefreshInit ==
    /\ currentShare = 0
    /\ currentPaillier = 0
    /\ currentEpoch = 0
    /\ shares = <<>>
    /\ released = {}
    /\ paillier = 0
    /\ zeroized = {}
    /\ call = [c \in Call |-> NotCalled]
    /\ initial = 0
    /\ applied = {}
    /\ dropped = {}
    /\ epochs = <<>>
    /\ overlapped = FALSE

\* initialize(share, paillierKeys, epoch) with objects of the caller's.
Initialize(share, epoch) ==
    /\ Len(epochs) < MaxInit
    /\ shares' = Append(shares, share)
    /\ currentShare' = Len(shares')
    /\ paillier' = paillier + 1
    /\ currentPaillier' = paillier'
    /\ currentEpoch' = epoch
    /\ initial' = share
    /\ applied' = {}
    /\ dropped' = IF currentShare = 0 THEN dropped
                  ELSE dropped \cup {<<currentShare, currentPaillier>>}
    /\ epochs' = Append(epochs, epoch)
    /\ overlapped' = ~Quiet
    /\ UNCHANGED <<released, zeroized, call>>

\* Value at index of the polynomial a_1 x + ... + a_(t-1) x^(t-1).
SubShare(coeffs, index) == EvalPolynomial(<<0>> \o coeffs, index)

\* f_i(i), the node's own sub-share.
SelfSubShare(coeffs) ==
    IF SelfIndex = NoIndex THEN 0 ELSE SubShare(coeffs, SelfIndex)

\* receiveSubShare is a placeholder: 0, or null when this node has no index.
ReceivedSubShare(p) == 0

\* Mutant: every refresh starts from the share given to initialize.
NewShareValue_FromInitial(l) == (initial + SelfSubShare(l.coeffs)) % CURVE_ORDER

\* The new value of the share, from the share the engine has now.
NewShareValue(l) ==
    LET Add(value, acc) == (acc + value) % CURVE_ORDER
        received == IF SelfIndex = NoIndex THEN {} ELSE l.peers
        sum == FoldFunctionOnSet(Add, shares[currentShare],
                                 [p \in l.peers |-> ReceivedSubShare(p)], received)
    IN  (sum + SelfSubShare(l.coeffs)) % CURVE_ORDER

\* Mutant: the old key is looked up after the awaits.
OldPaillier_Late(l) == currentPaillier

\* The key that Finish overwrites: the one Combine replaced.
OldPaillier(l) == l.oldPaillier

\* SecureBigInt.value throws once the object is released.
Readable(share) == share \notin released

\* Phases 4 to 6 of call c, with local variables l: no await in between.
Combine(c, l) ==
    /\ UNCHANGED <<initial, dropped, epochs>>
    /\ IF ~Readable(currentShare)
       THEN /\ call' = [call EXCEPT ![c] = [pc |-> "failed"]]
            /\ UNCHANGED <<engine, objects, applied>>
       ELSE /\ shares' = Append(shares, NewShareValue(l))
            /\ currentShare' = Len(shares')
            /\ released' = released \cup {currentShare}
            /\ paillier' = paillier + 1
            /\ currentPaillier' = paillier'
            /\ call' = [call EXCEPT ![c] = [pc |-> "verifying", newEpoch |-> l.newEpoch,
                                            coeffs |-> l.coeffs,
                                            oldPaillier |-> currentPaillier]]
            /\ applied' = applied \cup {c}
            /\ UNCHANGED <<currentEpoch, zeroized>>

\* executeRefresh up to its first await.  Without connected peers there is
\* none before the share is replaced.
Begin(c, coeffs, peers) ==
    /\ call[c].pc = "idle"
    /\ currentShare # 0
    /\ overlapped' = (overlapped \/ ~Quiet)
    /\ LET l == [pc |-> "sending", newEpoch |-> currentEpoch + 1, coeffs |-> coeffs,
                 peers |-> peers, todo |-> peers]
       IN  IF peers = {} THEN Combine(c, l)
           ELSE /\ call' = [call EXCEPT ![c] = l]
                /\ UNCHANGED <<engine, objects, initial, applied, dropped, epochs>>

\* One iteration of the sending loop.  The proof for a sub-share of zero
\* cannot be made (multiply throws), and send throws when the peer is gone.
\* A peer without an index is skipped.
SendOne(c, p, sent) ==
    /\ call[c].pc = "sending"
    /\ p \in call[c].todo
    /\ Index[p] = NoIndex => sent
    /\ IF Index[p] # NoIndex /\ (SubShare(call[c].coeffs, Index[p]) = 0 \/ ~sent)
       THEN call' = [call EXCEPT ![c] = [pc |-> "failed"]]
       ELSE call' = [call EXCEPT ![c].todo = @ \ {p}]
    /\ UNCHANGED <<engine, objects, history>>

\* All sub-shares are sent and "received": the call goes on after its awaits.
Collected(c) ==
    /\ call[c].pc = "sending"
    /\ call[c].todo = {}
    /\ Combine(c, call[c])
    /\ UNCHANGED overlapped

\* Mutant: the new epoch is added to the current one.
Finish_AddsEpoch(c) ==
    /\ call[c].pc = "verifying"
    /\ currentEpoch' = currentEpoch + call[c].newEpoch
    /\ zeroized' = zeroized \cup {OldPaillier(call[c])}
    /\ call' = [call EXCEPT ![c].pc = "done"]
    /\ UNCHANGED <<currentShare, currentPaillier, shares, released, paillier, history>>

\* The rest of the call, after the await of the public key check.
Finish(c) ==
    /\ call[c].pc = "verifying"
    /\ currentEpoch' = call[c].newEpoch
    /\ zeroized' = zeroized \cup {OldPaillier(call[c])}
    /\ call' = [call EXCEPT ![c].pc = "done"]
    /\ UNCHANGED <<currentShare, currentPaillier, shares, released, paillier, history>>

RefreshNext ==
    \/ \E share \in NonzeroScalar, epoch \in Epochs : Initialize(share, epoch)
    \/ \E c \in Call :
         \/ \E coeffs \in [1..(Threshold - 1) -> NonzeroScalar], peers \in SUBSET Peer :
                Begin(c, coeffs, peers)
         \/ \E p \in Peer, sent \in BOOLEAN : SendOne(c, p, sent)
         \/ Collected(c)
         \/ Finish(c)

RefreshSpec == RefreshInit /\ [][RefreshNext]_refreshVars

-----------------------------------------------------------------------------
(* Properties *)

\* No refresh is lost, however the calls overlap: the share is the one given
\* to initialize plus the node's own contribution of each call that replaced
\* it since, in whatever order they did.
NoRefreshLost ==
    currentShare # 0 =>
        shares[currentShare] =
            (initial + SumFunction([c \in applied |-> SelfSubShare(call[c].coeffs)]))
                % CURVE_ORDER

\* Old shares and keys are destroyed and current ones never are: a call in
\* flight never holds a reference it later destroys to the share or key that
\* is current by then, and when no call is in flight only the current objects
\* and those that initialize replaced are left.
OldKeysDestroyed ==
    /\ currentShare \notin released
    /\ currentPaillier \notin zeroized
    /\ released = (1..Len(shares)) \ ({currentShare} \cup {d[1] : d \in dropped})
    /\ Quiet => zeroized = (1..paillier) \ ({currentPaillier} \cup {d[2] : d \in dropped})

Done == {c \in Call : call[c].pc = "done"}

GivenEpochs == {0} \cup {epochs[i] : i \in DOMAIN epochs}
LastGiven == IF epochs = <<>> THEN 0 ELSE epochs[Len(epochs)]

\* Overlapping calls take the same new epoch or set it back, and a call outlives
\* an initialize.  The epoch is still one that somebody gave, plus at most one for
\* each call that finished; and as long as calls come one at a time, it is the one
\* last given plus one for each call that replaced the share since, those that
\* failed half way not counting.
EpochAccounted ==
    /\ \E e \in GivenEpochs : e <= currentEpoch /\ currentEpoch <= e + Cardinality(Done)
    /\ ~overlapped /\ Quiet => currentEpoch = LastGiven + Cardinality(applied)

===============================================================================
