-------------------------- MODULE GovernanceProofs --------------------------
(***************************************************************************)
(* Proofs that, for every set of holders, roles, transactions and tiers,   *)
(* an approval completes only with its threshold of different holders,     *)
(* that governance implements ApprovalQuorum, and that a freeze is lifted  *)
(* only by three different holders.                                        *)
(***************************************************************************)
EXTENDS Governance, FiniteSetTheorems, TLAPS

-----------------------------------------------------------------------------
(* The inductive invariant *)

Tier == [min : Nat, max : Nat, thresholdCount : Nat, timeLock : BOOLEAN]

Approval == [tier : Tier, approvals : SUBSET Holder, malformed : SUBSET Holder,
             completed : Nat,
             status : {"PENDING", "TIME_LOCKED", "APPROVED"}, running : BOOLEAN]

GovernanceTypes ==
    /\ roleIdentities \in Seq([key : Holder, role : Role])
    /\ approvals \in Seq(Approval)
    /\ emergencyState \in [isActive : BOOLEAN, unfreezeApprovals : SUBSET Holder]

\* The tiers of a stored policy are those some createPolicy call was given.
PoliciesStored == \A id \in DOMAIN policies : policies[id].tiers \in TierLists

\* Every approval id leads to an approval object.
IdsKnown == \A id \in DOMAIN pendingApprovals : pendingApprovals[id] \in 1..Len(approvals)

\* Only finitely many holders have signed anything: counting them makes sense.
SignersFinite ==
    /\ \A i \in 1..Len(approvals) : IsFiniteSet(approvals[i].approvals)
    /\ IsFiniteSet(emergencyState.unfreezeApprovals)

\* The holders behind an approval that has completed are enough, and stay so.
ThresholdMet ==
    \A i \in 1..Len(approvals) :
        /\ approvals[i].completed > 0 =>
              Cardinality(approvals[i].approvals) >= approvals[i].tier.thresholdCount
        /\ approvals[i].status = "APPROVED" => approvals[i].completed > 0

GovernanceInv ==
    /\ GovernanceTypes
    /\ PoliciesStored
    /\ IdsKnown
    /\ SignersFinite
    /\ ThresholdMet

-----------------------------------------------------------------------------
(* Counting holders *)

\* The signers of a call are registered, so there are finitely many of them.
LEMMA SignersAreFinite ==
    ASSUME GovernanceTypes, NEW V \in Signers
    PROVE  V \subseteq Holder /\ IsFiniteSet(V)
  <1>1. V \subseteq Holder
    BY DEF Signers
  <1>2. \A k \in V : \E i \in 1..Len(roleIdentities) : roleIdentities[i].key = k
    BY DEF Signers, Holds, GovernanceTypes
  <1> DEFINE at == [k \in V |-> CHOOSE i \in 1..Len(roleIdentities) : roleIdentities[i].key = k]
  <1>3. \A k \in V : at[k] \in 1..Len(roleIdentities) /\ roleIdentities[at[k]].key = k
    BY <1>2
  <1>4. at \in Injection(V, 1..Len(roleIdentities))
    <2> HIDE DEF at
    <2>1. at \in [V -> 1..Len(roleIdentities)]
      <3>1. at = [k \in V |-> at[k]]
        BY DEF at
      <3> QED
        BY <1>3, <3>1
    <2> QED
      BY <1>3, <2>1 DEF Injection, IsInjective
  <1>5. IsFiniteSet(1..Len(roleIdentities))
    <2>1. Len(roleIdentities) \in Int
      BY DEF GovernanceTypes
    <2> QED
      BY <2>1, FS_Interval
  <1> QED
    BY <1>1, <1>4, <1>5, FS_Injection

\* A holder more makes no approval smaller.
LEMMA OneMoreHolder ==
    ASSUME NEW S, IsFiniteSet(S), NEW k
    PROVE  /\ IsFiniteSet(S \cup {k})
           /\ Cardinality(S) \in Nat
           /\ Cardinality(S \cup {k}) \in Nat
           /\ Cardinality(S \cup {k}) >= Cardinality(S)
  <1>1. /\ IsFiniteSet(S \cup {k})
        /\ k \in S => Cardinality(S \cup {k}) = Cardinality(S)
        /\ k \notin S => Cardinality(S \cup {k}) = Cardinality(S) + 1
    BY FS_AddElement
  <1>2. Cardinality(S) \in Nat
    BY FS_CardinalityType
  <1> QED
    BY <1>1, <1>2

\* The count of unfreezeEmergency is the number of holders listed afterwards.
LEMMA UnfreezeCountIsUnion ==
    ASSUME IsFiniteSet(emergencyState.unfreezeApprovals), NEW V, IsFiniteSet(V)
    PROVE  /\ UnfreezeCount(V) = Cardinality(emergencyState.unfreezeApprovals \cup V)
           /\ UnfreezeCount(V) \in Nat
           /\ IsFiniteSet(emergencyState.unfreezeApprovals \cup V)
  <1> DEFINE U == emergencyState.unfreezeApprovals
  <1>1. /\ IsFiniteSet(V \ U)
        /\ U \cup V = U \cup (V \ U)
        /\ U \cap (V \ U) = {}
    BY FS_Difference
  <1>2. /\ Cardinality(U) \in Nat
        /\ Cardinality(V \ U) \in Nat
        /\ Cardinality({}) = 0
    BY <1>1, FS_CardinalityType, FS_EmptySet
  <1>3. /\ IsFiniteSet(U \cup (V \ U))
        /\ Cardinality(U \cup (V \ U))
             = Cardinality(U) + Cardinality(V \ U) - Cardinality(U \cap (V \ U))
    BY <1>1, FS_Union
  <1>4. UnfreezeCount(V) = Cardinality(U) + Cardinality(V \ U)
    BY DEF UnfreezeCount
  <1> HIDE DEF U
  <1>5. Cardinality(U \cap (V \ U)) = 0
    BY <1>1, <1>2, Zenon
  <1>6. IsFiniteSet(U \cup V) /\ Cardinality(U \cup V) = Cardinality(U \cup (V \ U))
    BY <1>1, <1>3, Zenon
  <1>7. /\ UnfreezeCount(V) = Cardinality(U \cup V)
        /\ UnfreezeCount(V) \in Nat
    BY <1>2, <1>3, <1>4, <1>5, <1>6
  <1> QED
    BY <1>6, <1>7 DEF U

\* submitApproval completes exactly when the holders reach the threshold.
LEMMA RemainingIsZero ==
    ASSUME NEW o \in Approval, NEW S, Cardinality(S) \in Nat
    PROVE  Remaining(o, S) = 0 <=> Cardinality(S) >= o.tier.thresholdCount
  BY DEF Remaining, Approval, Tier

-----------------------------------------------------------------------------
(* The steps that change approvals *)

\* The object initiateApproval adds.
LEMMA InitiateAdds ==
    ASSUME GovernanceInv, NEW tx \in Tx, NEW id \in DOMAIN policies,
           InitiateApproval(tx, id)
    PROVE  \E o \in Approval :
               /\ o.approvals = {} /\ o.malformed = {} /\ o.completed = 0 /\ o.status # "APPROVED"
               /\ approvals' = Append(approvals, o)
  <1>1. policies[id].tiers \in Seq(Tier)
    BY GovernanceAssumption DEF GovernanceInv, PoliciesStored, Tier
  <1>2. PICK i \in FirstFit(policies[id].tiers, tx.amount) :
           approvals' = Append(approvals,
               [tier |-> policies[id].tiers[i], approvals |-> {}, malformed |-> {},
                completed |-> 0,
                status |-> IF policies[id].tiers[i].timeLock THEN "TIME_LOCKED" ELSE "PENDING",
                running |-> policies[id].tiers[i].timeLock])
    BY DEF InitiateApproval, CreateTimeLockedApproval
  <1>3. policies[id].tiers[i] \in Tier
    BY <1>1 DEF FirstFit, TierFits
  <1> DEFINE o == [tier |-> policies[id].tiers[i], approvals |-> {}, malformed |-> {},
                completed |-> 0,
                   status |-> IF policies[id].tiers[i].timeLock THEN "TIME_LOCKED" ELSE "PENDING",
                   running |-> policies[id].tiers[i].timeLock]
  <1>4. o \in Approval /\ o.approvals = {} /\ o.malformed = {} /\ o.completed = 0 /\ o.status # "APPROVED"
    BY <1>3 DEF Approval, Tier
  <1> QED
    BY <1>2, <1>4

\* What submitApproval does to the object it finds.
LEMMA SubmitReplaces ==
    ASSUME GovernanceInv, NEW id \in DOMAIN pendingApprovals, NEW k \in Holder,
           NEW parses \in BOOLEAN, SubmitApproval(id, k, parses),
           NEW i, i = pendingApprovals[id], NEW S, S = approvals[i].approvals \cup {k}
    PROVE  /\ i \in 1..Len(approvals)
           /\ IsFiniteSet(S)
           /\ approvals[i].status # "APPROVED"
           /\ \E M \in {approvals[i].malformed \cup {k}, approvals[i].malformed \ {k}} :
                 LET done == Cardinality(S) >= approvals[i].tier.thresholdCount /\ M = {} IN
                 approvals' = [approvals EXCEPT ![i] =
                    [tier |-> approvals[i].tier, approvals |-> S, malformed |-> M,
                     completed |-> IF done THEN approvals[i].completed + 1
                                   ELSE approvals[i].completed,
                     status |-> IF done THEN "APPROVED" ELSE approvals[i].status,
                     running |-> approvals[i].running]]
  <1>1. i \in 1..Len(approvals) /\ approvals[i] \in Approval
    BY DEF GovernanceInv, GovernanceTypes, IdsKnown
  <1>2. IsFiniteSet(S) /\ Cardinality(S) \in Nat
    BY <1>1, OneMoreHolder DEF GovernanceInv, SignersFinite
  <1>3. Remaining(approvals[i], S) = 0 <=> Cardinality(S) >= approvals[i].tier.thresholdCount
    BY <1>1, <1>2, RemainingIsZero
  <1> DEFINE M == IF parses THEN approvals[i].malformed \ {k}
                  ELSE approvals[i].malformed \cup {k}
  <1>4. M \in {approvals[i].malformed \cup {k}, approvals[i].malformed \ {k}}
    OBVIOUS
  <1>5. LET done == Cardinality(S) >= approvals[i].tier.thresholdCount /\ M = {} IN
        approvals' = [approvals EXCEPT ![i] =
            [tier |-> approvals[i].tier, approvals |-> S, malformed |-> M,
             completed |-> IF done THEN approvals[i].completed + 1
                           ELSE approvals[i].completed,
             status |-> IF done THEN "APPROVED" ELSE approvals[i].status,
             running |-> approvals[i].running]]
    BY <1>3 DEF SubmitApproval, Aggregates
  <1>6. approvals[i].status # "APPROVED"
    BY DEF SubmitApproval
  <1> HIDE DEF M
  <1> QED
    BY <1>1, <1>2, <1>4, <1>5, <1>6

\* The steps of the other operations leave every approval as it is, and add no
\* policy, id or signature that the invariant does not allow.
LEMMA OtherSteps ==
    ASSUME GovernanceInv, UNCHANGED <<approvals, pendingApprovals>>,
           PoliciesStored',
           roleIdentities' \in Seq([key : Holder, role : Role]),
           emergencyState' \in [isActive : BOOLEAN, unfreezeApprovals : SUBSET Holder],
           IsFiniteSet(emergencyState'.unfreezeApprovals)
    PROVE  GovernanceInv'
  BY DEF GovernanceInv, GovernanceTypes, IdsKnown, SignersFinite, ThresholdMet

-----------------------------------------------------------------------------
(* Every operation keeps the invariant *)

\* Replacing some items of a sequence leaves a sequence.
LEMMA ReplacedItems ==
    ASSUME NEW R, NEW s \in Seq(R), NEW at, NEW r \in R
    PROVE  [i \in DOMAIN s |-> IF i \in at THEN r ELSE s[i]] \in Seq(R)
  OBVIOUS

\* registerRole adds or replaces one identity.
LEMMA RegisterKeeps ==
    ASSUME GovernanceInv, NEW role \in Role, NEW k \in Holder, RegisterRoleIdentity(role, k)
    PROVE  GovernanceInv'
  <1>1. roleIdentities' \in Seq([key : Holder, role : Role])
    <2> DEFINE at == {i \in DOMAIN roleIdentities : roleIdentities[i].key = k}
               new == [key |-> k, role |-> role]
    <2>1. roleIdentities \in Seq([key : Holder, role : Role]) /\ new \in [key : Holder, role : Role]
      BY DEF GovernanceInv, GovernanceTypes
    <2>2. CASE at = {}
      <3>1. roleIdentities' = Append(roleIdentities, new)
        BY <2>2 DEF RegisterRoleIdentity
      <3> QED
        BY <2>1, <3>1
    <2>3. CASE at # {}
      <3>1. roleIdentities' = [i \in DOMAIN roleIdentities |->
                                 IF i \in at THEN new ELSE roleIdentities[i]]
        BY <2>3 DEF RegisterRoleIdentity
      <3> HIDE DEF at, new
      <3> QED
        BY <2>1, <3>1, ReplacedItems
    <2> QED
      BY <2>2, <2>3
  <1>2. UNCHANGED <<policies, approvals, pendingApprovals, emergencyState>>
    BY DEF RegisterRoleIdentity
  <1> QED
    BY <1>1, <1>2, OtherSteps
       DEF GovernanceInv, GovernanceTypes, PoliciesStored, SignersFinite

\* createPolicy stores tiers and touches no approval.
LEMMA CreatePolicyKeeps ==
    ASSUME GovernanceInv, NEW V \in Signers, NEW tiers \in TierLists, CreatePolicy(V, tiers)
    PROVE  GovernanceInv'
  <1>1. PoliciesStored'
    BY DEF CreatePolicy, Store, GovernanceInv, PoliciesStored
  <1>2. UNCHANGED <<roleIdentities, approvals, pendingApprovals, emergencyState>>
    BY DEF CreatePolicy
  <1> QED
    BY <1>1, <1>2, OtherSteps DEF GovernanceInv, GovernanceTypes, SignersFinite

\* A new approval has no signers and has not completed.
LEMMA InitiateKeeps ==
    ASSUME GovernanceInv, NEW tx \in Tx, NEW id \in DOMAIN policies, InitiateApproval(tx, id)
    PROVE  GovernanceInv'
  <1>1. PICK o \in Approval :
           /\ o.approvals = {} /\ o.malformed = {} /\ o.completed = 0 /\ o.status # "APPROVED"
           /\ approvals' = Append(approvals, o)
    BY InitiateAdds
  <1>2. /\ approvals' \in Seq(Approval)
        /\ Len(approvals') = Len(approvals) + 1
        /\ \A i \in 1..Len(approvals) : approvals'[i] = approvals[i]
        /\ approvals'[Len(approvals) + 1] = o
        /\ Len(approvals) \in Nat
    BY <1>1 DEF GovernanceInv, GovernanceTypes
  <1>3. /\ UNCHANGED <<roleIdentities, policies, emergencyState>>
        /\ pendingApprovals' = Store(pendingApprovals, <<tx, now>>, Len(approvals'))
    BY DEF InitiateApproval
  <1>4. GovernanceTypes' /\ PoliciesStored'
    BY <1>2, <1>3 DEF GovernanceInv, GovernanceTypes, PoliciesStored
  <1>5. IdsKnown'
    BY <1>2, <1>3 DEF GovernanceInv, IdsKnown, Store
  <1>6. SignersFinite'
    <2>1. IsFiniteSet(o.approvals)
      BY <1>1, FS_EmptySet
    <2> QED
      BY <1>2, <1>3, <2>1 DEF GovernanceInv, SignersFinite
  <1>7. ThresholdMet'
    BY <1>1, <1>2 DEF GovernanceInv, ThresholdMet
  <1> QED
    BY <1>4, <1>5, <1>6, <1>7 DEF GovernanceInv

\* What the end of a time lock, good or bad, does to its approval object.
LEMMA TimeLockEnds ==
    ASSUME GovernanceInv, NEW i \in 1..Len(approvals), TimeLockOpens(i) \/ TimeLockFails(i)
    PROVE  \E o \in Approval :
               /\ approvals' = [approvals EXCEPT ![i] = o]
               /\ o.tier = approvals[i].tier /\ o.approvals = approvals[i].approvals
               /\ o.malformed = approvals[i].malformed
               /\ o.completed = approvals[i].completed /\ o.running = FALSE
               /\ o.status \in {"PENDING", approvals[i].status}
  <1>1. approvals[i] \in Approval
    BY DEF GovernanceInv, GovernanceTypes
  <1>2. PICK st \in {"PENDING", approvals[i].status} :
           approvals' = [approvals EXCEPT ![i] = [@ EXCEPT !.status = st, !.running = FALSE]]
    <2>1. CASE TimeLockOpens(i)
      BY <2>1 DEF TimeLockOpens
    <2>2. CASE TimeLockFails(i)
      <3>1. approvals' = [approvals EXCEPT ![i].running = FALSE]
        BY <2>2 DEF TimeLockFails
      <3> QED
        BY <1>1, <3>1 DEF GovernanceInv, GovernanceTypes, Approval
    <2> QED
      BY <2>1, <2>2
  <1> DEFINE o == [approvals[i] EXCEPT !.status = st, !.running = FALSE]
  <1>3. /\ o \in Approval
        /\ o.approvals = approvals[i].approvals /\ o.completed = approvals[i].completed
        /\ o.malformed = approvals[i].malformed
        /\ o.tier = approvals[i].tier /\ o.status = st /\ o.running = FALSE
    BY <1>1, <1>2 DEF Approval
  <1>4. approvals' = [approvals EXCEPT ![i] = o]
    BY <1>1, <1>2 DEF GovernanceInv, GovernanceTypes
  <1> QED
    BY <1>2, <1>3, <1>4

\* The continuation of a time lock changes the status of one approval, never its signers.
LEMMA TimeLockKeeps ==
    ASSUME GovernanceInv, NEW i \in DOMAIN approvals, TimeLockOpens(i) \/ TimeLockFails(i)
    PROVE  GovernanceInv'
  <1>1. i \in 1..Len(approvals)
    BY DEF GovernanceInv, GovernanceTypes
  <1>2. PICK o \in Approval :
           /\ approvals' = [approvals EXCEPT ![i] = o]
           /\ o.tier = approvals[i].tier /\ o.approvals = approvals[i].approvals
           /\ o.completed = approvals[i].completed
           /\ o.status \in {"PENDING", approvals[i].status}
    BY <1>1, TimeLockEnds
  <1>3. /\ approvals' \in Seq(Approval)
        /\ Len(approvals') = Len(approvals)
        /\ \A j \in 1..Len(approvals) :
              /\ approvals'[j].approvals = approvals[j].approvals
              /\ approvals'[j].completed = approvals[j].completed
              /\ approvals'[j].tier = approvals[j].tier
              /\ approvals'[j].status \in {"PENDING", approvals[j].status}
    BY <1>1, <1>2 DEF GovernanceInv, GovernanceTypes
  <1>4. UNCHANGED <<roleIdentities, policies, pendingApprovals, emergencyState>>
    BY DEF TimeLockOpens, TimeLockFails
  <1> QED
    BY <1>3, <1>4 DEF GovernanceInv, GovernanceTypes, PoliciesStored, IdsKnown,
                      SignersFinite, ThresholdMet

\* submitApproval completes an approval only with enough distinct signers.
LEMMA SubmitKeeps ==
    ASSUME GovernanceInv, NEW id \in DOMAIN pendingApprovals, NEW k \in Holder,
           NEW parses \in BOOLEAN, SubmitApproval(id, k, parses)
    PROVE  GovernanceInv'
  <1> DEFINE i == pendingApprovals[id]
             S == approvals[i].approvals \cup {k}
             enough(M) == Cardinality(S) >= approvals[i].tier.thresholdCount /\ M = {}
             object(M) == [tier |-> approvals[i].tier, approvals |-> S, malformed |-> M,
                           completed |-> IF enough(M) THEN approvals[i].completed + 1
                                         ELSE approvals[i].completed,
                           status |-> IF enough(M) THEN "APPROVED" ELSE approvals[i].status,
                           running |-> approvals[i].running]
  <1>1. /\ i \in 1..Len(approvals)
        /\ IsFiniteSet(S)
        /\ \E M \in {approvals[i].malformed \cup {k}, approvals[i].malformed \ {k}} :
              approvals' = [approvals EXCEPT ![i] = object(M)]
    BY SubmitReplaces
  <1> PICK M \in {approvals[i].malformed \cup {k}, approvals[i].malformed \ {k}} :
           approvals' = [approvals EXCEPT ![i] = object(M)]
    BY <1>1
  <1> DEFINE o == object(M)
  <1>0. approvals' = [approvals EXCEPT ![i] = o]
    OBVIOUS
  <1>2. approvals[i] \in Approval
    BY <1>1 DEF GovernanceInv, GovernanceTypes
  <1>3. o \in Approval
    BY <1>2 DEF Approval
  <1>4. /\ o.approvals = S
        /\ o.completed > 0 => Cardinality(S) >= o.tier.thresholdCount
        /\ o.status = "APPROVED" => o.completed > 0
    <2>1. IsFiniteSet(approvals[i].approvals)
      BY <1>1 DEF GovernanceInv, SignersFinite
    <2>2. /\ Cardinality(approvals[i].approvals) \in Nat
          /\ Cardinality(S) \in Nat
          /\ Cardinality(S) >= Cardinality(approvals[i].approvals)
      BY <2>1, OneMoreHolder
    <2>3. approvals[i].completed > 0 =>
             Cardinality(approvals[i].approvals) >= approvals[i].tier.thresholdCount
      BY <1>1 DEF GovernanceInv, ThresholdMet
    <2>4. approvals[i].status # "APPROVED"
      BY DEF SubmitApproval
    <2>5. approvals[i].completed \in Nat /\ approvals[i].tier.thresholdCount \in Nat
      BY <1>2 DEF Approval, Tier
    <2> HIDE DEF S
    <2> QED
      BY <2>2, <2>3, <2>4, <2>5
  <1> HIDE DEF o, S
  <1>5. /\ approvals' \in Seq(Approval)
        /\ Len(approvals') = Len(approvals)
        /\ \A j \in 1..Len(approvals) : approvals'[j] = IF j = i THEN o ELSE approvals[j]
    BY <1>0, <1>1, <1>3 DEF GovernanceInv, GovernanceTypes
  <1>6. UNCHANGED <<roleIdentities, policies, pendingApprovals, emergencyState>>
    BY DEF SubmitApproval
  <1>7. GovernanceTypes' /\ PoliciesStored' /\ IdsKnown'
    BY <1>5, <1>6 DEF GovernanceInv, GovernanceTypes, PoliciesStored, IdsKnown
  <1>8. SignersFinite'
    BY <1>1, <1>4, <1>5, <1>6 DEF GovernanceInv, SignersFinite
  <1>9. ThresholdMet'
    BY <1>4, <1>5 DEF GovernanceInv, ThresholdMet
  <1> QED
    BY <1>7, <1>8, <1>9 DEF GovernanceInv

\* A freeze and an attempt to lift it list only registered holders.
LEMMA EmergencyKeeps ==
    ASSUME GovernanceInv, NEW V \in Signers, TriggerEmergency(V) \/ UnfreezeEmergency(V)
    PROVE  GovernanceInv'
  <1>1. V \subseteq Holder /\ IsFiniteSet(V)
    BY SignersAreFinite DEF GovernanceInv
  <1>2. IsFiniteSet(emergencyState.unfreezeApprovals \cup V)
    BY <1>1, UnfreezeCountIsUnion DEF GovernanceInv, SignersFinite
  <1> DEFINE U == emergencyState.unfreezeApprovals \cup V
  <1>3. PICK active \in BOOLEAN, W \in {V, U} :
           emergencyState' = [isActive |-> active, unfreezeApprovals |-> W]
    <2>1. CASE TriggerEmergency(V)
      BY <2>1 DEF TriggerEmergency
    <2>2. CASE UnfreezeEmergency(V)
      <3>1. emergencyState' = [isActive |-> UnfreezeCount(V) < 3, unfreezeApprovals |-> U]
        BY <2>2 DEF UnfreezeEmergency
      <3>2. (UnfreezeCount(V) < 3) \in BOOLEAN
        OBVIOUS
      <3> QED
        BY <3>1, <3>2, Zenon
    <2> QED
      BY <2>1, <2>2
  <1>4. /\ emergencyState' \in [isActive : BOOLEAN, unfreezeApprovals : SUBSET Holder]
        /\ IsFiniteSet(emergencyState'.unfreezeApprovals)
    BY <1>1, <1>2, <1>3 DEF GovernanceInv, GovernanceTypes
  <1>5. UNCHANGED <<roleIdentities, policies, approvals, pendingApprovals>>
    BY DEF TriggerEmergency, UnfreezeEmergency
  <1> QED
    BY <1>4, <1>5, OtherSteps DEF GovernanceInv, GovernanceTypes, PoliciesStored

\* Every step of the governance engine keeps the invariant.
LEMMA GovernanceStep == GovernanceInv /\ [GovernanceNext]_governanceVars => GovernanceInv'
  <1> SUFFICES ASSUME GovernanceInv, [GovernanceNext]_governanceVars
               PROVE  GovernanceInv'
    OBVIOUS
  <1>1. ASSUME NEW role \in Role, NEW k \in Holder, RegisterRoleIdentity(role, k)
        PROVE  GovernanceInv'
    BY <1>1, RegisterKeeps
  <1>2. ASSUME NEW V \in Signers, NEW tiers \in TierLists, CreatePolicy(V, tiers)
        PROVE  GovernanceInv'
    BY <1>2, CreatePolicyKeeps
  <1>3. ASSUME NEW tx \in Tx, NEW id \in DOMAIN policies, InitiateApproval(tx, id)
        PROVE  GovernanceInv'
    BY <1>3, InitiateKeeps
  <1>4. ASSUME NEW i \in DOMAIN approvals, TimeLockOpens(i) \/ TimeLockFails(i)
        PROVE  GovernanceInv'
    BY <1>4, TimeLockKeeps
  <1>5. ASSUME NEW id \in DOMAIN pendingApprovals, NEW k \in Holder,
               NEW parses \in BOOLEAN, SubmitApproval(id, k, parses)
        PROVE  GovernanceInv'
    BY <1>5, SubmitKeeps
  <1>6. ASSUME NEW V \in Signers, TriggerEmergency(V) \/ UnfreezeEmergency(V)
        PROVE  GovernanceInv'
    BY <1>6, EmergencyKeeps
  <1>7. ASSUME UNCHANGED <<roleIdentities, policies, approvals, pendingApprovals, emergencyState>>
        PROVE  GovernanceInv'
    BY <1>7, OtherSteps DEF GovernanceInv, GovernanceTypes, PoliciesStored, SignersFinite
  <1>8. ASSUME NEW role \in Role, NEW k \in Holder, NEW t \in now..(now + 1),
               CreateDelegation(role, k, t)
        PROVE  GovernanceInv'
    BY <1>7, <1>8 DEF CreateDelegation
  <1>9. CASE Tick \/ UNCHANGED governanceVars
    BY <1>7, <1>9 DEF Tick, governanceVars
  <1> QED
    BY <1>1, <1>2, <1>3, <1>4, <1>5, <1>6, <1>8, <1>9 DEF GovernanceNext

\* The invariant holds throughout.
LEMMA GovernanceInvariance == GovernanceSpec => []GovernanceInv
  <1>1. GovernanceInit => GovernanceInv
    BY FS_EmptySet DEF GovernanceInit, GovernanceInv, GovernanceTypes, PoliciesStored, IdsKnown,
                       SignersFinite, ThresholdMet
  <1> QED
    BY <1>1, GovernanceStep, PTL DEF GovernanceSpec

-----------------------------------------------------------------------------
(* The theorems *)

\* submitApproval completes a transaction only with thresholdCount different
\* holders behind it.
THEOREM CompletionNeedsThreshold == GovernanceSpec => []CompletedByThreshold
  <1>1. GovernanceInv => CompletedByThreshold
    BY DEF GovernanceInv, GovernanceTypes, ThresholdMet, CompletedByThreshold
  <1> QED
    BY <1>1, GovernanceInvariance, PTL

\* Only unfreezeEmergency lifts a freeze, and only with three different holders
\* among those who triggered the emergency and those who asked to lift it.
THEOREM LiftingNeedsThree == GovernanceSpec => FreezeLiftedByThree
  <1>1. ASSUME GovernanceInv, [GovernanceNext]_governanceVars,
               emergencyState.isActive, ~emergencyState'.isActive
        PROVE  Cardinality(emergencyState'.unfreezeApprovals) >= 3
    <2>1. PICK V \in Signers : UnfreezeEmergency(V)
      <3>1. emergencyState' # emergencyState
        BY <1>1
      <3>2. PICK V \in Signers : TriggerEmergency(V) \/ UnfreezeEmergency(V)
        BY <1>1, <3>1 DEF GovernanceNext, governanceVars, RegisterRoleIdentity, CreatePolicy, InitiateApproval,
                          TimeLockOpens, TimeLockFails, SubmitApproval, CreateDelegation, Tick
      <3>3. ~TriggerEmergency(V)
        BY <1>1 DEF TriggerEmergency
      <3> QED
        BY <3>2, <3>3
    <2>2. IsFiniteSet(V)
      BY <1>1, SignersAreFinite DEF GovernanceInv
    <2>3. /\ UnfreezeCount(V) = Cardinality(emergencyState.unfreezeApprovals \cup V)
          /\ UnfreezeCount(V) \in Nat
      BY <1>1, <2>2, UnfreezeCountIsUnion DEF GovernanceInv, SignersFinite
    <2>4. /\ emergencyState'.unfreezeApprovals = emergencyState.unfreezeApprovals \cup V
          /\ emergencyState'.isActive <=> UnfreezeCount(V) < 3
      BY <1>1, <2>1 DEF UnfreezeEmergency, GovernanceInv, GovernanceTypes
    <2> QED
      BY <1>1, <2>3, <2>4
  <1> QED
    BY <1>1, GovernanceInvariance, PTL DEF GovernanceSpec, FreezeLiftedByThree

-----------------------------------------------------------------------------
(* Governance implements ApprovalQuorum *)

\* The fields of a ballot.
LEMMA BallotFields ==
    ASSUME NEW o
    PROVE  /\ Ballot(o).needed = o.tier.thresholdCount
           /\ Ballot(o).votes = o.approvals
           /\ Ballot(o).spoilt = o.malformed
           /\ Ballot(o).granted = (o.status = "APPROVED")
           /\ Ballot(o).grants = o.completed
           /\ Ballot(o).locked = o.running
  BY Zenon DEF Ballot

\* Replacing an approval object replaces its ballot.
LEMMA BallotReplaced ==
    ASSUME GovernanceInv, NEW i \in 1..Len(approvals), NEW o \in Approval,
           approvals' = [approvals EXCEPT ![i] = o]
    PROVE  /\ i \in DOMAIN Ballots
           /\ Ballots[i] = Ballot(approvals[i])
           /\ Ballots' = [Ballots EXCEPT ![i] = Ballot(o)]
  <1>1. /\ DOMAIN approvals = 1..Len(approvals)
        /\ DOMAIN approvals' = 1..Len(approvals)
        /\ \A j \in 1..Len(approvals) : approvals'[j] = IF j = i THEN o ELSE approvals[j]
    BY DEF GovernanceInv, GovernanceTypes
  <1>2. /\ Ballots = [j \in 1..Len(approvals) |-> Ballot(approvals[j])]
        /\ Ballots' = [j \in 1..Len(approvals) |-> Ballot(approvals'[j])]
    BY <1>1 DEF Ballots, Ballot
  <1> QED
    BY <1>1, <1>2

\* initiateApproval asks for a new ballot.
LEMMA InitiateAsks ==
    ASSUME GovernanceInv, NEW tx \in Tx, NEW id \in DOMAIN policies, InitiateApproval(tx, id)
    PROVE  Quorum!Ask
  <1>1. PICK o \in Approval :
           /\ o.approvals = {} /\ o.malformed = {} /\ o.completed = 0 /\ o.status # "APPROVED"
           /\ approvals' = Append(approvals, o)
    BY InitiateAdds
  <1>2. /\ Len(approvals) \in Nat
        /\ DOMAIN approvals = 1..Len(approvals)
        /\ DOMAIN approvals' = 1..(Len(approvals) + 1)
        /\ \A j \in 1..Len(approvals) : approvals'[j] = approvals[j]
        /\ approvals'[Len(approvals) + 1] = o
    BY <1>1 DEF GovernanceInv, GovernanceTypes
  <1>3. /\ Ballots = [j \in 1..Len(approvals) |-> Ballot(approvals[j])]
        /\ Ballots' = [j \in 1..(Len(approvals) + 1) |-> Ballot(approvals'[j])]
    BY <1>2 DEF Ballots, Ballot
  <1>4. /\ Len(Ballots) = Len(approvals)
        /\ Len(Ballots') = Len(approvals) + 1
        /\ DOMAIN Ballots = 1..Len(approvals)
    BY <1>2, <1>3
  <1>5. \A j \in DOMAIN Ballots : Ballots'[j] = Ballots[j]
    BY <1>2, <1>3, <1>4
  <1>6. Ballots'[Len(Ballots')] \in Quorum!NewBallot
    <2>1. Ballots'[Len(Ballots')] = Ballot(o)
      BY <1>2, <1>3, <1>4
    <2>2. o.tier.thresholdCount \in Nat /\ o.running \in BOOLEAN
      BY DEF Approval, Tier
    <2>3. (o.status = "APPROVED") = FALSE
      BY <1>1
    <2>4. Ballot(o) = [needed |-> o.tier.thresholdCount, votes |-> {}, spoilt |-> {},
                       granted |-> FALSE, grants |-> 0, locked |-> o.running]
      BY <1>1, <2>3 DEF Ballot
    <2> QED
      BY <2>1, <2>2, <2>4 DEF Quorum!NewBallot
  <1> QED
    BY <1>4, <1>5, <1>6 DEF Quorum!Ask

\* The end of a time lock releases the ballot.
LEMMA TimeLockReleases ==
    ASSUME GovernanceInv, NEW i \in DOMAIN approvals, TimeLockOpens(i) \/ TimeLockFails(i)
    PROVE  Quorum!Release(i)
  <1>1. i \in 1..Len(approvals) /\ approvals[i] \in Approval
    BY DEF GovernanceInv, GovernanceTypes
  <1>2. approvals[i].running
    BY DEF TimeLockOpens, TimeLockFails, Evaluating
  <1>3. PICK o \in Approval :
           /\ approvals' = [approvals EXCEPT ![i] = o]
           /\ o.tier = approvals[i].tier /\ o.approvals = approvals[i].approvals
           /\ o.malformed = approvals[i].malformed
           /\ o.completed = approvals[i].completed /\ o.running = FALSE
           /\ o.status \in {"PENDING", approvals[i].status}
    BY <1>1, TimeLockEnds
  <1>4. /\ Ballots[i] = Ballot(approvals[i])
        /\ Ballots' = [Ballots EXCEPT ![i] = Ballot(o)]
    BY <1>1, <1>3, BallotReplaced
  <1>5. PICK granted \in {FALSE, approvals[i].status = "APPROVED"} :
           granted = (o.status = "APPROVED")
    BY <1>3
  <1>6. Ballot(o) = [needed |-> Ballots[i].needed, votes |-> Ballots[i].votes,
                     spoilt |-> Ballots[i].spoilt, granted |-> granted,
                     grants |-> Ballots[i].grants, locked |-> FALSE]
    <2>1. /\ Ballots[i].needed = approvals[i].tier.thresholdCount
          /\ Ballots[i].votes = approvals[i].approvals
          /\ Ballots[i].spoilt = approvals[i].malformed
          /\ Ballots[i].grants = approvals[i].completed
      BY <1>4, BallotFields
    <2>2. /\ Ballots[i].needed = o.tier.thresholdCount
          /\ Ballots[i].votes = o.approvals
          /\ Ballots[i].spoilt = o.malformed
          /\ Ballots[i].grants = o.completed
      BY <1>3, <2>1
    <2> QED
      BY <1>3, <1>5, <2>2, Zenon DEF Ballot
  <1>7. Ballots[i].locked /\ granted \in {FALSE, Ballots[i].granted}
    BY <1>2, <1>4, <1>5, BallotFields, Zenon
  <1> QED
    BY <1>4, <1>6, <1>7 DEF Quorum!Release

\* The abstract specification counts votes as the engine does.
LEMMA SameCount == \A S : Quorum!Cardinality(S) = Cardinality(S)
  BY Zenon DEF Quorum!Cardinality, Cardinality, Quorum!IsFiniteSet, IsFiniteSet

\* submitApproval is a vote.
LEMMA SubmitVotes ==
    ASSUME GovernanceInv, NEW id \in DOMAIN pendingApprovals, NEW k \in Holder,
           NEW parses \in BOOLEAN, SubmitApproval(id, k, parses)
    PROVE  \E i \in DOMAIN Ballots : Quorum!Vote(i, k)
  <1> DEFINE i == pendingApprovals[id]
             S == approvals[i].approvals \cup {k}
             enough(M) == Cardinality(S) >= approvals[i].tier.thresholdCount /\ M = {}
             object(M) == [tier |-> approvals[i].tier, approvals |-> S, malformed |-> M,
                           completed |-> IF enough(M) THEN approvals[i].completed + 1
                                         ELSE approvals[i].completed,
                           status |-> IF enough(M) THEN "APPROVED" ELSE approvals[i].status,
                           running |-> approvals[i].running]
  <1>1. /\ i \in 1..Len(approvals)
        /\ approvals[i].status # "APPROVED"
        /\ \E M \in {approvals[i].malformed \cup {k}, approvals[i].malformed \ {k}} :
              approvals' = [approvals EXCEPT ![i] = object(M)]
    BY SubmitReplaces
  <1> PICK M \in {approvals[i].malformed \cup {k}, approvals[i].malformed \ {k}} :
           approvals' = [approvals EXCEPT ![i] = object(M)]
    BY <1>1
  <1> DEFINE o == object(M)
  <1>0. approvals' = [approvals EXCEPT ![i] = o]
    OBVIOUS
  <1>2. approvals[i] \in Approval /\ o \in Approval
    <2>1. approvals[i] \in Approval
      BY <1>1 DEF GovernanceInv, GovernanceTypes
    <2> QED
      BY <2>1 DEF Approval
  <1>3. /\ o.tier = approvals[i].tier /\ o.approvals = S /\ o.malformed = M
        /\ o.completed = IF enough(M) THEN approvals[i].completed + 1 ELSE approvals[i].completed
        /\ o.running = approvals[i].running
        /\ (o.status = "APPROVED") = enough(M)
    BY <1>1
  <1> HIDE DEF o, object
  <1>4. /\ i \in DOMAIN Ballots
        /\ Ballots[i] = Ballot(approvals[i])
        /\ Ballots' = [Ballots EXCEPT ![i] = Ballot(o)]
    BY <1>0, <1>1, <1>2, BallotReplaced
  <1>5. /\ Ballots[i].needed = approvals[i].tier.thresholdCount
        /\ Ballots[i].votes = approvals[i].approvals
        /\ Ballots[i].spoilt = approvals[i].malformed
        /\ Ballots[i].grants = approvals[i].completed
        /\ Ballots[i].locked = approvals[i].running
        /\ ~Ballots[i].granted
    <2>1. /\ Ballots[i].needed = approvals[i].tier.thresholdCount
          /\ Ballots[i].votes = approvals[i].approvals
          /\ Ballots[i].spoilt = approvals[i].malformed
          /\ Ballots[i].grants = approvals[i].completed
      BY <1>4, BallotFields
    <2>2. Ballots[i].locked = approvals[i].running
      BY <1>4, BallotFields, Zenon
    <2>3. Ballots[i].granted = (approvals[i].status = "APPROVED")
      BY <1>4, BallotFields, Zenon
    <2>4. ~Ballots[i].granted
      BY <1>1, <2>3
    <2> QED
      BY <2>1, <2>2, <2>4, Zenon
  <1> DEFINE votes == Ballots[i].votes \cup {k}
             reached == Cardinality(votes) >= Ballots[i].needed /\ M = {}
  <1>6. Ballot(o) = [needed |-> Ballots[i].needed, votes |-> votes, spoilt |-> M,
                     granted |-> reached,
                     grants |-> IF reached THEN Ballots[i].grants + 1 ELSE Ballots[i].grants,
                     locked |-> Ballots[i].locked]
    BY <1>3, <1>5, Zenon DEF Ballot
  <1> QED
    BY <1>4, <1>5, <1>6, SameCount, Zenon DEF Quorum!Vote

\* Every step of governance is a step of the quorum or invisible to it.
LEMMA QuorumStep == GovernanceInv /\ [GovernanceNext]_governanceVars => [Quorum!QuorumNext]_Ballots
  <1> SUFFICES ASSUME GovernanceInv, [GovernanceNext]_governanceVars
               PROVE  [Quorum!QuorumNext]_Ballots
    OBVIOUS
  <1>1. ASSUME NEW tx \in Tx, NEW id \in DOMAIN policies, InitiateApproval(tx, id)
        PROVE  Quorum!QuorumNext
    BY <1>1, InitiateAsks DEF Quorum!QuorumNext
  <1>2. ASSUME NEW i \in DOMAIN approvals, TimeLockOpens(i) \/ TimeLockFails(i)
        PROVE  Quorum!QuorumNext
    <2>1. Quorum!Release(i)
      BY <1>2, TimeLockReleases
    <2>2. i \in DOMAIN Ballots
      BY DEF Ballots
    <2> QED
      BY <2>1, <2>2 DEF Quorum!QuorumNext
  <1>3. ASSUME NEW id \in DOMAIN pendingApprovals, NEW k \in Holder,
               NEW parses \in BOOLEAN, SubmitApproval(id, k, parses)
        PROVE  Quorum!QuorumNext
    BY <1>3, SubmitVotes DEF Quorum!QuorumNext
  <1>4. CASE UNCHANGED approvals
    BY <1>4 DEF Ballots, Ballot
  <1> QED
    BY <1>1, <1>2, <1>3, <1>4 DEF GovernanceNext, governanceVars, RegisterRoleIdentity, CreatePolicy,
       CreateDelegation, TriggerEmergency, UnfreezeEmergency, Tick

\* For every set of holders, roles and policies, each approval object of the
\* engine is one ballot of ApprovalQuorum.
THEOREM GovernanceRefinesQuorum == GovernanceSpec => ImplementsQuorum
  <1>1. GovernanceInit => Quorum!QuorumInit
    BY DEF GovernanceInit, Quorum!QuorumInit, Ballots
  <1> QED
    BY <1>1, GovernanceInvariance, QuorumStep, PTL DEF GovernanceSpec, ImplementsQuorum, Quorum!QuorumSpec

=============================================================================
