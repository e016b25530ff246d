----------------------------- MODULE Governance -----------------------------
(***************************************************************************)
(* GovernanceEngine of governance/governance_engine.ts: role holders,      *)
(* policies, transaction approvals with their time lock, delegations and   *)
(* the emergency freeze.                                                   *)
(*                                                                         *)
(* A holder is its Ed25519 key.  The methods that take a map from roles to *)
(* signatures see at most one valid signature per role, so the signers are *)
(* a set of registered holders with different roles; an invalid signature  *)
(* counts for nothing.  verifyBLSSignature awaits outside an async         *)
(* function: repaired one way it always fails (the private key is released *)
(* when it is drawn), the other way it always passes, being a promise.     *)
(* Its result is an input, and so is whether a BLS signature it lets pass  *)
(* is a point that aggregateSignatures can parse.                          *)
(***************************************************************************)
EXTENDS Integers, Sequences, FiniteSets

CONSTANTS
    Holder,       \* Ed25519 public keys
    Role,         \* governance roles
    Tx,           \* pairs of transaction hash and amount
    TierLists,    \* arguments of createPolicy
    MaxTime,      \* bound on the clock
    MaxObjects,   \* bound on approvals and delegation tokens together
    MaxPolicies   \* bound on stored policies

ASSUME GovernanceAssumption ==
    /\ {MaxTime, MaxObjects, MaxPolicies} \subseteq Nat
    /\ \A t \in Tx : t.amount \in Nat
    /\ \A l \in TierLists : l \in Seq([min : Nat, max : Nat, thresholdCount : Nat,
                                       timeLock : BOOLEAN])

VARIABLES
    now,               \* Date.now() in ticks
    roleIdentities,    \* sequence of [key, role], in insertion order
    policies,          \* policy id -> [version, tiers]
    approvals,         \* the PendingApproval objects, in order of creation
    pendingApprovals,  \* approval id -> position of its object in approvals
    delegations,       \* tokens of createDelegation
    emergencyState     \* isActive is FALSE before the first emergency; the expiry
                       \* of an emergency is stored and never read

governanceVars ==
    <<now, roleIdentities, policies, approvals, pendingApprovals, delegations, emergencyState>>

Objects == Len(approvals) + Cardinality(delegations)

Store(f, k, v) == [x \in DOMAIN f \cup {k} |-> IF x = k THEN v ELSE f[x]]

GovernanceInit ==
    /\ now = 0
    /\ roleIdentities = << >>
    /\ policies = << >>
    /\ approvals = << >>
    /\ pendingApprovals = << >>
    /\ delegations = {}
    /\ emergencyState = [isActive |-> FALSE, unfreezeApprovals |-> {}]

-----------------------------------------------------------------------------
(* Role holders *)

Holds(k, role) ==
    \E i \in DOMAIN roleIdentities : roleIdentities[i] = [key |-> k, role |-> role]

\* Sets of holders whose signatures verifyRoleSignature accepts in one call.
Signers ==
    {V \in SUBSET Holder :
        \E claim \in [V -> Role] :
            /\ \A k \in V : Holds(k, claim[k])
            /\ \A k, l \in V : claim[k] = claim[l] => k = l}

\* The map is keyed by the public key: a second registration of a key changes
\* its role and keeps its place.
RegisterRoleIdentity(role, k) ==
    /\ LET at == {i \in DOMAIN roleIdentities : roleIdentities[i].key = k} IN
       roleIdentities' = IF at = {} THEN Append(roleIdentities, [key |-> k, role |-> role])
                         ELSE [i \in DOMAIN roleIdentities |->
                                 IF i \in at THEN [key |-> k, role |-> role]
                                 ELSE roleIdentities[i]]
    /\ UNCHANGED <<now, policies, approvals, pendingApprovals, delegations, emergencyState>>

-----------------------------------------------------------------------------
(* Policies *)

\* The id is a hash of the tiers and the time.
CreatePolicy(V, tiers) ==
    /\ Cardinality(V) >= 3
    /\ Cardinality(DOMAIN policies) < MaxPolicies
    /\ policies' = Store(policies, <<tiers, now>>,
                       [version |-> Cardinality(DOMAIN policies) + 1, tiers |-> tiers])
    /\ UNCHANGED <<now, roleIdentities, approvals, pendingApprovals, delegations,
                   emergencyState>>

-----------------------------------------------------------------------------
(* Approvals *)

TierFits(tiers, amount) == {i \in DOMAIN tiers : amount \in tiers[i].min..tiers[i].max}

\* policy.tiers.find: the first tier that fits, if any does.
FirstFit(tiers, amount) ==
    {i \in TierFits(tiers, amount) : \A j \in TierFits(tiers, amount) : i <= j}

\* createTimeLockedApproval is called, and not awaited, for a tier with a lock.
CreateTimeLockedApproval(tier) == tier.timeLock

\* The id is a hash of the transaction and the time: asking again within a
\* tick replaces the object.
InitiateApproval(tx, policyId) ==
    /\ Objects < MaxObjects
    /\ ~emergencyState.isActive
    /\ \E i \in FirstFit(policies[policyId].tiers, tx.amount) :
          LET tier == policies[policyId].tiers[i] IN
          approvals' = Append(approvals,
               [tier |-> tier, approvals |-> {}, malformed |-> {}, completed |-> 0,
                status |-> IF tier.timeLock THEN "TIME_LOCKED" ELSE "PENDING",
                running |-> CreateTimeLockedApproval(tier)])
    /\ pendingApprovals' = Store(pendingApprovals, <<tx, now>>, Len(approvals'))
    /\ UNCHANGED <<now, roleIdentities, policies, delegations, emergencyState>>

\* evaluateVDF gives way to other calls all along its squarings: it may end at
\* any later point.
Evaluating(o) == o.running

\* Mutant: the evaluation can end more than once.
TimeLockOpens_Rerun(i) ==
    /\ Evaluating(approvals[i])
    /\ approvals' = [approvals EXCEPT ![i].status = "PENDING"]
    /\ UNCHANGED <<now, roleIdentities, policies, pendingApprovals, delegations,
                   emergencyState>>

\* The continuation of createTimeLockedApproval: whatever the status was.
TimeLockOpens(i) ==
    /\ Evaluating(approvals[i])
    /\ approvals' = [approvals EXCEPT ![i] = [@ EXCEPT !.status = "PENDING", !.running = FALSE]]
    /\ UNCHANGED <<now, roleIdentities, policies, pendingApprovals, delegations,
                   emergencyState>>

\* The proof of evaluateVDF takes x to the power T - r, r a hash: when r > T
\* modPow throws, the promise is rejected and the continuation never runs.
TimeLockFails(i) ==
    /\ Evaluating(approvals[i])
    /\ approvals' = [approvals EXCEPT ![i].running = FALSE]
    /\ UNCHANGED <<now, roleIdentities, policies, pendingApprovals, delegations,
                   emergencyState>>

\* Mutant: every submission counts.
Remaining_Submissions(o, signers) ==
    IF Cardinality(o.approvals) + 1 >= o.tier.thresholdCount THEN 0 ELSE 1

\* approvalsRemaining: signatures are counted by key.
Remaining(o, signers) ==
    IF Cardinality(signers) >= o.tier.thresholdCount THEN 0
    ELSE o.tier.thresholdCount - Cardinality(signers)

\* Mutant: the signature at hand is looked at alone, and the holders before it
\* are taken for granted.
Aggregates_Any(malformed) == Cardinality(malformed) < 2

\* aggregateSignatures throws for a stored signature that is no point of G1,
\* whoever submits now.
Aggregates(malformed) == malformed = {}

\* submitApproval by a holder whose BLS signature is accepted.  Neither the
\* time lock, nor the expiry (EXPIRED is never assigned), nor the freeze, nor
\* requiredRoles is looked at.  The signature is recorded, in the place of an
\* earlier one of the same key, before the aggregation may throw.
SubmitApproval(id, k, parses) ==
    LET i == pendingApprovals[id]
        o == approvals[i]
        signers == o.approvals \cup {k}
        malformed == IF parses THEN o.malformed \ {k} ELSE o.malformed \cup {k}
        done == Remaining(o, signers) = 0 /\ Aggregates(malformed)
    IN  /\ o.status # "APPROVED"
        /\ \E role \in Role : Holds(k, role)
        /\ approvals' = [approvals EXCEPT ![i] =
               [tier |-> o.tier, approvals |-> signers, malformed |-> malformed,
                completed |-> IF done THEN o.completed + 1 ELSE o.completed,
                status |-> IF done THEN "APPROVED" ELSE o.status,
                running |-> o.running]]
        /\ UNCHANGED <<now, roleIdentities, policies, pendingApprovals, delegations,
                       emergencyState>>

-----------------------------------------------------------------------------
(* Delegations *)

\* createDelegation signs with whatever key the caller passes.
CreateDelegation(role, k, notAfter) ==
    /\ Objects < MaxObjects
    /\ delegations' = delegations \cup {[delegatorRole |-> role, signer |-> k,
                                         notBefore |-> now, notAfter |-> notAfter]}
    /\ UNCHANGED <<now, roleIdentities, policies, approvals, pendingApprovals,
                   emergencyState>>

DelegatorIdentities(token) ==
    {i \in DOMAIN roleIdentities : roleIdentities[i].role = token.delegatorRole}

\* verifyDelegation: against the first registered holder of the role only.
VerifyDelegation(token) ==
    /\ token.notAfter >= now
    /\ token.notBefore <= now
    /\ \E i \in DelegatorIdentities(token) :
          /\ \A j \in DelegatorIdentities(token) : i <= j
          /\ token.signer = roleIdentities[i].key

-----------------------------------------------------------------------------
(* Emergencies *)

\* A new emergency replaces one that is active.
TriggerEmergency(V) ==
    /\ Cardinality(V) >= 2
    /\ emergencyState' = [isActive |-> TRUE, unfreezeApprovals |-> V]
    /\ UNCHANGED <<now, roleIdentities, policies, approvals, pendingApprovals, delegations>>

\* Mutant: a key that is already listed counts again.
UnfreezeCount_Repeats(V) == Cardinality(emergencyState.unfreezeApprovals) + Cardinality(V)

\* The holders who triggered the emergency and those of earlier attempts count.
UnfreezeCount(V) ==
    Cardinality(emergencyState.unfreezeApprovals)
        + Cardinality(V \ emergencyState.unfreezeApprovals)

\* An attempt with too few approvals throws and keeps them.
UnfreezeEmergency(V) ==
    /\ emergencyState.isActive
    /\ emergencyState' = [isActive |-> UnfreezeCount(V) < 3,
                          unfreezeApprovals |-> emergencyState.unfreezeApprovals \cup V]
    /\ UNCHANGED <<now, roleIdentities, policies, approvals, pendingApprovals, delegations>>

Tick ==
    /\ now < MaxTime
    /\ now' = now + 1
    /\ UNCHANGED <<roleIdentities, policies, approvals, pendingApprovals, delegations,
                   emergencyState>>

GovernanceNext ==
    \/ \E role \in Role, k \in Holder : RegisterRoleIdentity(role, k)
    \/ \E V \in Signers, tiers \in TierLists : CreatePolicy(V, tiers)
    \/ \E tx \in Tx, id \in DOMAIN policies : InitiateApproval(tx, id)
    \/ \E i \in DOMAIN approvals : TimeLockOpens(i) \/ TimeLockFails(i)
    \/ \E id \in DOMAIN pendingApprovals, k \in Holder, parses \in BOOLEAN :
          SubmitApproval(id, k, parses)
    \/ \E role \in Role, k \in Holder, t \in now..(now + 1) : CreateDelegation(role, k, t)
    \/ \E V \in Signers : TriggerEmergency(V) \/ UnfreezeEmergency(V)
    \/ Tick

GovernanceSpec == GovernanceInit /\ [][GovernanceNext]_governanceVars

-----------------------------------------------------------------------------
(* Properties *)

\* A transaction completes only with thresholdCount different holders behind
\* it: resubmissions, role changes of a holder between two submissions and the
\* time lock running out in between never make one holder count twice.
CompletedByThreshold ==
    \A i \in DOMAIN approvals : approvals[i].completed > 0 =>
        Cardinality(approvals[i].approvals) >= approvals[i].tier.thresholdCount

\* An approval seen as a ballot: the lock is the evaluation under way.
Ballot(o) ==
    [needed  |-> o.tier.thresholdCount,
     votes   |-> o.approvals,
     spoilt  |-> o.malformed,
     granted |-> o.status = "APPROVED",
     grants  |-> o.completed,
     locked  |-> o.running]

Ballots == [i \in DOMAIN approvals |-> Ballot(approvals[i])]

Quorum == INSTANCE ApprovalQuorum WITH ballots <- Ballots

\* Whatever holders, policies, delegations, emergencies and the clock do
\* meanwhile, each approval object is one ballot: submitApproval completes it
\* with the vote that reaches the threshold, unless aggregateSignatures throws
\* for a vote recorded then or before, which blocks it until that holder votes
\* again; 'Already approved' stops every later vote, and only the continuation
\* of the time lock, once, reopens it.
ImplementsQuorum == Quorum!QuorumSpec

\* 'VDF cryptographic time-lock (cannot be bypassed)': nothing is approved while
\* the evaluation of its lock is under way.
LockNotBypassed ==
    \A i \in DOMAIN approvals : approvals[i].running => approvals[i].status # "APPROVED"

\* A freeze is lifted only when three different holders, triggering or
\* unfreezing, stood behind this emergency, whatever attempts failed before,
\* and however holders were registered anew meanwhile.
FreezeLiftedByThree ==
    [][emergencyState.isActive /\ ~emergencyState'.isActive =>
          Cardinality(emergencyState'.unfreezeApprovals) >= 3]_governanceVars

=============================================================================
