---------------------------- MODULE MCGovernance ----------------------------
(* Bounded instance of Governance. *)
EXTENDS Governance, TLC
CONSTANTS h1, h2, h3, r1, r2, r3

MCHolder == {h1, h2, h3}
MCRole == {r1, r2, r3}    \* no role is treated differently from another
MCTx == {[hash |-> "t1", amount |-> 1]}

\* One tier with a time lock that two holders approve.
MCTierLists == {<<[min |-> 0, max |-> 1, thresholdCount |-> 2, timeLock |-> TRUE]>>}

GovernanceSymmetry == Permutations(MCHolder)
=============================================================================
