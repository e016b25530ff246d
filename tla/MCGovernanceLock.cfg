SPECIFICATION GovernanceSpec
CONSTANTS
    h1 = h1
    h2 = h2
    h3 = h3
    r1 = r1
    r2 = r2
    r3 = r3
    Holder <- MCHolder
    Role <- MCRole
    Tx <- MCTx
    TierLists <- MCTierLists
    MaxTime = 1
    MaxObjects = 1
    MaxPolicies = 1
SYMMETRY GovernanceSymmetry
INVARIANT LockNotBypassed
CHECK_DEADLOCK FALSE
