SPECIFICATION PeersSpec
CONSTANTS
    OutPeer = {n1}
    InPeer = {n1, n2}
    MaxConnections = 1
    MaxSockets = 4
    h1 = h1
    h2 = h2
    h3 = h3
    r1 = r1
    r2 = r2
    r3 = r3
    Holder <- MCHolder
    Role <- MCRole
    Tx <- MCTx
    TierLists <- MCTierLists
    MaxTime = 1
    MaxObjects = 1
    MaxPolicies = 1
    e1 = e1
    e2 = e2
    i1 = i1
    i2 = i2
    d1 = d1
    k1 = k1
    k2 = k2
    None = None
    MaxKeys = 3
    Call <- MCEnclaveCall
    ShareId <- MCShareId
    Data <- MCData
    Secret <- MCSecret
SYMMETRY GovernanceSymmetry
INVARIANTS
    NoDeadClients
    GivenUpOnlyAfterDialIn
    ListedWithoutTwin
    CompletedByThreshold
    DecryptReturnsStored
    TamperedOnlyLate
PROPERTIES
    QuietAfterClose
    ImplementsQuorum
    FreezeLiftedByThree
CHECK_DEADLOCK FALSE
