SPECIFICATION EnginesSpec
CONSTANTS
    CURVE_ORDER = 5
    PrimeP = 3
    PrimeQ = 11
    Registries <- MCRegistries
    DKGParams <- MCParams
    MaxSessions = 2
    c1 = c1
    c2 = c2
    q1 = q1
    qX = qX
    Call <- MCCall
    Peer <- MCPeer
    Index <- MCIndex
    SelfIndex = 2
    Threshold = 2
    MaxInit = 2
    Epochs = {0, 5}
    p1 = p1
    p2 = p2
    b1 = b1
    b2 = b2
    Proc <- MCTwoProcs
    Body <- MCBody
    Faults <- MCAllFaults
    MaxEntries = 3
    MaxBoots = 3
INVARIANTS
    SharesReconstruct
    CommonNonceSigns
    KeyPairsSound
    AuditBlamesFirstFaulty
    NoRefreshLost
    OldKeysDestroyed
    EpochAccounted
    VerifyOutcome
    RowsLinked
    AckedIsDurableButFirst
PROPERTIES
    SessionsImmutable
    MerkleRootChanges
CHECK_DEADLOCK FALSE
