SPECIFICATION ServingSpec
CONSTANTS
    w1 = w1
    w2 = w2
    s1 = s1
    s2 = s2
    m1 = m1
    m2 = m2
    Worker <- MCWorker
    StopCall <- MCStopCall
    Message <- MCMessage
    WorkerCount = 1
    BatchSize = 2
    QueueMaxSize = 1
    MaxBatches = 2
    sa = sa
    sb = sb
    c1 = c1
    c2 = c2
    Absent = Absent
    SessionId <- MCSessionId
    UnwrapCall <- MCUnwrapCall
    TTL = 1
    MaxTime = 3
    MaxTokens = 2
    Dest = {"d1"}
    Malformed = {"bad"}
    Patterned = {"bad"}
    Whitelisted = {"d1"}
    Spelling <- MCSpelling
    Amounts = {2}
    MaxDaily = 3
    MaxTx = 2
    TreasuryAbove = 1
    ComplianceAbove = 3
    VelocityLimit = 1
    Hour = 2
    Updates <- MCUpdates
    MaxSpending = 2
    MaxClock = 2
    MaxEvals = 2
    Thresholds = {1, 2}
    Parties = {2, 3}
    MaxRequests = 2
    MaxTampers = 1
INVARIANTS
    NonceSignsOnce
    QueuedAreLive
    StatsConserved
    StoppedIsEmpty
    VelocityHolds
    BlacklistHolds
    TrailMatchesState
PROPERTIES
    OneAttemptPerNonce
    ImplementsNoncePool
    StopReturns
    DeadStaysClosed
    DeadStaysDead
    SessionsGetLogged
CHECK_DEADLOCK FALSE
