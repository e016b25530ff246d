SPECIFICATION MpcSpec
CONSTANTS
    CURVE_ORDER = 5
    PrimeP = 3
    PrimeQ = 11
    Registries <- TestRegistries
    DKGParams <- TestParams
    MaxSessions = 1
INVARIANTS
    MtAProductShared
