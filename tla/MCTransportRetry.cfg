SPECIFICATION TransportSpec
CONSTANTS
    OutPeer = {p1}
    InPeer = {p1}
    MaxConnections = 1
    MaxSockets = 3
INVARIANTS
    RetriesGoOn
CHECK_DEADLOCK FALSE
