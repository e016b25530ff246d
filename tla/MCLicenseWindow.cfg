SPECIFICATION Spec
CONSTANTS
    Licences <- MCLicences
    Machines <- MCMachines
    Volumes = {1, 3}
    HourMs = 1
    EpochMs = 1
    Slack = 1
    Byte = 12
    ScalarLen = 3
    MAX_PAYLOAD_SIZE = 400
    MAX_FIELD_SIZE = 40
    MAX_FIELDS = 13
    MaxString = 4
    StartTime = 20736
    Horizon = 20738
    MaxTime = 20740
    MaxInits = 2
    MaxChanges = 1
    MaxTokens = 1
INVARIANTS
    WindowAccepted
CHECK_DEADLOCK FALSE
