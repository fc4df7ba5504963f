SPECIFICATION Spec
CONSTANTS
    r1 = r1
    r2 = r2
    ip1 = ip1
    ip2 = ip2
    ua1 = ua1
    ua2 = ua2
    None = None
    Requests <- MC_Requests
    Devices <- MC_Devices
    MaxFailed = 3
    MaxAttempts = 1
    MaxTokens = 2
    MaxOps = 5
SYMMETRY Symmetry
CHECK_DEADLOCK FALSE
INVARIANTS
    NeverLocksEarly
    NewDevicesAlerted
    LoginTokenHolds
PROPERTIES
    LocksAtMaxFailed
