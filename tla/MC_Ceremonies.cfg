SPECIFICATION CeremonySpec
CONSTANTS
    t1 = t1
    t2 = t2
    u1 = u1
    u2 = u2
    k1 = k1
    k2 = k2
    r1 = r1
    r2 = r2
    Nobody = Nobody
    Tabs <- MC_Tabs
    Users <- MC_Users
    Keys <- MC_Keys
    counted <- MC_counted
    Requests <- MC_Requests
    MaxTokens = 2
    MaxRequests = 2
SYMMETRY Symmetry
CHECK_DEADLOCK FALSE
INVARIANTS
    PasskeyIsItsAskersOwn
    SignatureOpensOneSessionUnlessOverlapped
    StateIsAcceptedOnceUnlessUncleared
