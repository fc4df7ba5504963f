SPECIFICATION Spec
CONSTANTS
    Users = {u1}
    Sessions = {s1, s2}
    Tokens = {t1, t2, t3}
    Requests = {r1, r2}
    None = None
    TTL = 0
    MaxNow = 1
    Crashes = TRUE
SYMMETRY Symmetry
INVARIANTS
    OneLiveToken
    ExpiriesAgree
PROPERTIES
    RevocationIsFinal
    EvictionIsComplete
    ImplementsRefreshChain
