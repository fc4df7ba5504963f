CONSTANTS
    t1 = t1
    t2 = t2
    c1 = c1
    c2 = c2
    s1 = s1
    s2 = s2
    None = None
    Tabs <- MC_Tabs
    Calls <- MC_Calls
    Sessions <- MC_Sessions
    MaxCalls <- MC_MaxCalls
SPECIFICATION Spec
SYMMETRY Symmetry
CHECK_DEADLOCK FALSE
INVARIANTS
    NoSelfInflictedReuse
    LogoutEndsUnlessRaced
    StatusHonest
    NobodyWaitsInVain
    WrongPasswordCountsOnceUnlessRefreshed
