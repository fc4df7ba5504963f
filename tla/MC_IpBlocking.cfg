SPECIFICATION Spec
CONSTANTS
    s1 = s1
    s2 = s2
    l1 = l1
    l2 = l2
    a1 = a1
    a2 = a2
    i1 = i1
    None = None
    Servers <- MC_Servers
    Lookups <- MC_Lookups
    Admins <- MC_Admins
    Ips <- MC_Ips
    Ends = {2, 5}
    Ttl = 2
    MaxLoad = 2
    MaxTime = 4
    MaxChanges = 2
SYMMETRY Symmetry
CHECK_DEADLOCK FALSE
INVARIANTS
    StalenessBounded
    ImmediateUnlessLoading
