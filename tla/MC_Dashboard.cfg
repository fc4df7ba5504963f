SPECIFICATION TabSpec
CONSTANTS
    ann = ann
    bob = bob
    i1 = i1
    i2 = i2
    c1 = c1
    c2 = c2
    s1 = s1
    s2 = s2
    Nobody = Nobody
    Users <- MC_Users
    Items <- MC_Items
    Clicks <- MC_Clicks
    Endpoints <- MC_Endpoints
    Switches <- MC_Clicks
SYMMETRY Symmetry
CHECK_DEADLOCK FALSE
INVARIANTS
    ShowsTheListAtRest
    TogglesAccumulateUnlessDisturbed
    ShowsWhatArrives
