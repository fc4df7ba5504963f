SPECIFICATION Spec
CONSTANTS
    Users = {u1, u2}
    Requests = {r1, r2}
    p1 = p1
    p2 = p2
    e1 = e1
    e2 = e2
    None = None
    Profiles <- MC_Profiles
    Addresses <- MC_Addresses
    provider <- MC_provider
    account <- MC_account
    MaxLinks = 3
    MaxOps = 5
SYMMETRY Symmetry
CHECK_DEADLOCK FALSE
INVARIANTS
    VerifiedEmailProven
    LinkSpentForItsEffect
    WayBackIn
PROPERTIES
    ProviderAccountKeepsUser
