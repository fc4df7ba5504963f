SPECIFICATION Spec
CONSTANTS
    Users = {u1, u2, u3}
    Invites = {i1}
    Teams = {t1}
    Requests = {r1, r2}
    None = None
    MaxOps = 6
SYMMETRY Symmetry
CHECK_DEADLOCK FALSE
INVARIANTS
    OneOwnerUnlessTransferRaced
    InviteAdmitsOne
    TeamsHoldPastMembers
