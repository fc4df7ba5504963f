\* Administrators, registrations and the seed script; the code has no fairness.
SPECIFICATION Spec
CONSTANTS
  ann = ann
  bob = bob
  p1 = p1
  p2 = p2
  None = None
  Users <- MCUsers
  First = ann
  Requests <- MCRequests
  AskedRoles <- MCAskedRoles
  AskedGrants <- MCAskedGrants
  MaxRequests = 2
SYMMETRY RequestSymmetry
CHECK_DEADLOCK FALSE
INVARIANTS
    ReplacementsAreWholeUnlessRaced
    SomebodyIsActiveUnlessCrossed
    DisablingEndsSessionsUnlessOvertaken
PROPERTIES
    SystemRolesStayUnlessSeeded
