SPECIFICATION Spec
CONSTANTS
  u1 = u1
  u2 = u2
  u3 = u3
  User <- MCUser
  Start <- MCStart
  Request = {p1, p2, p3}
  Invite = {i1}
  None = None
SYMMETRY RequestSymmetry
INVARIANTS
  TypeOK
  StaysAdministrable
  OneFounder
PROPERTIES
  InvitesAreSingleUse
CHECK_DEADLOCK FALSE
