SPECIFICATION Spec
CONSTANTS
  s1 = s1
  s2 = s2
  None = None
  Server <- MCServer
  MaxSession = 2
  MaxGen = 1
  MaxEpoch = 2
  Overlap <- Hasty
  Enabled = {}
SYMMETRY MCSymmetry
INVARIANT OnlyHomeServer
CHECK_DEADLOCK FALSE
