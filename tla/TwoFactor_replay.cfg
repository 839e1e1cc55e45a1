SPECIFICATION Spec
CONSTANTS
  Req = {p1, p2, p3, p4, p5}
  Secret = {s1, s2}
  None = None
  MaxStep = 3
  Enabled = {"enable", "verify", "login"}
SYMMETRY RequestSecretSymmetry
INVARIANT CodesAreSingleUse
CHECK_DEADLOCK FALSE
