SPECIFICATION Spec
CONSTANTS
  Req = {p1, p2, p3, p4}
  Secret = {s1, s2}
  None = None
  MaxStep = 3
  Enabled = {"enable", "verify", "disable", "login", "stepUp"}
SYMMETRY RequestSecretSymmetry
INVARIANTS TypeOK OneUsePerConfirmation OnlyConfirmedFactors
CHECK_DEADLOCK FALSE
