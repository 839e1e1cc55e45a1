SPECIFICATION Spec
CONSTANTS
  Token = {t1, t2, t3}
  Req = {p1, p2, p3}
  None = None
  RowLocks = FALSE
  Enabled = {"login", "refresh", "reuse", "logout", "reset", "replace", "suspend", "expire", "abort"}
SYMMETRY RequestSymmetry
INVARIANTS TypeOK OneHeadPerFamily EndsEarlierSessions
PROPERTY TokensAreOneTime
