SPECIFICATION FairSpec
CONSTANTS
  Token = {t1, t2}
  Req = {p1, p2, p3, p4}
  None = None
  RowLocks = TRUE
  Enabled = {"login", "refresh", "reuse", "suspend"}
PROPERTY RequestsFinish
