SPECIFICATION Spec
CONSTANTS
  s1 = s1
  s2 = s2
  None = None
  Server <- MCServer
  MaxSession = 3
  MaxGen = 2
  MaxEpoch = 2
  Overlap <- Settled
  Enabled = {"restart", "revoke", "reconnect"}
SYMMETRY MCSymmetry
INVARIANTS TypeOK OnlyHomeServer KeyOfAccount StorageKeepsUp SplashEnds
