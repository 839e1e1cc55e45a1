SPECIFICATION Spec
CONSTANTS
  t1 = t1
  r1 = r1
  r2 = r2
  h1 = h1
  h2 = h2
  k1 = k1
  k2 = k2
  c1 = c1
  c2 = c2
  Tunnel <- MCTunnel
  Record <- MCRecord
  Layouts <- MCLayouts
  Host <- MCHost
  Key <- MCKey
  Conn <- MCConn
  MaxVersion = 2
  MaxOps = 2
  MaxAccount = 1
  MaxTabs = 1
  MaxIpc = 1
  Use <- MCProcesses
  Pace <- MCBoth
INVARIANTS
  TypeOK
  EveryProcessIsReachable
  NothingRemains
  TokensOpenOnce
PROPERTIES
  FinishedStays
  ProcessesSettle
CHECK_DEADLOCK FALSE
