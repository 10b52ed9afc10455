SPECIFICATION Spec
CONSTANTS
  ctlDev = ctlDev
  ctlDev2 = ctlDev2
  playDev = playDev
  k1 = k1
  k2 = k2
  p1 = p1
  p2 = p2
  m1 = m1
  m2 = m2
  c1 = c1
  c2 = c2
  playUri = playUri
  playStation = playStation
  NoConn = NoConn
  NoRow = NoRow
  NoEntry = NoEntry
  NoRequest = NoRequest
  Devices = {ctlDev, ctlDev2, playDev}
  DeviceOf <- TwoControllersOf
  Conns = {k1, k2, p1}
  Cmds = {m1, m2}
  Calls = {c1, c2}
  Bodies = {playUri}
  StationBodies = {}
  MayControl <- BothControlPlayer
  MaxConn = 1
  MaxTarget = 1
  OutCap = 2
  MaxRestarts = 0
  Unstable = {}
  Events = {}
SYMMETRY CallSymmetry
INVARIANTS
  TargetLimit
CHECK_DEADLOCK FALSE
