SPECIFICATION LiveSpec
CONSTANTS
  ctlDev = ctlDev
  ctlDev2 = ctlDev2
  playDev = playDev
  k1 = k1
  k2 = k2
  p1 = p1
  p2 = p2
  m1 = m1
  m2 = m2
  c1 = c1
  c2 = c2
  playUri = playUri
  playStation = playStation
  NoConn = NoConn
  NoRow = NoRow
  NoEntry = NoEntry
  NoRequest = NoRequest
  Devices = {ctlDev, playDev}
  DeviceOf <- TheDeviceOf
  Conns = {k1, p1}
  Cmds = {m1, m2}
  Calls = {c1, c2}
  Bodies = {playUri}
  StationBodies = {}
  MayControl <- ControlsPlayerAndSelf
  MaxConn = 1
  MaxTarget = 2
  OutCap = 1
  MaxRestarts = 0
  Unstable = {playDev}
  Events = {}
INVARIANTS
  ConnectionLimit
  AcceptedAfterReceived
PROPERTIES
  DecidedUnlessOrphaned
CHECK_DEADLOCK FALSE
