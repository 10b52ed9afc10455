SPECIFICATION Spec
CONSTANTS
  ctlDev = ctlDev
  playDev = playDev
  k1 = k1
  k2 = k2
  p1 = p1
  p2 = p2
  NoConn = NoConn
  NoDevice = NoDevice
  Devices = {ctlDev, playDev}
  Conns = {k1, p1}
  DeviceOf <- TheDeviceOf
  Watchers <- TheWatchers
  EventCap = 1
  MaxFrames = 0
  Faults = {"abandon"}
INVARIANTS
  EndedIsOffline
CHECK_DEADLOCK FALSE
