SPECIFICATION LiveSpec
CONSTANTS
  ctlDev = ctlDev
  playDev = playDev
  k1 = k1
  k2 = k2
  p1 = p1
  p2 = p2
  NoConn = NoConn
  NoDevice = NoDevice
  Devices = {ctlDev, playDev}
  Conns = {k1, p1, p2}
  DeviceOf <- TheDeviceOf
  Watchers <- TheWatchers
  EventCap = 2
  MaxFrames = 1
  Faults = {"abandon", "restart"}
INVARIANTS
  DirectoryUpToDate
PROPERTIES
  SupersededSessionEnds
  ControllerCatchesUp
CHECK_DEADLOCK FALSE
