CONSTANTS
  Devices = {d1}
  Conns = {c1, c2}
  Admins = {a1}
  FirstPort = 1
  LastPort = 1
  CanDelete = FALSE
  NoConn = NoConn
  NoDevice = NoDevice
SPECIFICATION Spec
INVARIANT OnlineHasPeer
CHECK_DEADLOCK FALSE
