CONSTANTS
  Devices = {d1, d2}
  Conns = {c1, c2}
  Admins = {}
  FirstPort = 1
  LastPort = 2
  CanDelete = FALSE
  NoConn = NoConn
  NoDevice = NoDevice
SPECIFICATION FairSpec
INVARIANTS PortMapsInverse PersistedPortsDistinct OnlinePortsAgree
PROPERTIES StablePort LossIsCleanedUp
CHECK_DEADLOCK FALSE
