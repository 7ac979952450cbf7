CONSTANTS
  Devices = {d1, d2}
  Conns = {c1, c2}
  Admins = {a1}
  FirstPort = 1
  LastPort = 1
  CanDelete = TRUE
  NoConn = NoConn
  NoDevice = NoDevice
SPECIFICATION Spec
SYMMETRY Symmetry
INVARIANTS TypeOK NoGhosts ListenersHaveAnOwner
PROPERTY OnlyOwnEntryRemoved
CHECK_DEADLOCK FALSE
