CONSTANTS
  Streams = {1, 3}
  OneStream = {1}
  ClientWrites = {1}
  ServerWrites = {}
  Limits = {1, 2}
  AcceptCap = 1
  QueueSize = 1
  StreamQueueSize = 1
  PipeCap = 1
  ShortWrites = 1
  MaxWrites = 3
  Ids = {1, 2}
  Notified = {n1, n2}
  OneNotified = {n1}
  Conns = {c1, c2}
  Addrs = {a1}
  Nobody = Nobody
  MaxConcurrent = 2
  MaxHandshakes = 1
SPECIFICATION MCSpec
INVARIANTS StreamIsFaithful NeverPanics GuardCountsConnections
PROPERTIES WritersReturn SessionEnds RevokedSessionsEnd EverythingEnds
CHECK_DEADLOCK FALSE
