CONSTANTS
  Streams = {1}
  ClientWrites = {1}
  ServerWrites = {}
  Limits = {1}
  AcceptCap = 1
  StreamQueueSize = 1
  PipeCap = 1
  MaxWrites = 1
SPECIFICATION MuxSpec
INVARIANT EndMeansAllRead
CHECK_DEADLOCK FALSE
