CONSTANTS
  IdSpace = 6
  WindowSize = 2
  MaxPending = 2
  MaxFragments = 2
  MaxIds = 3
  Addrs = {a1}
  Ports = {p1, p2}
  SessionIds = {1, 2}
  Sockets = {s1, s2}
  NoSocket = NoSocket
  MaxSessions = 2
  MaxPerIP = 2
  Devices = {d1}
  Tokens = {k1, k2}
  OneToken = {k1}
  Policies = {q1, q2}
  OnePolicy = {q1}
  Absent = Absent
  Requests = {r1, r2}
  OneRequest = {r1}
  RequestKinds = {"invite", "delete", "patch", "access", "settings", "raw", "edit"}
  Regs = {g1, g2}
  MaxRestarts = 1
SPECIFICATION MCSpec
INVARIANTS WindowRemembers PendingIsUnfinished CountsAreTrue SocketsAreOwned FileRules OncePerToken
PROPERTIES ImplementsPacketChannel StopReleases
CHECK_DEADLOCK FALSE
