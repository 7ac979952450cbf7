CONSTANTS
  Controllers = {c1}
  Targets = {t1, t2}
  NoTarget = NoTarget
  Revocable = {}
  MaxSessions = 1
  MaxOthers = 0
  MaxRefreshes = 1
SPECIFICATION Spec
INVARIANT PortAssignComesFirst
CHECK_DEADLOCK FALSE
