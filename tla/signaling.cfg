CONSTANTS
  Controllers = {c1, c2}
  Targets = {t1}
  NoTarget = NoTarget
  Revocable = {c1, c2}
  MaxSessions = 2
  MaxOthers = 0
  MaxRefreshes = 1
SPECIFICATION Spec
SYMMETRY Symmetry
INVARIANTS NoStaleCredential RefreshFindsItsSession NothingOutlivesItsHandler
CHECK_DEADLOCK FALSE
