CONSTANTS
  Controllers = {c1}
  Targets = {t1, t2}
  NoTarget = NoTarget
  Revocable = {}
  MaxSessions = 1
  MaxOthers = 1
  MaxRefreshes = 0
SPECIFICATION FairSpec
INVARIANTS TypeOK CredentialIsKnown
PROPERTIES ControllerLearns ControllerIsAnswered GoneMeansRevoked
CHECK_DEADLOCK FALSE
