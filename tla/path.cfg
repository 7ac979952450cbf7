SPECIFICATION FairSpec
INVARIANTS TypeOK SocketHasAnOwner PathMatchesPunch
PROPERTIES DirectUDPIsKept PathsAreDecided NoLostWakeup SenderReturns
