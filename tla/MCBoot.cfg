CONSTANTS
  Conns = {c1, c2, c3}
  N = 2
  CleanupLen = 1
  None = None
  KissConns = {k1, k2, k3}
  KissMax = 2
  NoConn = NoConn
  RouterSizes = {4, 5}
SPECIFICATION OneKindSpec
INVARIANTS Served FramesHome OneHolder LossBounded GoneOnlyInCleanup
INVARIANTS PortsOwned RoomForAll
PROPERTY CleanedUp
CHECK_DEADLOCK FALSE
