SPECIFICATION Spec
CONSTANTS
  Conns = {"a", "b"}
  Ports = {1, 2}
  Handles = {1, 2}
  None = None
  TCP_SND_BUF_INIT = 1
  TCP_REV_BUF_INIT = 1
  TCP_RCV_BUF_MAX = 3
  MULTI_GROW_THRESHOLD = 2
  LINEAR_GROW_STEP = 1
  RECENCY_THRESHOLD = 0
  Endpoints = {1, 2}
  PortOf <- MCPortOf
  Scenes <- MCScenes
INVARIANTS HandlesOwned StreamIntact RecvBufBounded
PROPERTIES ClosedIsReaped StoppedFreesConns
CHECK_DEADLOCK FALSE
