CONSTANTS
  Conns = {k1, k2, k3}
  Limits = {0, 1}
  Grace = 1
  NoConn = NoConn
SPECIFICATION Spec
SYMMETRY Symmetry
INVARIANTS RecordedOnce ReapedOnlyWhenDone ReapPending SnapshotComplete
CHECK_DEADLOCK FALSE
