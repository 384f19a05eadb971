CONSTANTS
  Conns = {k1, k2}
  Ports = {1}
  Dests = {d1, d2}
  Outcomes = {"ok", "reject", "blackhole", "badcert"}
  Stoppable = {k1}
  PortReuse = "closed"
  None = None
SPECIFICATION FairSpec
INVARIANTS DispatchedToItsDest RepliesRewritten FinishedWithBothHalves
PROPERTIES ServedSessionEvicted
CHECK_DEADLOCK FALSE
