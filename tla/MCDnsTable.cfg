CONSTANTS
  Domains = {a, b, c, d, e}
  Ips = {i1, i2, i3, i4}
  LowMark = 1
  StaleTime = 1
  MaxTime = 4
  NoEntry = NoEntry
SPECIFICATION TableSpec
SYMMETRY Symmetry
INVARIANTS TablesAgree PopNeverFails
CHECK_DEADLOCK FALSE
