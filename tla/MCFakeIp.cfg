CONSTANTS
  Domains = {a, b, c, d}
  Ips = {i1, i2, i3}
  LowMark = 2
  StaleTime = 1
  MaxTime = 3
  NoEntry = NoEntry
SPECIFICATION TableSpec
SYMMETRY Symmetry
PROPERTIES ExpiredEvictedFirst
CHECK_DEADLOCK FALSE
