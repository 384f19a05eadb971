CONSTANTS
  Topics = {1, 2}
  Clients = {c1, c2, c3}
  Requests <- MCRequests
  Capacity = 2
  MaxMessages = 4
  Nobody = Nobody
SYMMETRY Symmetry
SPECIFICATION Spec
INVARIANTS OwnerGetsItsMessages
CHECK_DEADLOCK FALSE
