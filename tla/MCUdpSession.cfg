CONSTANTS
  Srcs = {s1}
  Port <- MCPort
  Policy <- MCPolicy
  Sessions = {11, 12}
  ChanCap = 1
  None = None
SPECIFICATION FairSpec
INVARIANTS RejectedNeverRelayed LiveSessionIsMapped LiveProbeIsRecorded
PROPERTIES SessionEnds LoopReturns
