CONSTANTS
  Conns = {c1, c2}
  MaxRequests = 3
  SizeLimit = 2
  HeaderNames <- MCHeaderNames
  RunScript <- MCRunScript
  Scenes <- MCScenes
SYMMETRY Symmetry
SPECIFICATION Spec
INVARIANTS RecordedIsWhatPassed BodyIntact UrlRuleHolds
CHECK_DEADLOCK FALSE
