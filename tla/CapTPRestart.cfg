SPECIFICATION Spec
CONSTANTS
  MaxSockets = 2
  MaxCalls = 1
  MaxCrashes = 1
INVARIANTS
  PointToPoint
CHECK_DEADLOCK FALSE
