CONSTANTS
  Ids = {1, 2, 3}
  PerMs = 2
  Limit = 1
  Filter = AnyStatus
  AnyStatus = AnyStatus
  From = 0
  To = 3
  NoCursor = NoCursor
  Horizon = 3
SPECIFICATION Spec
INVARIANT NothingSkipped
CHECK_DEADLOCK FALSE
