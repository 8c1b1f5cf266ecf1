CONSTANTS
  Ids = {1, 2, 3, 4}
  PerMs = 2
  Limit = 2
  Filter = "PENDING"
  AnyStatus = AnyStatus
  From = 0
  To = 3
  NoCursor = NoCursor
  Horizon = 3
SPECIFICATION FairSpec
INVARIANT TypeOK
INVARIANT PagesDescend
INVARIANT SkipsOnlyWithinAMillisecond
PROPERTY ListingEnds
CHECK_DEADLOCK FALSE
