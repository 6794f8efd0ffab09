SPECIFICATION SelectionSpec
CONSTANTS
  Segment <- MCSegment
  Empty = ""
  Requests <- MCRequests
  Listings <- MCListings
  Sources <- MCSources
  Universe <- MCUniverse
  Fickle <- MCFickle
  TTL = 1
  MaxFlight = 1
  MaxFills = 1
  MaxTime = 3
INVARIANT OmittedMeansEveryCluster
CHECK_DEADLOCK FALSE
