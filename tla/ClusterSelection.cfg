SPECIFICATION SelectionSpec
CONSTANTS
  Segment <- MCSegment
  Empty = ""
  Requests <- MCRequests
  Listings <- MCListings
  Sources <- MCSources
  Universe <- MCUniverse
  Fickle <- MCFickle
  TTL = 1
  MaxFlight = 1
  MaxFills = 1
  MaxTime = 3
INVARIANTS
  SelectionTypeOK
  ResolvesExactly
  FirstSeenOrder
  NeverWidens
  ListingIsRecent
  ListAgrees
  ChangesOnlyWhatIsNamed
  EmbeddedSelectsUsable
CHECK_DEADLOCK FALSE
