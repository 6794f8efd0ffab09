SPECIFICATION ProviderSpec
CONSTANTS
  Namespace = {blue}
  Cluster <- PlainClusters
  Request = {r1, r2}
  SshuttleHost = TRUE
  TTL = 1
  MaxFlight = 1
  MaxRevision = 1
  MaxTime = 6
SYMMETRY Symmetry
PROPERTY EmbeddedIsTunnelled
CHECK_DEADLOCK FALSE
