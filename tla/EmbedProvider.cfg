SPECIFICATION ProviderSpec
CONSTANTS
  Namespace = {blue, green}
  Cluster <- PlainClusters
  Request = {r1, r2}
  SshuttleHost = TRUE
  TTL = 1
  MaxFlight = 1
  MaxRevision = 2
  MaxTime = 4
SYMMETRY Symmetry
INVARIANTS
  ProviderTypeOK
  OwnKubeconfig
  NeverLongStale
  TunnelOutlastsKubeconfig
  ClosedIsTunnelled
  ManagersAreOwn
PROPERTY BornFresh
CHECK_DEADLOCK FALSE
