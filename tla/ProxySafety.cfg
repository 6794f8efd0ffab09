SPECIFICATION Spec
CONSTANTS
  Call = {c1, c2, c3}
  Target = {t1, t2}
  None = None
  Main = Main
  ZeroTTL = TRUE
  SlowRequests = TRUE
SYMMETRY Symmetry
INVARIANTS
  TypeOK
  NoStrayTunnel
  OneTunnelPerTarget
CHECK_DEADLOCK FALSE
