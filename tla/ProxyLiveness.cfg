SPECIFICATION PromptSpec
CONSTANTS
  Call = {c1, c2, c3}
  Target = {t1}
  None = None
  Main = Main
  ZeroTTL = FALSE
  SlowRequests = FALSE
INVARIANTS
  ExpiryPending
  ShutdownTerminates
PROPERTIES
  EveryCallReturns
  DeadTunnelForgotten
  TunnelsExpire
  ImplementsLifecycle
CHECK_DEADLOCK FALSE
