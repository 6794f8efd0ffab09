SPECIFICATION PromptSpec
CONSTANTS
  Call = {c1, c2}
  Target = {t1}
  None = None
  Main = Main
  ZeroTTL = FALSE
  SlowRequests = FALSE
PROPERTY RefreshOutlivesOldTimer
CHECK_DEADLOCK FALSE
