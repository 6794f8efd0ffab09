SPECIFICATION FairSpec
CONSTANTS
  Call = {c1, c2, c3}
  Target = {t1}
  None = None
INVARIANTS
  TypeOK
  SuccessIsTunnelled
  FailureHasACause
PROPERTIES
  EveryCallReturns
  ImplementsLifecycle
CHECK_DEADLOCK FALSE
