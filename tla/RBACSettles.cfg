SPECIFICATION Spec
CONSTANTS
  Caller = {c1, c2, c3}
SYMMETRY Symmetry
INVARIANTS
  KubeconfigIsBacked
  SettledInPlace
  SomeoneSucceeds
CHECK_DEADLOCK FALSE
