SPECIFICATION FairSpec
CONSTANTS
  MaxTargets = 3
  DiskFull = TRUE
  Stoppable = TRUE
INVARIANTS
  TypeOK
  AnswerIsComplete
  AnswerTellsFailure
  FilesAreOfRunningCommands
  ReadonlyStaysReadonly
PROPERTY CallIsAnswered
CHECK_DEADLOCK FALSE
