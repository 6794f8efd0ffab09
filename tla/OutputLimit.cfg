SPECIFICATION Spec
CONSTANTS
  Stream <- MCStream
  MaxOutput = 3
  ChunkSize = {1, 2}
  MaxChunks = 4
  ExitCode = {0, 2}
INVARIANTS
  SuccessIsComplete
  OneStreamCapped
CHECK_DEADLOCK FALSE
