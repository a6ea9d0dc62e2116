SPECIFICATION Spec
CONSTANTS
  Keys = {k1, k2, k3, k4}
  Inputs <- MCInputs
  GetChunk = 3
  WriteChunk = 2
  MaxAttempts = 3
  MaxRounds = 1
  MaxLen = 4
INVARIANT NothingForgotten
CHECK_DEADLOCK FALSE
