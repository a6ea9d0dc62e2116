SPECIFICATION Spec
CONSTANTS
  Width <- MCWidth
  Unit <- MCUnit
  MaxInt64 = 99
  UpperOf <- MCUpperOf
  LowerOf <- MCLowerOf
  Designs <- DeepDesigns
  Rows <- DeepRows
  Deltas = {1}
  MaxItems = 2
  MaxNumber = 1
  MaxCalls <- DeepCalls
  MaxRuns = 1
  None = None
INVARIANT NothingBelowWhenEmpty
CHECK_DEADLOCK FALSE
