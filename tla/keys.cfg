SPECIFICATION Spec
CONSTANTS
  Width <- MCWidth
  Unit <- MCUnit
  MaxInt64 = 99
  UpperOf <- MCUpperOf
  LowerOf <- MCLowerOf
  Designs <- KeysDesigns
  Rows <- KeysRows
  Deltas = {1}
  MaxItems = 2
  MaxNumber = 1
  MaxCalls <- KeysCalls
  MaxRuns = 2
  None = None
INVARIANTS TypeOK AcceptedBuilds KeysInSync EntitiesApart PatternsExact RangesExact StringsTellKeys EngineAgrees
PROPERTY RunIsAllOrNothing
CHECK_DEADLOCK FALSE
