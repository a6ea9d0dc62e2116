SPECIFICATION Spec
CONSTANTS
  Items <- MCItems
  Places <- MCPlaces
  Own = {1, 3}
  Known = {1, 3}
  Malformed <- MCMalformed
  First = 2
  Last = 3
  Limits = {0, 1}
INVARIANTS TypeOK StableItemsOnce NothingElse InOrder
PROPERTIES QueryAdvances Ends
CHECK_DEADLOCK FALSE
