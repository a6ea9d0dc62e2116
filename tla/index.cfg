SPECIFICATION Spec
CONSTANTS
  Keys = {k1}
  Clients = {c1, c2}
  open = open
  OPEN = OPEN
  paid = paid
  empty = empty
  Vals <- MCVals
  IndexKeys <- MCIndexKeys
  IndexKey <- MCIndexKey
  None = None
  Calls = {"Get", "Put", "PutIfNotExists", "Delete", "Update", "BatchPut", "TransactPut", "TransactDelete"}
  Legacy = TRUE
  MaxSends = 1
SYMMETRY Symmetry
INVARIANTS TypeOK IndexInSync
CHECK_DEADLOCK FALSE
