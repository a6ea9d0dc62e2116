SPECIFICATION Spec
CONSTANTS
  Keys = {k1}
  Clients = {c1, c2}
  open = open
  OPEN = OPEN
  paid = paid
  empty = empty
  Vals <- MCOneVal
  IndexKeys <- MCIndexKeys
  IndexKey <- MCOneIndexKey
  None = None
  Calls = {"Get", "Put", "PutIfNotExists", "Update"}
  Legacy = FALSE
  MaxSends = 2
SYMMETRY Symmetry
PROPERTIES ImplementsConditionalStore
CHECK_DEADLOCK FALSE
