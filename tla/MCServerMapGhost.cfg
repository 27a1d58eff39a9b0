\* Every key may be re-put: a removed server may still be there.
SPECIFICATION Spec
CONSTANTS
  Keys <- MapKeys
  Drivers <- Renewing
  OwnSlot <- Alone
  Objects = {o1, o2, o3, o4}
  NULL = NULL
  EMPTY = EMPTY
  DELETED = DELETED
  Grow = 3
  MaxSize = 6
PROPERTIES DeletedIsGone
\* No key may be left to add and no object to allocate.
CHECK_DEADLOCK FALSE
