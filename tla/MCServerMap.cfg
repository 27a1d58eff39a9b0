\* A program that re-puts one key of its own, and one that re-puts every key.
SPECIFICATION Spec
CONSTANTS
  Keys <- MapKeys
  Drivers <- Both
  OwnSlot <- Alone
  Objects = {o1, o2, o3, o4}
  NULL = NULL
  EMPTY = EMPTY
  DELETED = DELETED
  Grow = 3
  MaxSize = 6
INVARIANTS TypeOK CountExact Reachable NoDangling
PROPERTIES IsDictionary
\* No key may be left to add and no object to allocate.
CHECK_DEADLOCK FALSE
