SPECIFICATION Spec
CONSTANTS
  None = None
  Limit = 2
  Age = 2
  MaxPlay = 2
  MaxThird = 9
  MaxFaults = 1
  MaxMoves = 2
INVARIANTS CountsAll
PROPERTIES NothingRefunded
CHECK_DEADLOCK FALSE
