SPECIFICATION FairSpec
CONSTANTS
  None = None
  Natives <- OneNative
  MaxFaults = 1
  MaxMoves = 1
PROPERTIES TakesOver
CHECK_DEADLOCK FALSE
