SPECIFICATION Spec
CONSTANTS
  None = None
  Natives <- TwoNatives
  MaxFaults = 2
  MaxMoves = 1
INVARIANTS RestoredIsOriginal FailedReleaseIsUndone TodayIsKept
PROPERTIES OriginalIsKept
CHECK_DEADLOCK FALSE
