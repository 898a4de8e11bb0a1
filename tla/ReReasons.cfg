SPECIFICATION FairSpec
CONSTANTS
  None = None
  Last = 5
  Day <- ThreeDays
  Window <- TwoNights
  MaxFaults = 2
  MaxMoves = 2
INVARIANTS SnapshotsSound
PROPERTIES NeverReopens RefusedChangesNothing TargetEnforced
CHECK_DEADLOCK FALSE
