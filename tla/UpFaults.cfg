SPECIFICATION FairSpec
CONSTANTS
  Count = 4
  Added = {2}
  Updates = 2
  None = None
  Torn = Torn
  TornWrites = TRUE
  MaxFaults = 2
CHECK_DEADLOCK FALSE
INVARIANTS MixedIsBlocked FinishedIsWhole
PROPERTIES SwitchesReleases RecoveryEndsOrRefused
