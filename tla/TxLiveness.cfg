SPECIFICATION FairSpec
CONSTANTS
  Adds = {}
  Codes = {}
  Buffers = {}
  Waives = {w1}
  Requests <- MCRequests
  Kind <- MCKind
  Code <- MCCode
  Enforcer = Enforcer
  Nobody = Nobody
  MaxCrashes = 1
  MaxFaults = 1
  MaxFlips = 2
CHECK_DEADLOCK FALSE
PROPERTIES InboxDrains ConfirmationEnds
