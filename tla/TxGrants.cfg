SPECIFICATION Spec
CONSTANTS
  Adds = {a1}
  Codes = {}
  Buffers = {b1}
  Waives = {w1}
  Requests <- MCRequests
  Kind <- MCKind
  Code <- MCCode
  Enforcer = Enforcer
  Nobody = Nobody
  MaxCrashes = 1
  MaxFaults = 1
  MaxFlips = 1
CHECK_DEADLOCK FALSE
INVARIANTS OkIsGranted
PROPERTIES DisabledGrantsNothing
