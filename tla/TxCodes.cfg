SPECIFICATION Spec
CONSTANTS
  Adds = {}
  Codes = {c1, c2}
  Buffers = {}
  Waives = {}
  Requests <- MCRequests
  Kind <- MCKind
  Code <- MCCode
  Enforcer = Enforcer
  Nobody = Nobody
  MaxCrashes = 1
  MaxFaults = 2
  MaxFlips = 1
CHECK_DEADLOCK FALSE
INVARIANTS WholeGrants OwnJournalOnly FailedIsUnconsumed BootResolvesJournal
PROPERTIES GrantsAreBooked
SYMMETRY Symmetry
