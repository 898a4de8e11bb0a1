SPECIFICATION LiveSpec
CONSTANTS Samples = 2
 MaxAttempts = 2
 MaxQuiet = 2
 MaxTxns = 2
 MaxProcesses = 6
 MaxFaults = 2
 MaxCuts = 1
CHECK_DEADLOCK FALSE
INVARIANTS OneService DisabledIsRecoverable Settled LeavingIsRecorded
PROPERTIES HandoffEnds FlagReturns ServiceReturns
