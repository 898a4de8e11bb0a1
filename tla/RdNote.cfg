SPECIFICATION FairSpec
CONSTANTS
  MaxRequests = 2
  MaxTroubles = 2
INVARIANTS DenialIsTrue OutcomeKept
PROPERTIES OutcomeShown
CHECK_DEADLOCK FALSE
