SPECIFICATION FairSpec
CONSTANTS
  Limit = 2
  MaxOutages = 2
  MaxMessages = 2
  Prompt = FALSE
CONSTRAINT FewEvents
INVARIANTS
  OwnerHearsRetry
  OneBudget
  ContinuedOnce
PROPERTIES
  EndedStays
  RecoveryEnds
\* The bounds on outages and messages end every behaviour.
CHECK_DEADLOCK FALSE
