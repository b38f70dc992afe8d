SPECIFICATION Spec
CONSTANTS
  Limit = 1
  MaxOutages = 2
  MaxMessages = 2
  Prompt = TRUE
PROPERTIES
  ReplacedStays
\* The bounds on outages and messages end every behaviour.
CHECK_DEADLOCK FALSE
