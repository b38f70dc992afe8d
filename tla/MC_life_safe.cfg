SPECIFICATION Spec
CONSTANTS
  Commands = {c1}
  Mcps = {}
  Queries = {q1}
  ProcessIds = {c1}
  ProcessOf <- OwnProcess
  Grace = 1
  Linger = 2
  QueueSize = 1
  MaxEpoch = 2
  MaxAge = 2
  MaxChanges = 1
  Maintenance = {"update", "shutdown"}
  c1 = c1
  q1 = q1
INVARIANTS
  JobsAgree
  BackgroundSurvives
  RetiredWasIdle
PROPERTIES
  NeverResurrected
  
\* The actor stops for good.
CHECK_DEADLOCK FALSE
