SPECIFICATION FairSpec
CONSTANTS
  Commands = {c1}
  Mcps = {m1}
  Queries = {}
  ProcessIds = {c1, m1}
  ProcessOf <- OwnProcess
  Grace = 1
  Linger = 1
  QueueSize = 1
  MaxEpoch = 1
  MaxAge = 1
  MaxChanges = 0
  Maintenance = {}
  c1 = c1
  m1 = m1
PROPERTIES
  NothingLingers
\* The bounds on outages and messages end every behaviour.
CHECK_DEADLOCK FALSE
