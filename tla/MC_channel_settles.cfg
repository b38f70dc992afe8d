SPECIFICATION FairSpec
CONSTANTS
  Requests = {1}
  OneWay = {2}
  Refused = {}
  OutboxLimit = 1
  QueueSize = 1
  PendingLimit = 1
  Batch = 1
  Window = 1
  Capacity = 9
  MaxEpoch = 2
  MaxNotes = 0
PROPERTIES
  EverySubmissionSettles
\* The session ends: the relay closes or fails and the actor stops.
CHECK_DEADLOCK FALSE
