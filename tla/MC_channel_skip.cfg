SPECIFICATION Spec
CONSTANTS
  Requests = {1}
  OneWay = {}
  Refused = {}
  OutboxLimit = 1
  QueueSize = 1
  PendingLimit = 1
  Batch = 1
  Window = 1
  Capacity = 2
  MaxEpoch = 2
  MaxNotes = 2
INVARIANTS
  NeverSilentlySkips
\* The session ends: the relay closes or fails and the actor stops.
CHECK_DEADLOCK FALSE
