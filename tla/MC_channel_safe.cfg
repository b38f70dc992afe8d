SPECIFICATION Spec
CONSTANTS
  Requests = {1}
  OneWay = {}
  Refused = {2}
  OutboxLimit = 1
  QueueSize = 1
  PendingLimit = 1
  Batch = 2
  Window = 1
  Capacity = 2
  MaxEpoch = 2
  MaxNotes = 1
INVARIANTS
  ReplayIsSound
  SkippedWasTrimmed
  EvidenceBeforeEffect
  ReceiptedHasRun
PROPERTIES
  KeepsPromise
\* The session ends: the relay closes or fails and the actor stops.
CHECK_DEADLOCK FALSE
