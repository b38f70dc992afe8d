SPECIFICATION Spec
CONSTANTS
  Ensures = {"e1", "e2"}
  Build <- MCBuild
  FirstBuild = "old"
  MaxServices = 3
  Channels = {"c1"}
  Transfers = {"t1"}
  Configs = {"k1", "k2"}
  Revision <- MCRevision
  MaxCrashes = 1
INVARIANTS
  QuietWhileReplaced
  ServingIsReached
  PublishedIsStored
PROPERTIES
  UpdateEnds
\* The bounds on services and calls end every behaviour.
CHECK_DEADLOCK FALSE
