SPECIFICATION Spec
CONSTANTS
  Length = 2
  MaxTokens = 2
  MaxEdits = 2
  MaxFaults = 2
INVARIANTS
  UploadIsWhole
  NoStageIsLeft
PROPERTIES
  
  RunEnds
\* A transfer that is finished does nothing more.
CHECK_DEADLOCK FALSE
