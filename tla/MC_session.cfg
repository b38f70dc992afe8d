SPECIFICATION Spec
CONSTANTS
  MaxCalls = 3
  MaxReplaced = 1
  Items = {1, 2}
  AnswersFirst = TRUE
  MaxOrders = 2
  MaxOutages = 2
  MaxLost = 1
  MaxPrompts = 2
  MaxConnections = 2
  MaxRebuilds = 1
  Capacity = 2
  OutputCapacity = 2
  IdsRestart = FALSE
  AppWindows = {w1, w2}
  Others = {p}
  MaxOpens = 3
  Users = {w1, w2}
  Callers = {c}
  MaxRevision = 2
  MaxBroken = 2
SYMMETRY Alike
INVARIANTS
  
  NoApprovalLeft
  GoalIsKept
  
  OneOwner
  ConnectionsAgree
\* The bounds on what is asked and lost end every behaviour.
CHECK_DEADLOCK FALSE
