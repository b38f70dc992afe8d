SPECIFICATION Spec
CONSTANTS
  MaxTexts = 4
  MaxSaves = 2
  MaxReads = 1
  MaxMoves = 1
  MaxUploads = 1
  Capacity = 2
  Slots = {"action"}
  MaxTurns = 2
  MaxActions = 1
  MaxEdits = 1
  Works = {w1, w2}
  Saved = {s}
  Home = w1
  NoWork = none
  MaxChoices = 3
  MaxTyped = 3
INVARIANTS
  EditsAreSafe
  ChatConverges
  
PROPERTIES
  LastChoiceWins
\* The bounds on what the user does end every behaviour.
CHECK_DEADLOCK FALSE
