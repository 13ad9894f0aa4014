SPECIFICATION Spec
CONSTANTS
  MaxAttempts = 2
  MaxLog = 5
INVARIANTS GoneIsGone GoneNotShown
PROPERTIES DeletionEnds SettlesOnStored
CHECK_DEADLOCK FALSE
