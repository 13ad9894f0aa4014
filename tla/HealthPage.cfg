SPECIFICATION Spec
CONSTANTS
  Upper = 4
  Unit = 12
  Rules <- MCRules
  Recordings <- MCRecordings
  Worlds <- MCWorlds
  MaxFlights = 1
  MaxFailures = 1
INVARIANTS TabsInv EmptyWhileFetching ScoresAddUp
PROPERTIES CatchesUp
CHECK_DEADLOCK FALSE
