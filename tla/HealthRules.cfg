SPECIFICATION RulesSpec
CONSTANTS
  Templates = {loss, drops}
  Variants = {"custom"}
  Rests = {r1}
  Clicks = {c1, c2}
  Attempts = 2
  MaxVersion = 2
INVARIANTS VersionTracked
PROPERTIES ResetKeepsOthers ResetIsDone ResetEnds
CHECK_DEADLOCK FALSE
