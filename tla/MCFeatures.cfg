SPECIFICATION Spec
CONSTANTS
  Servers <- SomeServers
  Overrides <- SomeOverrides
  Items <- SomeItems
  MaxOpens = 2
  MaxCalls = 2
  MaxMeddles = 1
  MaxDenials = 1
INVARIANTS HeldIsRight AnswersRight UtimeSets
PROPERTY NotAskedAgain
CHECK_DEADLOCK FALSE
