CONSTANTS
  MaxVersion = 3
  MaxCrashes = 1
  TornWrites = TRUE
SPECIFICATION Spec
INVARIANT DeployedIsComplete
