CONSTANTS
  MaxVersion = 4
  MaxCrashes = 3
  TornWrites = TRUE
SPECIFICATION FairSpec
INVARIANTS OpenedClean
PROPERTIES ImplementsLineageStore NewestGetsDeployed
