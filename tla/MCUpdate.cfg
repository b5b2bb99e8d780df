SPECIFICATION FairSpec
CONSTANTS
  MaxBuild = 4
  NULL = NULL
INVARIANTS TypeOK NoPartialBoot MarkerIsTrue
PROPERTIES SetupIsSafe 
CHECK_DEADLOCK FALSE
