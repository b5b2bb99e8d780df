SPECIFICATION Spec
CONSTANTS
  MaxBuild = 3
  NULL = NULL
INVARIANTS RefusedForInstall
CHECK_DEADLOCK FALSE
