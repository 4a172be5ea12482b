CONSTANTS
  Cores = 3
  MaxCallables = 4
  Platforms = {"pthread", "windows"}
  CreateMayFail = FALSE
  WaitMayFail = FALSE
SPECIFICATION Spec
INVARIANT CallablesHavePython
CHECK_DEADLOCK FALSE
