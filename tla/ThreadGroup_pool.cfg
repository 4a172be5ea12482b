CONSTANTS
  Cores = 3
  MaxCallables = 4
  Platforms = {"pthread", "windows"}
  CreateMayFail = TRUE
  WaitMayFail = TRUE
SPECIFICATION FairSpec
INVARIANTS
  AtMostOnce
  ReturnedMeansDone
  PythonStateReleased
  PoolInv
  GroupOutlivesThreads
PROPERTY Terminates
CHECK_DEADLOCK FALSE
