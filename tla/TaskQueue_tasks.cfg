CONSTANTS
  MaxTasks = 2
  MaxIncidents = 1
  Kinds <- Pairs
SPECIFICATION FairSpec
CHECK_DEADLOCK FALSE
INVARIANTS
  TypeOK
  DoneIsComplete
PROPERTIES
  ResultStands
  EveryRunEnds
  BusyWorkerDrains
