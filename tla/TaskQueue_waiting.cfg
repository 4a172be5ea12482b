CONSTANTS
  MaxTasks = 2
  MaxIncidents = 0
  Kinds <- Pairs
SPECIFICATION FairSpec
CHECK_DEADLOCK FALSE
PROPERTY EveryTaskIsTaken
