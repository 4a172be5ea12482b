CONSTANTS
  d1 = d1
  d2 = d2
  Demand = {d1}
  Times = 1
  Settings <- FailingReplan
SPECIFICATION Spec
PROPERTIES
  FailureIsUndone
