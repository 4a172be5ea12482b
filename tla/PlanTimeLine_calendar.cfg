CONSTANTS
  Change = {2, 5}
  SetEvent = {1, 6}
  MinEvent = {3, 8}
  MaxEvent = {}
  MaxDate = 2
  Quantity <- Quantities
  Value = {0, 1}
  BucketsFirst = TRUE
  OpenEnd = FALSE
SPECIFICATION Spec
CHECK_DEADLOCK FALSE
INVARIANTS
  PreviousEventsDeleted
