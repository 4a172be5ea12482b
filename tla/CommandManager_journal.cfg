CONSTANTS
  OperationPlan = {x1, x2}
  SizeMaximum = 3
  Consolidate = TRUE
  MaxBookmarks = 2
  MaxCommands = 2
SPECIFICATION Spec
SYMMETRY OperationPlanSymmetry
INVARIANTS
  PendingInv
  RevertIsExact
  Chained
  NothingPending
PROPERTIES
  CommitKeepsTotal
  ImplementsJournal
