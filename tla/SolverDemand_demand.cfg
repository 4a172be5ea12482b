CONSTANTS
  d1 = d1
  d2 = d2
  Demand = {d1, d2}
  Times = 1
  Settings <- Solvers
SPECIFICATION FairSpec
INVARIANTS
  TypeOK
  AnswerIsPlanned
  NeverOverplanned
  RemainderIsShippable
  NothingLeftPending
PROPERTIES
  UncommittedIsUndone
  SolveReturns
