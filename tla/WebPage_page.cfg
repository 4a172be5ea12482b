CONSTANTS
  Key = {1, 2, 3, 4, 5, 6}
  PageSize = 2
  Records = 3
  GridUrl = "grid"
  OtherUrl = "other"
  Chapters <- ShortTour
  MaxPosts = 2
  Visits <- Mixed
SPECIFICATION FairSpec
CHECK_DEADLOCK FALSE
INVARIANTS
  CarefulInv
  UnsavedIsGuarded
  ShownIsExpected
PROPERTIES
  StoresWhatWasTyped
  AutoplayAdvances
