SPECIFICATION FairSpec
CONSTANTS
  Capacity = 4
  BatchSize = 3
  Attempts = 2
  MaxEvents = 5
INVARIANTS
  CloseLeavesNothing
PROPERTIES
  StoredInOrder
  ExitEnds
CHECK_DEADLOCK FALSE
