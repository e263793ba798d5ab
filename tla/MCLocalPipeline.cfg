SPECIFICATION FairSpec
CONSTANTS
  Size = 3
  Files <- MCFiles
  Attempts = 2
  MaxLate = 1
INVARIANTS
  ReadsWhatWasSaved
PROPERTIES
  ImplementsDag
  Ends
CHECK_DEADLOCK FALSE
