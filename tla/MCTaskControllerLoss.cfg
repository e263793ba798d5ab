SPECIFICATION Spec
CONSTANTS
  LogLength = 2
  Threads = 2
  MaxRuns = 2
  Instance = {1, 2}
  Id = {1, 2}
  IdOf <- MCIdOf
  Absent = Absent
INVARIANTS
  NoTaskLost
CHECK_DEADLOCK FALSE
