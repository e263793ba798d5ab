SPECIFICATION FairSpec
CONSTANTS
  LogLength = 3
  Threads = 2
  MaxRuns = 2
  Instance = {1, 2}
  Id = {1, 2}
  IdOf <- MCIdOf
  Absent = Absent
INVARIANTS
  CancelIsRecognised
  NoneDropped
  SecondAnswerIsCancel
PROPERTIES
  RestartLosesOvertaken
  CanceledSettles
CHECK_DEADLOCK FALSE
