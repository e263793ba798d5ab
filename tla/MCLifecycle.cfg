SPECIFICATION FairSpec
CONSTANTS
  c1 = c1
  c2 = c2
  Controller = {c1, c2}
  Task = {"task 1", "task 2"}
  Thread = {"main", "io", "worker"}
INVARIANTS
  ControllersStop
  ReportIsComplete
PROPERTIES
  ShutdownEnds
  NoHalfService
  LogReturns
CHECK_DEADLOCK FALSE
