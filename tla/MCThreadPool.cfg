SPECIFICATION PoolFairSpec
CONSTANTS
  t1 = t1
  t2 = t2
  t3 = t3
  Task = {t1, t2, t3}
  NoTask = NoTask
  Threads = 2
  Log <- Messages
INVARIANTS
  RunsInOrder
  ClosedMeansAnswered
PROPERTIES
  WaiterServedByPool
  CallsAreServed
  ThreadsComeBack
CHECK_DEADLOCK FALSE
