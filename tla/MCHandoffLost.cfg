SPECIFICATION FairSpec
CONSTANTS
  t1 = t1
  t2 = t2
  t3 = t3
  Task = {t1, t2}
  NoTask = NoTask
PROPERTIES
  ReturnsResults
CHECK_DEADLOCK FALSE
