SPECIFICATION FairSpec
CONSTANTS
  t1 = t1
  t2 = t2
  c1 = c1
  c2 = c2
  TaskList <- MCTaskList
  Classes <- MCClasses
  ClassOf <- MCClassOf
  Delays = {0, 2}
  WaitDelay <- MCWaitDelay
  Timeout = 1
  TickModulus = 9
  MaxLag = 1
INVARIANTS
  TypeOK
  NotPassedOver
  TimeoutNotLate
PROPERTIES
  NeverEarly
  TimeoutNotEarly
  TasksFinish
