SPECIFICATION Spec
CONSTANTS
  Client = {c1, c2}
  Task = {t1, t2}
  MaxTasks = 3
INVARIANTS
  TypeOK
  NoLostWakeup
PROPERTIES
  AllAcceptedRun
  DestructorReturns
  QueueSpec
CHECK_DEADLOCK FALSE
