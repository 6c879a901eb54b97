SPECIFICATION Spec
CONSTANTS
  Client = {c1, c2}
  Stream = {s1, s2}
  MaxOps = 3
INVARIANTS
  StreamOrder
  Consistent
PROPERTIES
  SynchronizeWaits
  WaitersReturn
CHECK_DEADLOCK FALSE
