SPECIFICATION SpecF
CONSTANTS
  s1 = s1
  s2 = s2
  Sync = Sync
  Stream = {s1, s2}
  Prim <- DiamondPrim
  Array <- DiamondArray
  Ins <- DiamondIns
  Outs <- DiamondOuts
  StreamOf <- DiamondStreamOf
  Requests <- DiamondRequests
  DispatchesPerTask = 2
  MaxActive = 1
  MaxCalls = 2
INVARIANTS
  ScheduledClosed
CHECK_DEADLOCK FALSE
