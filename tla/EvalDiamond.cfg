SPECIFICATION Spec
CONSTANTS
  s1 = s1
  s2 = s2
  Sync = Sync
  Stream = {s1, s2}
  Prim <- DiamondPrim
  Array <- DiamondArray
  Ins <- DiamondIns
  Outs <- DiamondOuts
  StreamOf <- DiamondStreamOf
  Requests <- DiamondRequests
  DispatchesPerTask = 2
  MaxActive = 1
  MaxCalls = 2
INVARIANTS
  InputsReady
  AvailableIsComputed
  IInv
PROPERTIES
  DataflowSpec
  CallsReturn
  StreamsDrain
CHECK_DEADLOCK FALSE
