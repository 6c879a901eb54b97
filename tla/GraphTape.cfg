SPECIFICATION Spec
CONSTANTS
  Prim <- MCPrim
  Array <- MCArray
  Stream = {1, 2}
  Maker <- MCMaker
  StreamOf <- MCStreamOf
  Sync = Sync
  Graphs <- MCGraphs
  Widths = {1, 2, 4}
INVARIANTS
  TapeRight
  LookupHits
PROPERTIES
  TapeEnds
CHECK_DEADLOCK FALSE
