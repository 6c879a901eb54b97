SPECIFICATION Spec
CONSTANTS
  Size = 3
  Links = 2
  MinBuffer = 1
  MaxBuffer = 2
  MinSend = 1
  MinChunk = 1
  Capacity = 2
  Calls <- MCCalls
INVARIANTS
  TwoBuffersSuffice
PROPERTIES
  CollectiveSpec
  SendsStable
  Terminates
CHECK_DEADLOCK FALSE
