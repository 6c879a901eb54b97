SPECIFICATION Spec
CONSTANTS
  Modes = {"enabled", "no_simplify", "no_fuse"}
  Passes = 3
  ManyParents = 3
  MaxDepth = 3
  MaxArrays = 3
  Families <- MCFamilies
  Graphs <- MCGraphs
  Returns <- MCReturns
PROPERTY
  SameResult
INVARIANTS
  ParentsKnown
  ComputedOnce
CHECK_DEADLOCK FALSE

