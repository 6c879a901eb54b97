CONSTANTS
    InnerDims = 1
    Shapes <- MCShapes
    Targets = {}
    Ranges <- MCRanges
    Windows <- MCWindows
    MaxOps = 3
    MaxSize = 8
SPECIFICATION Spec
INVARIANT Denotes
