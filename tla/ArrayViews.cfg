CONSTANTS
    InnerDims = 1
    Shapes <- MCShapes
    Targets <- MCTargets
    Ranges <- MCRanges
    Windows <- MCWindows
    MaxOps = 3
    MaxSize = 8
SPECIFICATION Spec
PROPERTIES ElementsKept FlagsTrue
