CONSTANTS
    Arrays = {a1, a2}
    Buffers = {b1, b2, b3}
    None = None
    MaxBufferOps = 1
    MaxPending = 4
    MaxInFlight = 3
SYMMETRY MCSymmetry
SPECIFICATION Spec
INVARIANTS RunsInOrder FreeIsIdle TableIsCurrent SomeMayRun
CHECK_DEADLOCK FALSE
