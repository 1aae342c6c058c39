SPECIFICATION Spec
CONSTANTS
    Procs = {p1, p2}
    Sources = {sA, sB}
    None = None
    Broken = Broken
    Free = Free
    TimeLimit = FALSE
    Idles = FALSE
    EditsDuring = FALSE
    MaxEdits = 0
    MaxInterrupts = 0
    MaxRuns = 4
SYMMETRY Executors
PROPERTIES
    CachedIsBuilt
CHECK_DEADLOCK FALSE
