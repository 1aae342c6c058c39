SPECIFICATION Spec
CONSTANTS
    Procs = {p1, p2}
    Sources = {sA, sB}
    None = None
    Broken = Broken
    Free = Free
    TimeLimit = TRUE
    Idles = FALSE
    EditsDuring = FALSE
    MaxEdits = 0
    MaxInterrupts = 1
    MaxRuns = 2
INVARIANTS
    NoneLeftBehind
CHECK_DEADLOCK FALSE
