SPECIFICATION FairSpec
CONSTANTS
    Procs = {p1, p2}
    Sources = {sA, sB}
    None = None
    Broken = Broken
    Free = Free
    TimeLimit = TRUE
    Idles = TRUE
    EditsDuring = FALSE
    MaxEdits = 1
    MaxInterrupts = 2
    MaxRuns = 3

INVARIANTS
    HeavyExclusive
    NoOrphan
CHECK_DEADLOCK FALSE
PROPERTIES
    EveryRunEnds
