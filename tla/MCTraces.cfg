SPECIFICATION Spec
CONSTANTS
    a = a
    b = b
    Domains = {a, b}
    Selections <- BothOrOne
    TimeDomains = {b}
    Lanes = {0, 1, 2}
    LaneMaps <- Contracts
    ActiveLow <- RtlLow
    Bus <- TwoEvents
    MaxEvents = 3
    None = None
INVARIANTS
    VerdictExact
    FirstIsFirst
    FaultsFatal
    ComparedWhole
CHECK_DEADLOCK FALSE
