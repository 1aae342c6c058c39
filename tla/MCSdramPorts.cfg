SPECIFICATION Spec
CONSTANTS
    ReadPorts <- PortsReads
    Writer = FALSE
    LevelPorts <- LevelReads
    RamClockPorts = {2}
    Requests <- MCRequestsReads
    Banks = {0, 1}
    Rows = {0, 1}
    Bytes = {0}
    InitMem <- MCMemReads
    RefPeriod = 36
    InitCycles <- MCInitCycles
    InitCommand <- MCInitCommand
    MaxResets = 0
INVARIANTS
    NoRequestLost
    ServedOnce
    AckAnswersRequest
    RefreshInTime
    WaitBounded
CHECK_DEADLOCK TRUE
