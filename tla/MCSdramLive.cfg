SPECIFICATION FairSpec
CONSTANTS
    ReadPorts <- PortsLive
    Writer = TRUE
    LevelPorts <- LevelLive
    RamClockPorts = {}
    Requests <- MCRequestsLive
    Banks = {0, 1}
    Rows = {0, 1}
    Bytes = {0}
    InitMem <- MCMemReads
    RefPeriod = 26
    InitCycles <- MCInitCycles
    InitCommand <- MCInitCommand
    MaxResets = 0
PROPERTIES
    EveryRequestServed
CHECK_DEADLOCK TRUE
