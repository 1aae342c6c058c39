SPECIFICATION Spec
CONSTANTS
    ReadPorts <- PortsMem
    Writer = TRUE
    LevelPorts <- LevelMem
    RamClockPorts = {}
    Requests <- MCRequestsMem
    Banks = {0, 1}
    Rows = {0, 1}
    Bytes = {0,1,2,3}
    InitMem <- MCMemData
    RefPeriod = 24
    InitCycles <- MCInitCycles
    InitCommand <- MCInitCommand
    MaxResets = 1
INVARIANTS
    CommandsLegal
PROPERTIES
    ImplementsMemory
CHECK_DEADLOCK TRUE
