SPECIFICATION Spec
CONSTANTS
    Configs <- SomeConfigs
    Donors <- SomeDonors
    Mras <- SomeMras
    OldReports <- Left
    NewReports <- Corners
    Scenarios = 2
    MaxEdits = 1
    None = None
INVARIANTS
    TimingMet
CHECK_DEADLOCK FALSE
