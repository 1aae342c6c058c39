SPECIFICATION Spec
CONSTANTS
    IoClocks = 3
    MaxConfigs = 3
INVARIANTS
    EventsKept
