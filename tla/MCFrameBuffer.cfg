SPECIFICATION FairSpec
CONSTANTS
    Words = 3
    Lanes = 1
    Visible = 2
    MaxWork = 3
INVARIANTS
    BufferAsDrawn
    NoTear
PROPERTIES
    EveryCommandEnds
