SPECIFICATION FairSpec
CONSTANTS
    RomWords = {r0}
    WaveWords = 2
    Cleared = 0
    None = None
    NoWord = None
    Data = {0, 1}
    MaxWords = 4
    MaxTransfers = 3
    MaxPllLosses = 1
    Lines <- TwoTags
    MaxGames = 2
    MaxAhead = 2
    MaxCopied = 1
    Pulsed = {2}
    LaneMax = 1
    Period0 = 3
    Width0 = 12
    Ticks1 = 2
    Step1 = 3
    Mod1 = 8
    Unwritten = Unwritten
    MaxArms = 3
    IoClocks = 3
    MaxConfigs = 3
    Last = 1
    Positions = 3
    LoopStart <- LoopAtOne
    SlotClocks = 7
    WriteClocks = {5, 6}
    MaxWrites = 3
INVARIANTS
    NoWriteLost
    AnswersOwn
    PendingExact
    NoSpurious
    StoppedRests
PROPERTIES
    ReleasedWhenLoaded
    DownloadEnds
    EveryReadAnswered
    SampleComplete
