SPECIFICATION ToolsSpec
CONSTANTS
    Procs = {p1, p2}
    v1 = v1
    v2 = v2
    Versions = {v1, v2}
    Agrees <- SomeAgree
    None = None
    Noise = Noise
    Torn = Torn
    Flaky = TRUE
    EditsDuring = FALSE
    MaxEdits = 1
    MaxCrashes = 1
    Configs <- SomeConfigs
    DonorSets <- SomeDonors
    Mras <- SomeMras
    OldReports <- OldOnes
    NewReports <- NewOnes
    Scenarios = 2
    Processes = {q1, q2}
    Nobody = Nobody
    SizeOf <- SomeSize
    MaxReplaced = 1
    Fetchers = {1, 2}
    LabelOf <- SomeLabels
    Absent = Absent
    MaxCommits = 2
    NoShot = NoShot
    Storage = 5
    Wide = 5
    Narrow = 4
    Height = 3
    Entries = 4
    Texels <- ROM
    WordPixels = 3
    EndCode = 3
    Hidden = {"hidden"}
    First <- Families
    Rewrites <- Few
    Settings <- SomeSettings
    Sets <- SomeSets
    Media <- SomeMedia
    Games = {"game", "patched", "short", "ignoredparent"}
    IgnoredSets = {"ignored"}
    IgnoredParents = {"ignoredparent"}
    Unsupported = {"other"}
    Stream <- MCStream
    Slot <- MCSlot
    SpriteSizes = {8, 16}
    Patches <- MCPatches
    Bad = Bad
    Inputs <- SomeInputs
    Byte = 4
    BitAnd <- AndOf
    BitOr <- OrOf
    BitXor <- XorOf
    Registers = {"r0", "r1", "sp"}
    SP = "sp"
    Size = 128
    Programs <- SomePrograms
    Values = {0, 1, 127, 128, 255}
    Scratch = 112
    MaxCalls = 3
SYMMETRY Alike
INVARIANTS
    VerdictTrue
    ReleaseEarned
    CachedIdentityTrue
    RecordedAsFetched
    DrawnAsDefined
    ReplayFaithful
    VerdictRight
    ImagesAsDeclared
    MixedAsRanked
    ResultsExact
PROPERTIES
    ResumeTrue
    ReturnsHome
CHECK_DEADLOCK FALSE
