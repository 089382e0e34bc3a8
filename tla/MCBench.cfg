CONSTANTS
    MaxKey = 5
    MaxPriority = 3
    None = None
    Listed <- MCListed
    Optional = {"pch"}
    Files <- MCFiles
    MaxJobs = 2
    MaxClicks = 2
    Sdk <- MCSdk
    Names <- MCNames
    Absent = Absent
    Refused = Refused
    Folder = Folder
    Libraries <- MCLibraries
    Builtins <- MCBuiltins
    ArchSpecific = {"arm_neon.h"}
    KeepAnyway = {"wasm_simd128.h"}
    Library <- MCLibrary
    MaxProblems = 3
    Slug <- MCSlug
    Base = 2
    Missing = Missing
    Blank = {"", " "}
    Tasks = {p1, p2}
    Chars = {"a", "b"}
    Starters <- MCStarters
    NoTask = NoTask
    MaxText = 3
    MaxInserted = 1
    MaxDigests = 2
    MaxEdits = 2
SPECIFICATION FairSpec
INVARIANTS
    TypeOK
    AnswersLikeASet
    ReadyIsTrue
    SysrootRoundTrip
    ArchiveRoundTrip
    NovelMeansNew
PROPERTIES
    BusyEnds
CHECK_DEADLOCK FALSE
