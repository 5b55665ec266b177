SPECIFICATION Spec
CONSTANTS
    Assets <- MCAssets
    Paths <- MCPaths
    Dirs <- MCDirs
    DirOf <- MCDirOf
    Home <- MCHome
    NoFile = NoFile
    NoPath = NoPath
    NoAsset = NoAsset
    FileBytes = 2
    Privileged = FALSE
    StatRaises = TRUE
    Plans <- MCPlans
    PollEvery = 1
    Alphabet = "lags"
    MaxEvents = 4
    MaxAt = 2
    Gaps = {0, 1, 2}
    Durations = {1, 3}
    Num = 1
    Den = 1
    MaxNow = 4
    Faults = {}
INVARIANTS
    TypeOK
    TreeFollowsOracle
    OverrunIsReal
    AcceptedTimelinesRun
    ReplayMatchesRun
PROPERTIES
    LateOnlyToCloseWindows
