SPECIFICATION Spec
CONSTANTS
    Assets <- MCAssets
    Paths <- MCPaths
    Dirs <- MCDirs
    DirOf <- MCDirOf
    Home <- MCHome
    NoFile = NoFile
    NoPath = NoPath
    NoAsset = NoAsset
    FileBytes = 2
    Privileged = FALSE
    StatRaises = TRUE
    Plans <- MCPlans
    PollEvery = 1
    Alphabet = "lags"
    MaxEvents = 4
    MaxAt = 1
    Gaps = {0, 1}
    Durations = {1, 2}
    Num = 1
    Den = 1
    MaxNow = 2
    Faults = {}
INVARIANT
    NothingWithheld
