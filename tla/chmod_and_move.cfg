SPECIFICATION Spec
CONSTANTS
    Assets <- MCAssets
    Paths <- MCPaths
    Dirs <- MCDirs
    DirOf <- MCDirOf
    Home <- MCHome
    NoFile = NoFile
    NoPath = NoPath
    NoAsset = NoAsset
    FileBytes = 1
    Privileged = FALSE
    StatRaises = TRUE
    Plans <- MCPlans
    PollEvery = 1
    Alphabet = "chmod_and_move"
    MaxEvents = 2
    MaxAt = 0
    Gaps = {0}
    Durations = {1}
    Num = 1
    Den = 1
    MaxNow = 1
    Faults = {}
INVARIANT
    ModesRestored
