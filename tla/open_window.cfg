SPECIFICATION Spec
CONSTANTS
    Assets <- MCAssets
    Paths <- MCPaths
    Dirs <- MCDirs
    DirOf <- MCDirOf
    Home <- MCHome
    NoFile = NoFile
    NoPath = NoPath
    NoAsset = NoAsset
    FileBytes = 1
    Privileged = FALSE
    StatRaises = TRUE
    Plans <- MCPlans
    PollEvery = 1
    Alphabet = "chaos"
    MaxEvents = 2
    MaxAt = 1
    Gaps = {0, 1}
    Durations = {1}
    Num = 1
    Den = 1
    MaxNow = 1
    Faults = {}
INVARIANT
    BundleIsAccepted
