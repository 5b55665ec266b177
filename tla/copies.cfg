SPECIFICATION Spec
CONSTANTS
    Assets <- MCAssets
    Paths <- MCPaths
    Dirs <- MCDirs
    DirOf <- MCDirOf
    Home <- MCHome
    NoFile = NoFile
    NoPath = NoPath
    NoAsset = NoAsset
    FileBytes = 3
    Privileged = FALSE
    StatRaises = TRUE
    Plans <- MCPlans
    PollEvery = 1
    Alphabet = "copies"
    MaxEvents = 4
    MaxAt = 3
    Gaps = {0, 3}
    Durations = {1, 2, 3}
    Num = 2
    Den = 1
    MaxNow = 4
    Faults = {}
INVARIANTS
    TreeFollowsOracle
    BundleIsAccepted
    ReplayMatchesRun
PROPERTIES
    NeverEarly
    NeverSpins
    SlowCopyGrows
