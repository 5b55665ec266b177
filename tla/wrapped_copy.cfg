SPECIFICATION Spec
CONSTANTS
    Assets <- MCAssets
    Paths <- MCPaths
    Dirs <- MCDirs
    DirOf <- MCDirOf
    Home <- MCHome
    NoFile = NoFile
    NoPath = NoPath
    NoAsset = NoAsset
    FileBytes = 2
    Privileged = FALSE
    StatRaises = TRUE
    Plans <- MCPlans
    PollEvery = 1
    Alphabet = "wrapped_copies"
    MaxEvents = 4
    MaxAt = 2
    Gaps = {0, 1}
    Durations = {3}
    Num = 1
    Den = 1
    MaxNow = 3
    Faults = {}
INVARIANT
    AcceptedTimelinesRun
