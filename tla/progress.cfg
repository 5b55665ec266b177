SPECIFICATION FairSpec
CONSTANTS
    Assets <- MCAssets
    Paths <- MCPaths
    Dirs <- MCDirs
    DirOf <- MCDirOf
    Home <- MCHome
    NoFile = NoFile
    NoPath = NoPath
    NoAsset = NoAsset
    FileBytes = 2
    Privileged = FALSE
    StatRaises = TRUE
    Plans <- MCPlans
    PollEvery = 1
    Alphabet = "progress"
    MaxEvents = 4
    MaxAt = 2
    Gaps = {0, 1}
    Durations = {1, 2}
    Num = 1
    Den = 2
    MaxNow = 4
    Faults = {"publish", "tool", "append", "write"}
PROPERTIES
    Ends
    WindowsClose
    DirectorySpec
