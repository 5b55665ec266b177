SPECIFICATION OutputsSpec
CONSTANTS
    Units = 3
    Boundary <- MCBoundary
    Reports = {"r1", "r2"}
    MaxInterrupts = 3
    Commands = {1, 2}
    Rows = 2
    MaxKills = 2
    NoDir = NoDir
    Batches = {1, 2}
    Imports = {3, 4}
    Names = {"s1", "s2", "s3", "s4", "s5"}
    Digests <- MCDigests
    Targets <- MCTargets
    Inputs <- MCInputs
    OutOf <- MCOutOf
    MaxStops = 1
CHECK_DEADLOCK FALSE
INVARIANTS
    TypeOK
    JournalNeverAhead
    BundleReplays
    StepLeavesWhole
    OneAuthor
    SealedIsCoherent
    CaughtFailureIsCleanable
    BatchAllOrNothing
    ImportIsWhole
PROPERTIES
    CursorSpec
    SteppingEnds
    OnlyItsOwn
