CONSTANTS
    Restore = {r1}
    NoRestore = NoRestore
    CheckpointEvery = 2
    KeepLog = 1
    AmbiguousPuts = FALSE
    MaxEdits = 3
    MaxStops = 1
    MaxReloads = 1
    MaxFailures = 1
SPECIFICATION Spec
INVARIANTS RestartKeepsTheDocument
PROPERTIES EditsReachTheCheckpoint
CHECK_DEADLOCK FALSE
