CONSTANTS
    Restore = {r1, r2}
    NoRestore = NoRestore
    CheckpointEvery = 2
    KeepLog = 1
    AmbiguousPuts = FALSE
    MaxEdits = 2
    MaxStops = 1
    MaxReloads = 0
    MaxFailures = 1
SPECIFICATION Spec
INVARIANTS TypeOK NothingLost RestartKeepsTheDocument
PROPERTIES KeptDocument RestoresEnd
CHECK_DEADLOCK FALSE
