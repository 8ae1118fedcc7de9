SPECIFICATION Spec
CONSTANTS
    Messages = 3
    Old <- SecondIsOld
    PageSize = 2
    MaxAttempts = 2
    FolderBatches = 2
    InOrder = TRUE
    Delay = 0
    RebuildDuringTick = FALSE
    MaxWrites = 2
    MaxCalls = 2
    MaxFaults = 1
INVARIANTS
    TypeOK
    CopiedWhenDone
    SameWhenDone
    NothingPendsWithoutAlarm
PROPERTIES
    BackfillEnds
    FolderReadEnds
CHECK_DEADLOCK FALSE
