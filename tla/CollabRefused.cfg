CONSTANTS
    s1 = s1
    s2 = s2
    Session = {s1, s2}
    Nobody = Nobody
    Restored = Restored
    Op <- MCOp
    Transform <- MCTransform
    Then <- MCThen
    EditsOf <- MCEditsOf
    ServerOps <- MCServerOps
    Refusals = TRUE
    LateDelivery = FALSE
    Patient = TRUE
    MaxEdits = 2
    MaxDrops = 1
    MaxServerOps = 0
    MaxRestores = 1
    MaxStops = 1
    MaxLog = 1
SPECIFICATION FairSpec
CHECK_DEADLOCK FALSE
INVARIANTS
    TypeOK Bookkeeping DocumentMatchesRoom Convergence
PROPERTIES
    RevisionNeverRegresses EverythingSettles
