CONSTANTS
    s1 = s1
    s2 = s2
    Session = {s1, s2}
    Nobody = Nobody
    Restored = Restored
    Op <- MCOp
    Transform <- MCTransform
    Then <- MCThen
    EditsOf <- MCEditsOf
    ServerOps <- MCServerOps
    Refusals = FALSE
    LateDelivery = FALSE
    Patient = FALSE
    MaxEdits = 3
    MaxDrops = 1
    MaxServerOps = 1
    MaxRestores = 0
    MaxStops = 0
    MaxLog = 9
SPECIFICATION FairSpec
CHECK_DEADLOCK FALSE
INVARIANTS
    DocumentMatchesRoom Convergence NoOpIgnored
