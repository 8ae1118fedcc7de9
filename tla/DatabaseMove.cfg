CONSTANTS
    Move = {m1}
    Home = Home
    Target = {t1, t2}
    Writer = {w1}
    Admin = Admin
    None = None
    Overlap = FALSE
    ForcedAlive = FALSE
    MaxFailures = 1
    MaxCancels = 1
    MaxRecovers = 1
SPECIFICATION Spec
INVARIANTS TypeOK
PROPERTIES CancelledNeverSwitches ServiceReturns
CHECK_DEADLOCK FALSE
