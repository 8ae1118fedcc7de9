CONSTANTS
    Move = {m1, m2}
    Home = Home
    Target = {t1, t2}
    Writer = {w1}
    Admin = Admin
    None = None
    Overlap = FALSE
    ForcedAlive = FALSE
    MaxFailures = 1
    MaxCancels = 1
    MaxRecovers = 1
SPECIFICATION Spec
INVARIANTS UndoneForGood
PROPERTIES OneDatabaseSeen
CHECK_DEADLOCK FALSE
