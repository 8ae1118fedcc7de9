CONSTANTS
    Key = {e1}
    Task = {t1, t2}
    NoTask = NoTask
    Steps = 2
    Requests = 3
    MaxRechecks = 1
    MaxDeferrals = 1
    MaxFailures = 0
SPECIFICATION Spec

PROPERTIES EnrollmentsGoOn
CHECK_DEADLOCK FALSE
