CONSTANTS
    Key = {e1}
    Task = {t1, t2}
    NoTask = NoTask
    Steps = 2
    Requests = 3
    MaxRechecks = 1
    MaxDeferrals = 1
    MaxFailures = 1
SPECIFICATION Spec
INVARIANTS TypeOK OneRun EmailsOnce HeldEmails KeptForNobody HintNotLost
PROPERTIES SignalledIsNoTimeout RunsGoOn
CHECK_DEADLOCK FALSE
