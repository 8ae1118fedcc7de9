CONSTANTS
    Message = {m1, m2}
    RecipientsOf <- Two
    Sender = {s1, own}
    System = own
    SenderPerHour = 2
    SenderPerDay = 3
    RepliesPerDay = 2
    WorkspacePerDay = 4
    DayHours = 2
    Hours = 2
    CountedBefore = 1
    MaxFaults = 1
SPECIFICATION Spec
SYMMETRY Alike
INVARIANTS TypeOK WithinLimits SentWithinLimits BudgetAgrees
CHECK_DEADLOCK FALSE
