SPECIFICATION Spec
CONSTANTS
    Threads = {t1, t2}
    FlushAfter = 1
    DayLength = 2
    KeepDays = 1
    MayFail = TRUE
    MaxTime = 5
    MaxOpens = 3
    MaxStarts = 2
INVARIANTS
    TypeOK
    ShownDaysAddUp
CHECK_DEADLOCK FALSE
