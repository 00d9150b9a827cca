SPECIFICATION FairSpec
CONSTANTS
    m1 = m1
    m2 = m2
    Tables = {"group_events"}
    Servers = {s}
    Resolutions = {"day"}
    DayTicks = 2
    MonthDays = 2
    RawDays = 1
    SafetyLag = 1
    BatchSize = 1
    MonthsAhead = 0
    Maintainers = {m1, m2}
    Duties <- TwoCommandsEach
    RowsPerTick = 1
    LastTick = 1
    MaxClock = 7
    MaxCrashes = 1
INVARIANTS TypeOK RecentIsKept OneBucketEach
PROPERTIES RemovedWasCounted CoveredIsRetired
CHECK_DEADLOCK FALSE
