SPECIFICATION FairSpec
CONSTANTS
    Probes = {1, 2}
    Inventories = {}
    Cycles = {3}
    Batch <- OneByOne
    Interval <- TwoSpeeds
    MaxBackoff = 3
    MaxFailures = 1
    PassTicks = 1
    MaxLate = 1
    MaxCrashes = 1
INVARIANTS TypeOK RunsAreClosed
PROPERTIES MeasuredApart JobsRun
CHECK_DEADLOCK FALSE
