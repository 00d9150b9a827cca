SPECIFICATION Spec
CONSTANTS
    s1 = s1
    Articles = {a1}
    Endpoints <- OneEndpoint
    Servers = {s1}
    ServerOf <- OneServer
    Schedulers = {sched}
    Operators = {op}
    Setters = {setter}
    BatchLimit = 1
    Intervals = {1}
    Ttls = {1, 2}
    MaxBackoff = 2
    MaxCampaigns = 1
    MaxClock = 2
    MaxCrashes = 0
INVARIANTS TypeOK ExpiredIsOver CompletedIsVisible
CHECK_DEADLOCK FALSE
