SPECIFICATION FairSpec
CONSTANTS
    s1 = s1
    Articles = {a1}
    Endpoints <- OneEndpoint
    Servers = {s1}
    ServerOf <- OneServer
    Schedulers = {sched}
    Operators = {}
    Setters = {}
    BatchLimit = 1
    Intervals = {1}
    Ttls = {1}
    MaxBackoff = 2
    MaxCampaigns = 2
    MaxClock = 3
    MaxCrashes = 0
PROPERTY PassesFinish
CHECK_DEADLOCK FALSE
