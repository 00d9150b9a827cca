SPECIFICATION FairSpec
CONSTANTS
    Hosts <- TwoHosts
    Sources = {src}
    Importers = {imp}
    Deciders = {}
    Promoters = {}
    Qualifiers = {cyc}
    Limit = 1
    MinAge = 0
    Freshness = 1
    MinReachable = 1
    MaxQuals = 2
    MaxClock = 0
    MaxCrashes = 1
PROPERTY CandidatesAreQualified
CHECK_DEADLOCK FALSE
