SPECIFICATION Spec
CONSTANTS
    Hosts <- OneHost
    Sources = {src}
    Importers = {imp, other}
    Deciders = {dec}
    Promoters = {pro}
    Qualifiers = {cyc}
    Limit = 1
    MinAge = 1
    Freshness = 1
    MinReachable = 2
    MaxQuals = 2
    MaxClock = 2
    MaxCrashes = 0
INVARIANTS TypeOK RejectedIsOff PromotedWasReachable OnlyCandidatesAreJudged
           ImportDefaultsDisabled
CHECK_DEADLOCK FALSE
