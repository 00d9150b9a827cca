SPECIFICATION Spec
CONSTANTS
    ServerCount = 4
    MinSamples = 3
    MinConfidence = 670
    StrongConfidence = 800
    StaleDays = 1
    VeryStaleDays = 2
    Window = 2
    MinChurn = 3
    Histories <- SmallHistories
    Campaigns <- FewCampaigns
    Missing <- SomeMissing
    OpenIncidents <- SomeIncidents
    MaxDay = 2
    MaxChanges = 2
    Capturers = {timer, operator}
    Watched <- OneConclusion
    MaxPasses = 2
INVARIANTS CommunitiesHangTogether CriticalMeansCut EventsReplay CriticalMeansReversed CrossingsAreCritical
PROPERTIES RiskIgnoresQuality CaptureIsComplete
SYMMETRY CapturerSymmetry
CHECK_DEADLOCK FALSE
