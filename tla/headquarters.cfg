SPECIFICATION HQSpec
CONSTANTS
    i1 = i1
    i2 = i2
    ndr_agent = ndr_agent
    edr_agent = edr_agent
    Actor = {"unknown", "card", "host"}
    Incident <- Alerts
    Fast = 1
    Slow = 2
    Short = 1
    Long = 2
    MaxRecent = 2
    MaxCorrelations = 4
    MaxIncidents = 3
    MaxResolves = 1
    MaxFaults = 1
    LearnIncident = {i1, i2}
    Models <- ModelNames
    ModelOf <- AlertModel
    Score = {1, 2, 3}
    NoScore = NoScore
    Drift = 1
    MinExamples = 2
    MinClass = 1
    RecentExamples = 2
    MaxDataset = 2
    EveryN = 2
    Interval = 1
    RecFps = 1
    MaxIngests = 3
    MaxDismissals = 2
    MaxRuns = 2
INVARIANTS
    TypeOK
    AttackIsReported
    LearnTypeOK
    CountsMatchLabels
    ServedIsMeasured
    RejectedHasNoSay
PROPERTIES
    ResolvedStays
    ChainsEnd
    ScoreFallsOnlyByOverlap
CHECK_DEADLOCK FALSE
