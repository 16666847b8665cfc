SPECIFICATION LearnSpec
CONSTANTS
    i1 = i1
    i2 = i2
    ndr_agent = ndr_agent
    edr_agent = edr_agent
    LearnIncident = {i1, i2}
    Models <- ModelNames
    ModelOf <- Alerts
    Score = {1, 2, 3}
    NoScore = NoScore
    Drift = 1
    MinExamples = 2
    MinClass = 1
    RecentExamples = 3
    MaxDataset = 3
    EveryN = 2
    Interval = 1
    RecFps = 1
    MaxIngests = 4
    MaxDismissals = 2
    MaxRuns = 2
INVARIANT
    RejectedIsNotServed
CHECK_DEADLOCK FALSE
