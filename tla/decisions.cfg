SPECIFICATION DecisionSpec
CONSTANTS
    i1 = i1
    i2 = i2
    r1 = r1
    r2 = r2
    Incident = {i1, i2}
    Request = {r1, r2}
    Consumer = consumer
    NoInc = noinc
    TestingMode = FALSE
    MaxCrashes = 1
    MaxLost = 1
    Loaded = {"intrusion_response", "iot_compromise_response", "access_control_lockdown"}
    Call = {r1, r2}
    Nothing = Nothing
    Correlation <- Correlations
    MaxCorrelations = 2
    MaxLives = 2
    MaxManual = 1
INVARIANTS
    TypeOK
    AtMostOnceToHQ
    DismissedStaysLocal
    ApprovedReachesHQ
    MislabelledOnlyByRace
    WindowHasTimer
    OrchestratorTypeOK
    GateHolds
    AwaitingIsPending
PROPERTIES
    WindowCloses
    KeepsPromise
    CorrelationIsAnswered
CHECK_DEADLOCK FALSE
