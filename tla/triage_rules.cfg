SPECIFICATION TriageSpec
CONSTANTS
    Nobody = Nobody
    Feeds <- DocumentedFeeds
    Short = 1
    Cred = 2
    Long = 3
    Corr = 2
    SameCard = 1
    CardWin = 1
    FireCorr = 1
    Depth <- MCDepth
    InfraIps = {"h2"}
    TestMode = TRUE
    MaxBurst = 2
PROPERTY
    GradedAsDocumented
