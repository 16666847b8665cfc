SPECIFICATION SiteSpec
CONSTANTS
    student = student
    other = other
    server = server
    infra = infra
    outside = outside
    dns = dns
    NoHost = NoHost
    Device = {student}
    Port = {22}
    NoPort = 0
    Allowed = {80}
    MinDays = 2
    WindowDays = 2
    Day = 2
    CheckEvery = 2
    DriftCooldown = 1
    MaxForbidden = 0
    Sensor = {s1, s2}
    Silence = 1
    AlertsKept = 2
    MaxDropouts = 1
    Nil = Nil
    Agent = {a1}
    Expected = {a1}
    SilenceLimit = 1
    AlarmCooldown = 3
    Boot <- MCBoot
    Never = Never
    MaxRestarts = 1
    r1 = r1
    r2 = r2
    r3 = r3
    r4 = r4
    None = None
    Nobody = Nobody
    NotYet = NotYet
    Nowhere = Nowhere
    RiskHost = {student}
    AlertType = {"ransomware_behavior", "suspicious_process", "port_scan", "isolation_violation"}
    Testing = TRUE
    MaxScore = 200
    MaxLag = 2
    Decayed <- Halved
    Host = {student, other}
    Infra = {infra}
    PiHole = dns
    Net <- MCNet
    Traffic <- MCTraffic
    Window <- MCWindow
    Cap <- MCCap
    Cooldown <- MCCooldown
    Base <- MCBase
    Advice <- MCAdvice
    Grace = 1
    SlowWindow = 2
    Clock <- MCClock
    MaxPerTick = 2
    MaxCommands = 1
    Zone = {"zone1", "zone2"}
    Correlation = 1
    Hold = 2
    FireCooldown = 1
    Timer = {t1, t2, t3}
    Off = Off
    MaxReadings = 1
    MaxResets = 1
    MaxFaults = 1
    Feeds <- MCFeeds
    Short = 1
    Cred = 2
    Long = 3
    Corr = 2
    SameCard = 1
    CardWin = 1
    FireCorr = 1
    Depth <- MCDepth
    InfraIps = {"h2"}
    TestMode = TRUE
    MaxBurst = 2
    Events <- MCEvents
    TailWindow = 1
    BruteWindow = 3
    Threshold = 3
    CloneGap = 0
    Kept = 4
    MaxEvents = 2
    Badge = {"card1"}
    Reader = {r1, r2, r3, r4}
    Floor <- MCFloor
    SameFloor = 1
    NextFloor = 2
    TwoFloors = 4
    Sharing = 2
    Session = 4
    MaxGrants = 1
INVARIANTS
    SiteTypeOK
    OneCriticalPerEpisode
    NoFalseAlarm
    FireIsAnswered
PROPERTIES
    AttackIsAlerted
    LearnedSlowly
    DriftIsCaught
    PairIsCritical
    SilenceIsReported
