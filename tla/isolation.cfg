SPECIFICATION Spec
CONSTANTS
    h1 = h1
    h2 = h2
    campus = campus
    m1 = m1
    m2 = m2
    vlan10 = vlan10
    Host = {h1, h2, campus}
    Name = {campus}
    Infra = {h2}
    Mac = {m1, m2}
    NoMac = NoMac
    Arp <- Leases
    Acl = {vlan10}
    AclOf <- OneList
    HqKey = HqKey
    Thread = {"t1"}
    None = None
    Cooldown = 1
    MaxCommands = 3
    MaxFaults = 1
    Asked = {h1, h2}
    Alerted = {h1}
INVARIANTS
    TypeOK
    MacRecordedOnce
    OnlyFaultsLeaveStrays
    RestoredIsLetIn
    BookkeepingSettles
PROPERTY
    OnlyUnknownIsReblocked
CHECK_DEADLOCK FALSE
