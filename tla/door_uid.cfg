SPECIFICATION Spec
CONSTANTS
    c1 = c1
    c2 = c2
    p1 = p1
    p2 = p2
    Card = {c1, c2}
    Person = {p1}
    NoCard = NoCard
    NoPerson = NoPerson
    Owner <- OneOwner
    VerifyTimeout = 1
    RfidTimeout = 2
    MismatchWindow = 1
    GrantLife = 2
    Debounce = 2
    UnlockTime = 1
    ConfirmInsider = 2
    MaxCrashes = 1
    MaxCommands = 1
PROPERTY
    DenialNamesTheCard
CHECK_DEADLOCK FALSE
