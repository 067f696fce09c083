SPECIFICATION Spec
CONSTANTS
    c1 = c1
    c2 = c2
    root1 = root1
    root2 = root2
    s1 = s1
    s2 = s2
    NoRecord = NoRecord
    Idle = Idle
    Call = {c1, c2}
    Peer = {s1}
    Active = {s1}
    Configured = {}
    Admin <- MCAdmin
    Vouch <- NoVouches
    QuotaBreachLimit = 3
    MaxDay = 1
    ProbationPeriod = 1
PROPERTIES
    ForkBlockSticks
