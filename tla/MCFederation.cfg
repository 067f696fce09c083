SPECIFICATION FederationSpec
CONSTANTS
    c1 = c1
    p1 = p1
    c2 = c2
    root1 = root1
    root2 = root2
    s1 = s1
    s2 = s2
    o1 = o1
    o2 = o2
    NoRecord = NoRecord
    NoHead = NoHead
    Idle = Idle
    Resting = Resting
    Call = {c1, c2}
    Peer = {root1, root2, s1, s2}
    Active = {s1}
    Configured = {root1, root2, s2}
    Admin <- MCAdmin
    Vouch <- WebVouches
    QuotaBreachLimit = 2
    MaxDay = 2
    ProbationPeriod = 1
    Signer = {s1}
    Observer = {o1, o2}
    DistinctStamps = TRUE
    MaxSize = 2
    MaxClock = 2
    MaxLies = 1
    Uplink = {1, 2}
    Scope = {1, 2}
    Declares <- MCDeclares
    Neighbour = {p1}
    Endpoints <- MCEndpoints
    Worker = {c1, c2}
    Threshold = 2
    Nowhere = Nowhere
    Opening = Opening
    Routed = Routed
SYMMETRY Symmetry
INVARIANTS
    TypeOK
    TrustedNeedsRoots
    BlockedIsCutOff
    OrderlyNeverBlocked
    
    NoStreamOnDeadUplink
    IslandsAreCurrent
