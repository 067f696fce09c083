SPECIFICATION ForumSpec
CONSTANTS
    n1 = n1
    n2 = n2
    ann = ann
    bob = bob
    mod = mod
    forum = forum
    staff = staff
    crew = crew
    None = None
    NoDoc = NoDoc
    NoVote = NoVote
    Unknown = Unknown
    Nobody = Nobody
    NoRow = NoRow
    NoRole = NoRole
    Never = Never
    Parts = {"rebuild"}
    Id = {1, 2, 3, 4, 5}
    Key = {ann, bob, mod}
    Author = {ann, bob, mod}
    Name = {forum}
    Server = {n1, n2}
    Member = {ann, bob}
    Moderator = {mod}
    MaxDepth = 1
    MinKarma = 0
    Workload <- MCWorkload
    MaxOpen = 2
    Own = n1
    Incoming <- MCLogged
    Deliverer <- PeerDeliverer
    BatchSize = 2
    Quiet = TRUE
    InOrder = TRUE
    MaxCalls = 2
    MaxRebuilds = 2
    Role = {staff, crew}
    Sessions <- MCSessions
    MaxPending = 2
INVARIANTS
    RebuildReproduces
\* All that is signed may be committed, and the bounds of the rebuild used up.
CHECK_DEADLOCK FALSE
