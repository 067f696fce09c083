SPECIFICATION DeliverySpec
CONSTANTS
    d1 = d1
    d2 = d2
    p1 = p1
    p2 = p2
    urgent = urgent
    bulk = bulk
    gone = gone
    NoRow = NoRow
    Idle = Idle
    Drainer = {d1, d2}
    Peer = {p1}
    Content = {urgent}
    Priority <- MCPriority
    Missing = {}
    BatchSize = 2
    MAX_DELIVERY_ATTEMPTS = 2
    INITIAL_BACKOFF_MS = 1
    MAX_BACKOFF_MS = 2
    DeliverTimeout = 1
    Hint = {0}
    MaxFanouts = 2
    MaxFaults = 1
    c1 = c1
    c2 = c2
    Closed = Closed
    Unbounded = Unbounded
    Connection = {c1, c2}
    BlockSize = 2
    MaxBackfill = Unbounded
    StreamLimit = Unbounded
    InOrder = TRUE
    AllAnswered = TRUE
    MaxIndex = 3
SYMMETRY Symmetry
INVARIANTS
    NothingLost
    LedgerIsTrue
    AttemptsAreBounded
    OrderlyPassedIsSettled
    OrderlyCaughtUp
PROPERTIES
    RowsMoveOn
    CursorMovesOn
