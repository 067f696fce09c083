SPECIFICATION Spec
CONSTANTS
    d1 = d1
    d2 = d2
    p1 = p1
    p2 = p2
    urgent = urgent
    bulk = bulk
    gone = gone
    NoRow = NoRow
    Idle = Idle
    Drainer = {d1, d2}
    Peer = {p1}
    Content = {urgent}
    Priority <- MCPriority
    Missing = {}
    BatchSize = 1
    MAX_DELIVERY_ATTEMPTS = 3
    INITIAL_BACKOFF_MS = 1
    MAX_BACKOFF_MS = 2
    DeliverTimeout = 1
    Hint = {0}
    MaxFanouts = 1
    MaxFaults = 0
INVARIANTS
    FullSchedule
