SPECIFICATION EdgesSpec
CONSTANTS
    x = x
    y = y
    c1 = c1
    c2 = c2
    m1 = m1
    m2 = m2
    Edge = {"passes", "tunnel", "outbox", "audit", "relay", "mesh"}
    Req = {1, 2, 3}
    MaxQueued = 3
    MaxPolls = 3
    MaxCloses = 1
    NoPoll = NoPoll
    NoJob = NoJob
    Item = {x, y}
    Caller = {c1, c2}
    Plane <- MCPlane
    Locked = TRUE
    NoItem = NoItem
    Cert = {"x", "y", "z"}
    KeyOf <- MCKeyOf
    MaxAppends = 4
    Garbage = Garbage
    NoCert = NoCert
    Msg = {m1, m2}
    Parts <- MCParts
    Sender = {s1}
    Loop = Loop
    Limit = 3
    MaxInbound = 1
    MaxSends = 2
    MaxRestarts = 1
    Device = {d1, d2, d3}
    Carried = {x}
    MaxHops = 2
    MaxStarts = 2
    d1 = d1
    d2 = d2
    p1 = p1
    p2 = p2
    urgent = urgent
    bulk = bulk
    gone = gone
    NoRow = NoRow
    Idle = Idle
    Drainer = {d1}
    Peer = {p1}
    Content = {bulk, gone}
    Priority <- MCPriority
    Missing = {gone}
    BatchSize = 1
    MAX_DELIVERY_ATTEMPTS = 3
    INITIAL_BACKOFF_MS = 1
    MAX_BACKOFF_MS = 2
    DeliverTimeout = 1
    Hint = {0, 3}
    MaxFanouts = 2
    MaxFaults = 1
INVARIANTS
    FullSchedule
    HandedOnce
    OrderlyKeepsSigned
    OrderlyPromisedIsKept
    ResumesInOrder
PROPERTIES
    EveryRowSettles
    
    FloodDies
\* Clients, polls and envelopes are bounded, and then nothing is left to do.
CHECK_DEADLOCK FALSE
