SPECIFICATION SyncSpec
CONSTANTS
    Closed = Closed
    Unbounded = Unbounded
    Connection = {c1}
    BlockSize = 4
    MaxBackfill = 2
    StreamLimit = 2
    InOrder = TRUE
    AllAnswered = TRUE
    MaxIndex = 4
INVARIANTS
    PassedIsSettled
