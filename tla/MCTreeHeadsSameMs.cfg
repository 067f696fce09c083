SPECIFICATION HeadsSpec
CONSTANTS
    NoHead = NoHead
    Resting = Resting
    Signer = {s1}
    Observer = {o1}
    DistinctStamps = FALSE
    MaxSize = 2
    MaxClock = 2
    MaxLies = 0
INVARIANTS
    HonestNeverBlocked
