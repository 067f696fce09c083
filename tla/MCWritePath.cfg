SPECIFICATION WriteSpec
CONSTANTS
    a = a
    b = b
    c = c
    p = p
    q = q
    r1 = r1
    r2 = r2
    r3 = r3
    nonceA = nonceA
    nonceC = nonceC
    nullA = nullA
    alice = alice
    Req = {r1, r2}
    Content = {a, b, c}
    Peer = {p, q}
    Local = Local
    Nonce = {nonceA, nonceC}
    NonceOf <- MCNonceOf
    IdempotentC <- MCIdempotent
    Nullifier = {nullA}
    NoNullifier = NoNullifier
    NullifierOf <- MCNullifierOf
    Subject = {alice}
    SubjectOf <- MCSubjectOf
    CostOf <- MCCostOf
    InitCredits = 3
    FederatedC <- MCFederated
    BlockSize = 2
    MaxAborts = 1
    MaxCrashes = 1
    NoReceipt = NoReceipt
    n1 = n1
    n2 = n2
    ann = ann
    bob = bob
    mod = mod
    forum = forum
    staff = staff
    crew = crew
    None = None
    NoDoc = NoDoc
    NoVote = NoVote
    Unknown = Unknown
    Nobody = Nobody
    NoRow = NoRow
    NoRole = NoRole
    Never = Never
    Parts = {"ingress", "content", "rebuild", "community"}
    Id = {1, 2, 3, 4, 5}
    Key = {ann, bob, mod}
    Author = {ann, bob, mod}
    Name = {forum}
    Server = {n1, n2}
    Member = {ann, bob}
    Moderator = {mod}
    MaxDepth = 1
    MinKarma = 0
    Workload <- MCWorkload
    MaxOpen = 2
    Own = n1
    Incoming <- MCLogged
    Deliverer <- OwnDeliverer
    BatchSize = 2
    Quiet = TRUE
    InOrder = TRUE
    MaxCalls = 2
    MaxRebuilds = 2
    Role = {staff, crew}
    Sessions <- MCSessions
    MaxPending = 2
INVARIANTS
    TypeOK
    ReceiptMatchesLog
    LogIndexUnique
    NonceAppliedOnce
    NullifierAdmitsOne
    AdmittedIsPaid
    NoEcho
    OneReceiptPerContent
    NewestVoteStands
    TalliesMatch
    ReplicasAgree
    OrderlyRebuildReproduces
    RestrictionsFollowLog
    NoPermissionFromNothing
    CountCoversMembers
PROPERTIES
    ImplementsLog
    EveryCallEnds
    RemovedStaysRemoved
\* The pipeline may rest for good, all that is signed be committed, and the
\* bounds of the rebuild used up.
CHECK_DEADLOCK FALSE
