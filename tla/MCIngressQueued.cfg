SPECIFICATION Spec
CONSTANTS
    a = a
    b = b
    c = c
    p = p
    q = q
    r1 = r1
    r2 = r2
    r3 = r3
    nonceA = nonceA
    nonceC = nonceC
    nullA = nullA
    alice = alice
    Req = {r1, r2}
    Content = {a, c}
    Peer = {p}
    Local = Local
    Nonce = {nonceA, nonceC}
    NonceOf <- MCNonceOf
    IdempotentC <- MCIdempotent
    Nullifier = {nullA}
    NoNullifier = NoNullifier
    NullifierOf <- MCNullifierOf
    Subject = {alice}
    SubjectOf <- MCSubjectOf
    CostOf <- MCCostOf
    InitCredits = 3
    FederatedC <- MCFederated
    BlockSize = 2
    MaxAborts = 0
    MaxCrashes = 0
    NoReceipt = NoReceipt
PROPERTIES
    AcceptedIsQueued
