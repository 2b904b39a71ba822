CONSTANTS
    r1 = r1
    r2 = r2
    k1 = k1
    k2 = k2
    Records = {r1, r2}
    Clients = {p1}
    NoClient = NoClient
    Epoch = 1
    MaxTime = 2
    Lifetime = 2
    Cleanup = 1
    Overlap = 1
    MaxLifetime = 2
    MaxCleanup = 1
    MaxOverlap = 1
    Grain = 1
    Stored <- Truncate
    KeyIDs <- NewKeyFirst
    KeyOf <- OneKeyEach
    Tokenings <- MCTokenings
    MaxDamaged = 1
    Presented = {1}
SPECIFICATION RFairSpec
INVARIANTS RTypeOK AnswerIsAtomic
PROPERTY ResolveReturns
