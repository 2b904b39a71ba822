CONSTANTS
    Records = {r1, r2, r3}
    Clients = {admin, s1}
    NoClient = NoClient
    Admin = admin
    Repairs = FALSE
    Switches = {TRUE}
    NoRecord = NoRecord
    Epoch = 2
    MaxTime = 4
    Lifetime = 6
    Cleanup = 2
    Overlap = 2
    MaxLifetime = 6
    MaxCleanup = 2
    MaxOverlap = 2
    Grain = 2
    Stored <- Truncate
SPECIFICATION PSpec
PROPERTY AbortOnlyAfterActivation
