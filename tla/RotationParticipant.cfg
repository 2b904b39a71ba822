CONSTANTS
    Records = {r1, r2, r3}
    Clients = {admin, s1}
    NoClient = NoClient
    Admin = admin
    Repairs = TRUE
    Switches = {TRUE, FALSE}
    NoRecord = NoRecord
    Epoch = 2
    MaxTime = 4
    Lifetime = 6
    Cleanup = 2
    Overlap = 2
    MaxLifetime = 6
    MaxCleanup = 2
    MaxOverlap = 2
    Grain = 2
    Stored <- Truncate
SPECIFICATION PSpec
SYMMETRY RecordSymmetry
VIEW SessionView
INVARIANTS NoOrphan ReceiptTrue HandleBound TerminalFinal
