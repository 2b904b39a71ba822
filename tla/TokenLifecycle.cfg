CONSTANTS
    Records = {r1, r2, r3}
    Clients = {p1}
    NoClient = NoClient
    Epoch = 2
    MaxTime = 6
    Lifetime = 5
    Cleanup = 3
    Overlap = 3
    MaxLifetime = 6
    MaxCleanup = 4
    MaxOverlap = 4
    Grain = 2
    Stored <- Truncate
SYMMETRY RecordSymmetry
SPECIFICATION Spec
VIEW RunningView
INVARIANT RowsReadable
PROPERTIES HistoryNeverRewritten IntakeUninterrupted RollbackBeforeDeadline ImplementsProtocol EndingRecognised
