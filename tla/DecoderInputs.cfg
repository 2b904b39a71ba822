SPECIFICATION Spec
CONSTANTS
    MaxInt64 = 120
    MaxBodyBytes = 262144
    Templates <- MCTemplates
    Values <- MCValues
    Extras <- MCExtras
    MaxEdits = 3
    Pieces <- MCPieces
    MaxPieces = 4
INVARIANTS DecodesExactly CanonicalRoundTrip IterationOrderIsIrrelevant CanonicalDecodes UnsupportedIsWellFormed
PROPERTY DuplicatesSayTheSame
CHECK_DEADLOCK FALSE
