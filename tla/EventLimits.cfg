SPECIFICATION Spec
CONSTANTS
    MaxInt64 = 120
    MaxBodyBytes = 262144
    Templates <- LargeAlert
    Values <- MCValues
    Extras <- MCExtras
    MaxEdits = 2
    Pieces = {}
    MaxPieces = 0
INVARIANT EventsFit
CHECK_DEADLOCK FALSE
