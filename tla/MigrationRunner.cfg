SPECIFICATION Spec
CONSTANTS
    Instances = {old, new}
    Slots = {t1, t2}
    old = old
    new = new
    c1 = c1
    c2 = c2
    Blank = Blank
    Checksums = {c1, c2, Blank}
    Release <- MCRelease
    InitialSchemas <- FirstStart
    MaxFaults = 1
    NoSession = NoSession
SYMMETRY MCSymmetry
INVARIANTS Inv InspectionHolds OrdinaryFailureIsFinal
PROPERTY ImplementsHistory
