SPECIFICATION FairSpec
CONSTANTS
    Instances = {old, new}
    Slots = {t1}
    old = old
    new = new
    c1 = c1
    c2 = c2
    Blank = Blank
    Checksums = {c1, c2, Blank}
    Release <- MCRelease
    InitialSchemas <- AnySchema
    MaxFaults = 1
    NoSession = NoSession
PROPERTIES DamageIsLeftAlone StartupReturns NewestServes
