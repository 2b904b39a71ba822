CONSTANTS
    Attempts = {a1, a2}
    Identities = {d1, d2}
    Events = {e1, e2}
    Versions = {1}
    Keys = {k1, k2}
    Nothing = Nothing
SPECIFICATION FairSpec
INVARIANT RefusedNeverStored
PROPERTIES ImplementsLedger AcceptReturns
