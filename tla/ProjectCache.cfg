SPECIFICATION FairSpec
CONSTANTS
    k1 = k1
    k2 = k2
    c1 = c1
    c2 = c2
    Keys <- MCKeys
    Callers <- MCCallers
    Cells <- MCCells
    None = None
    Capacity = 1
    MaxInflight = 1
    Managed = {k1}
    MaxChanges = 1
INVARIANTS
    CacheBounded
    OneLoadPerKey
    OwnLoadNotStale
PROPERTIES
    RevocationTakesEffect
