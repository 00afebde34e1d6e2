SPECIFICATION FairSpec
CONSTANTS
    e1 = e1
    e2 = e2
    None = None
    Events <- MCEvents
    Deletable <- MCDeletable
    QueueCapacity = 1
    Workers = 1
    LowWatermark = 0
    RefillTarget = 1
    RefillBatch = 1
    ScanFactor = 1
    MaxLapses = 1
    MaxStops = 2
INVARIANTS
    NoKeyLeaked
    NoDoubleWork
    RefillIsFresh
PROPERTIES
    EveryDueWorked
    ShutdownCompletes
