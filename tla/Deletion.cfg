SPECIFICATION FairSpec
CONSTANTS
    None = None
    Operations <- MCOperations
    MongoOperations <- MCOneOperation
    Calls = {1}
    InitialEvents = {2}
    BatchSize = 1
    Backends = {TRUE, FALSE}
    Originals <- MCOriginals
    MaxFaults = 1
CHECK_DEADLOCK FALSE
INVARIANTS
    TombstoneIsLast
    CancelledChangesNothing
PROPERTIES
    DeletionEnds
    PurgeReachesTombstone
    SlugIsReleased
