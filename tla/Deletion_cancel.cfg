SPECIFICATION Spec
CONSTANTS
    None = None
    Operations <- MCOperations
    MongoOperations <- MCOneOperation
    Calls = {1}
    InitialEvents = {2}
    BatchSize = 1
    Backends = {FALSE}
    Originals <- MCOriginals
    MaxFaults = 1
CHECK_DEADLOCK FALSE
INVARIANT
    CancelledKeepsData
