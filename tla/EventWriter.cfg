SPECIFICATION FairSpec
CONSTANTS
    r1 = r1
    r2 = r2
    r3 = r3
    k1 = k1
    k2 = k2
    Requests <- MCRequests
    Keys <- MCKeys
    KeyOf <- MCKeyOf
    SizeOf <- MCSizeOf
    ChannelCapacity = 1
    MaxDocuments = 2
    MaxBytes = 2
PROPERTIES
    EveryCallAnswered
    ShutdownCompletes
INVARIANTS
    TypeOK
    AckDurable
    OneAcceptedPerKey
    NoCommandLost
    UnavailableIsDefiniteWhileServing
