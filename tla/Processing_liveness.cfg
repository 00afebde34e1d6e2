SPECIFICATION FairSpec
CONSTANTS
    e1 = e1
    e2 = e2
    Events <- MCEvents
    Invalid = {e2}
    Colliding = {}
    Deletable = {}
    Handed = {e1}
    Backends = {TRUE}
    MaxAttempts = 3
    ChannelCapacity = 2
    MaxEvents = 2
    MaxFaults = 1
PROPERTIES
    AttemptsMonotone
    EveryEventSettled
