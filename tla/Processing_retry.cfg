SPECIFICATION Spec
CONSTANTS
    e1 = e1
    e2 = e2
    Events <- MCEvents
    Invalid = {}
    Colliding = {}
    Deletable = {}
    Handed = {}
    Backends = {TRUE, FALSE}
    MaxAttempts = 3
    ChannelCapacity = 2
    MaxEvents = 2
    MaxFaults = 0
INVARIANT
    FailedForCause
