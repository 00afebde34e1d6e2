SPECIFICATION Spec
CONSTANTS
    e1 = e1
    e2 = e2
    Events <- MCEvents
    Invalid = {}
    Colliding = {e2}
    Deletable = {e2}
    Handed = {}
    Backends = {TRUE, FALSE}
    MaxAttempts = 2
    ChannelCapacity = 2
    MaxEvents = 2
    MaxFaults = 1
INVARIANTS
    AttemptsWithinLimit
    OkMeansDone
    CountedAtLeastOnce
    CountedExactlyOnce
PROPERTIES
    TerminalIsFinal
