SPECIFICATION FairSpec
CONSTANTS
    NoIssue = NoIssue
    Events = {1, 2}
    Keys = {100}
    Destinations = {"d1", "d2"}
    Workers = {"w1"}
    QueueCapacity = 1
    MaxAttempts = 2
    Backends = {TRUE, FALSE}
    Instances <- MCInstances
CHECK_DEADLOCK FALSE
INVARIANTS
    NoTransitionLost
    RegressionsCountedOnce
PROPERTIES
    ImplementsOutbox
    EveryNotificationEnds
