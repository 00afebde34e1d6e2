SPECIFICATION FairSpec
CONSTANTS
    e1 = e1
    e2 = e2
    e3 = e3
    Events <- MCEvents
    MaxPending = 2
    MaxAge = 2
    Backoff = 2
    Horizon = 3
PROPERTIES
    GuardEngages
    GuardRecovers
