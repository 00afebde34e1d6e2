SPECIFICATION FairSpec
CONSTANTS
    CheckIns = {1, 2}
    Instances <- MCInstances
    Outcomes = {"success"}
    Interval = 1
    Margin = 1
    MaxRuntime = 1
    MaxUpdates = 2
    MaxClock = 4
    LastReceipt = 2
    MaxMessages = 2
    MaxFaults = 1
    NoRun = NoRun
    NoMonitor = NoMonitor
CHECK_DEADLOCK FALSE
INVARIANTS
    ProjectionIsLatest
PROPERTIES
    FirstOutcomeWins
    EveryRunEnds
    MonitorAdvances
