SPECIFICATION FairSpec
CONSTANTS
    Instances = {p, q, r}
    None = None
    Orphan = Orphan
    MaxFailures = 3
    Parts = 2
    Jobs = 2
    Options = TRUE
    MaxDeaths = 4
    Extended = TRUE
    MaxDays = 2
    MaxCrashes = 1
    MaxFaults = 5
    MaxLockFaults = 2
    MaxWatchFaults = 3
    MaxLoopFaults = 2
INVARIANTS
    SessionHoldsLock
    CycleWorkIsWhole
    OneThread
    OneSummaryADay
PROPERTIES
    NoSessionMissed
    ProcessRecovers
CHECK_DEADLOCK FALSE
