SPECIFICATION MCSpec
CONSTANTS
    EntryQty = 3
    MaxFaults = 1
    MaxLapses = 0
    Modes = {"normal", "extended"}
    DispatchRounds = 1
    MaxCrashes = 1
    MaxDrops = 0
INVARIANTS
    TypeOK
    SnapshotStaysSafe
    NeverResubmits
PROPERTIES
    RecoveryQueuesOnlyForHeldShares
    ReconcileNeverClearsLiveStop
