SPECIFICATION FairSpec
CONSTANTS
    EntryQty = 1
    MaxFaults = 0
    MaxLapses = 0
    Modes = {"normal"}
    DispatchRounds = 1
    MaxCrashes = 1
    MaxDrops = 1
PROPERTIES
    PositionEventuallyAgrees
    EventuallyCovered
