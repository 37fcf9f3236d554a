SPECIFICATION FairSpec
CONSTANTS
    EntryQty = 1
    MaxFaults = 1
    MaxLapses = 0
    Modes = {"normal"}
    DispatchRounds = 1
    MaxCrashes = 0
    MaxDrops = 0
PROPERTIES
    AnyPositionIsCovered
