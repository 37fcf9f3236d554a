SPECIFICATION FairSpec
CONSTRAINT OneTrouble
CONSTANTS
    EntryQty = 1
    MaxFaults = 1
    MaxLapses = 1
    Modes = {"normal", "close_only", "halted", "extended"}
    DispatchRounds = 1
    MaxCrashes = 0
    MaxDrops = 0
PROPERTIES
    FillsEventuallyRecorded
    FlatOnceBelowStop
