SPECIFICATION SceneSpec
CONSTANTS
    Shares = 1
    MaxPrice = 3
    MaxBar = 3
    MaxReplaced = 1
    MaxFaults = 1
    MaxStaleExits = 1
    Starts = {"protected", "stale_exit"}
    Intents = {"exit"}
    Flattening = TRUE
    MaxCrashes = 1
INVARIANTS
    ExitsAreKnown
PROPERTIES
    WorkingExitIsKept
    FlatInTheEnd
    CoverComesBack
