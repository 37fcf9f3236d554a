SPECIFICATION FairSpec
CONSTANTS
    Shares = 2
    MaxPrice = 3
    MaxBar = 1
    MaxReplaced = 1
    MaxFaults = 0
    MaxStaleExits = 0
    Starts = {"late_fill"}
    Intents = {"update_stop"}
    Flattening = FALSE
    MaxCrashes = 0
PROPERTIES
    LaterFillsResizeStop
