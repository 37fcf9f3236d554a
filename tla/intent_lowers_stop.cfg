SPECIFICATION Spec
CONSTANTS
    Shares = 2
    MaxPrice = 4
    MaxBar = 1
    MaxReplaced = 1
    MaxFaults = 0
    MaxStaleExits = 0
    Starts = {"partial_entry"}
    Intents = {"update_stop"}
    Flattening = FALSE
    MaxCrashes = 0
PROPERTIES
    StopOnlyRises
