SPECIFICATION SceneSpec
CONSTANTS
    Limit = 1
    Worst = 2
    ExternalLoss = 0
    Gate = 2
    FirstAudits = {"not_needed"}
    None = None
    MaxFailures = 2
    MaxLostSaves = 1
    MaxCrashes = 1
    MaxCommands = 0
INVARIANTS
    OneBaseline
PROPERTIES
    BlockedForTheDay
    BreachIsFlattened
    FloorFollowsEquity
CHECK_DEADLOCK FALSE
