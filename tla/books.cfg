SPECIFICATION SceneFairSpec
CONSTANTS
    Contracts = {"call", "put"}
    Underlying <- Stocks
    Quantity = 2
    LastBar = 2
    FlattenBar = 2
    MaxSales = 4
    MaxCrashes = 0
    Days = {TRUE}
    Owners <- StockOwner
    OptionNames = {"option"}
    Multiplier = 100
    Parts = 2
    Prices = {4, 8}
    Ordered = 2
    Trades = 2
    LastDay = 2
INVARIANTS
    OptionsAreCovered
    ReportsAreTrue
PROPERTIES
    OptionsAreSettled
    ExclusionIsForGood
CHECK_DEADLOCK FALSE
