SPECIFICATION SceneSpec
CONSTANTS
    Strategies <- TwoStrategies
    Symbols = {"AAPL", "MSFT"}
    MaxSlots = 1
    MaxExposure = 2
    MaxBar = 2
    MaxCycles = 2
    MaxCrashes = 1
    Watchlist <- ThreeSymbols
    Views <- ChoiceViews
    Sessions = {"regular"}
    RankModes = {"close", "relative_volume", "balanced"}
    ProxyCloses <- NoHistory
    Period = 2
    Occupied = {1, 2}
    SlotLimit = 3
    HeldExposure = {0, 4000}
    ExposureLimit = 7000
    RiskBudget = 300
    MaxNotional = 3000
    MaxLoss = 200
    MinNotional = 1000
    MaxStopPct = 20
    LowestClose = 95
    HighestClose = 110
    Scale = 10
    Members = {"s1", "s2", "s3", "s4"}
    Sharpes = {0, 1, 2, 5, 9}
    Whole = 100000
    MinWeight = 1000
    MaxWeight = 40000
    Rounds = 50
    Floor = 25000
    Slots = {1, 2, 3}
    EntryWindow = {1, 2, 3}
    Shapes <- BarShapes
    Histories <- TwoHistories
    Chains <- OneChain
    MaxBars = 5
    MaxDay = 2
    SmaPeriod = 2
    Lookback = 1
    VolumeLookback = 1
    HighDays = 1
    OpeningBars = 1
    EmaPeriod = 2
    AtrPeriod = 1
    BandPeriod = 2
    SqueezeBars = 1
    RelativeVolume = 1
    Buffer = 1
    LimitPct = 1
    DipPct = 1
    GapPct = 2
    RunPct = 3
    RangePct = 100
    SqueezePct = 3
    Sides = {"long", "short"}
    MaxPrice = 7
    Entry = 5
    Risks = {3}
    Rules = {"profit_target", "no_follow_through", "giveback", "early_loss", "trend_filter", "vwap_breakdown", "profit_trail", "breakeven"}
    TargetR = 1
    TriggerR = 1
    TrailPct = 60
    BreakevenPct = 30
    BreakevenGapPct = 20
    StopCapPct = 20
    FavorablePct = 25
    LossPct = 25
    GivebackPct = 0
    MaxShareLoss = 0
    Atrs = {0, 1}
    MinHold = 1
    NoFollowAge = 2
    EarlyLossAge = 2
    MaxAge = 2
INVARIANTS
    SignalsAgree
    EntriesAreBounded
    ChoiceIsSound
    WeightsAreSound
    SlotsAreShared
    LevelsRatchet
    LossStaysCapped
PROPERTIES
    SignalsStand
    OneCyclePerBar
    KeepsContract
CHECK_DEADLOCK FALSE
