SPECIFICATION MCSpec
CONSTANTS
    Parts = {"engine", "multi", "account", "walk", "metrics", "curve", "montecarlo", "rows"}
    Configs <- AllConfigs
    BarLevels = {2, 3, 4}
    Scale = 4
    CommissionPct = 1
    SlippagePct = 0
    MaxHeld = 2
    Feeds <- TwoFeeds
    MultiBars <- ThreeBars
    SizerChoices <- EverySizer
    MultiCapital = 20
    BarCounts = {1, 3, 5, 6, 7}
    WfConfigs <- SomeWindows
    Capital = 5
    Prices = {1, 3}
    Sizes = {1, 2, 3}
    Fees = {0, 2}
    MaxLeg = 2
    MaxQty = 3
    MaxRealized = 8
    Subjects = {"curve", "trades", "calendar"}
    Equities = {1, 2, 3}
    Gaps = {1, 60, 700}
    PerDay = 2
    MaxPoints = 4
    InitialCapital = 2
    Pnls <- SomePnls
    MaxTrades = 4
    Starts <- SomeStarts
    MaxDays = 800
    CurveValues = {1, 2, 3}
    MaxCurve = 7
    Targets = {2, 3, 4}
    TradeFactors <- SomeFactors
    StartCapital = 8
    RuinFloor = 4
    Iterations = 3
    Directories <- SomeDirectories
    MaxReads = 8
INVARIANTS EngineBooks ExitsWatch FeedsAndSlots AccountSound WindowsSound ReportAgrees CurvesSound
PROPERTIES EngineSteps
CHECK_DEADLOCK FALSE
