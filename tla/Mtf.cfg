SPECIFICATION MCSpec
CONSTANTS
    Base = 1
    WarmBars = 2
    Depth = 2
    TFs = {1, 2, 4}
    Feeds <- AllFeeds
    WindowSize = 2
    Warmups = {{}, {3}}
    Horizon = 6
    Period = 2
    AggTimes = {0, 1, 2, 3, 4, 5}
    AggPrices = {1, 2, 3}
    Requests <- SomeRequests
    Stores <- SomeStores
    DayLen = 1
    MAX_WARMUP_BARS = 4
    MTF_NAMED_WARMUP = 2
    MAX_BARS = 5
INVARIANTS StrategyFed RequestsSound
PROPERTIES ImplementsAsOf NoPastFill FeedsDrained
CHECK_DEADLOCK FALSE
