SPECIFICATION MCHeraldSpec
CONSTANTS
    HeraldParts = {"herald", "okx", "store"}
    TFs = {1, 2}
    Capacity = 3
    Base = 1
    Htf = 2
    Started = 1
    MaxTime = 3
    MaxOutages = 1
    MaxControl = 2
    Kinds <- AllKinds
    MaxBars = 4
    Trades = 2
    MaxDrops = 1
    Users = {"u", "v"}
    Names = {1, 2}
    Backends = {"mem", "pg"}
    Asked <- LowestAndHighest
    MaxVersion = 2
    MaxCalls = 3
INVARIANTS NothingElseLost HigherInStep HandsCurrent OnlyClosedBars NothingMissed ChainsPartition
PROPERTIES LedgerSound TableSound
CHECK_DEADLOCK FALSE
