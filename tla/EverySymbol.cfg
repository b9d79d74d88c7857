SPECIFICATION AttentiveSpec
CONSTANTS
    Services = {"registration"}
    Hands = {"b", "c"}
    Symbols <- OneAndTwo
    Refused = {"c"}
    MaxCommands = 1
    MaxFaults = 1
    MaxSignals = 3
    ChannelSize = 1
    MaxInFlight = 2
    MaxRetries = 3
PROPERTY EverySymbol
CHECK_DEADLOCK FALSE
