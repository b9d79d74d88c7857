SPECIFICATION ServicesSpec
CONSTANTS
    Services = {"registration", "publisher"}
    Hands = {"a", "c"}
    Symbols <- OneAndTwo
    Refused = {"c"}
    MaxCommands = 2
    MaxFaults = 1
    MaxSignals = 3
    ChannelSize = 1
    MaxInFlight = 2
    MaxRetries = 3
INVARIANTS PublisherSound
PROPERTIES Converges Settles
CHECK_DEADLOCK FALSE
