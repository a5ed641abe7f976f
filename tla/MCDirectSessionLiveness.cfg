CONSTANTS
    Retry = 1
    Heartbeat = 1
    Liveness = 1
    Reconnect = 2
    MaxHello = 3
    MaxAccept = 2
    MaxFlight = 1
    CallerNumbers = {0}
    SendFails = TRUE
    Garbage = TRUE
    Duplicates = FALSE
    Strangers = FALSE
SPECIFICATION FairSpec
PROPERTIES
    HalfOpenEnds
    ReconnectResolves
