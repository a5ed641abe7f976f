CONSTANTS
    Retry = 1
    Heartbeat = 1
    Liveness = 2
    Reconnect = 2
    MaxHello = 3
    MaxAccept = 2
    MaxFlight = 1
    CallerNumbers = {0}
    SendFails = TRUE
    Garbage = TRUE
    Duplicates = TRUE
    Strangers = TRUE
SPECIFICATION Spec
INVARIANTS
    HandshakeRetried
    ConnectedWasAccepted
PROPERTIES
    PeerStaysPinned
    FollowsLifecycle
