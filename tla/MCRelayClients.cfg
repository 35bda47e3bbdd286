CONSTANTS
    c1 = c1
    c2 = c2
    Nothing = Nothing
    NInf = 2
    InfOf <- OneEach
    ForwardTimeout = 0
    ReactivateInterval = 1
    MaxSockets = 4
    FirstFd = 0
    MaxFd = 6
    Clients = {c1, c2}
    Questions <- OwnIds
    ProbeIds = {11, 12, 13, 14, 15, 16, 17}
    Collisions = {}
    Routes <- NoHosts
    Flaky = {}
    ReplyKinds = {"ok", "fail"}
    Signals = FALSE
    MaxSent = 1
    MaxFlight = 1
SPECIFICATION Spec

    
PROPERTIES
    ImplementsService
CHECK_DEADLOCK FALSE
