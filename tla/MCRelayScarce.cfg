CONSTANTS
    c1 = c1
    c2 = c2
    Nothing = Nothing
    NInf = 1
    InfOf <- OnOne
    ForwardTimeout = 1
    ReactivateInterval = 1
    MaxSockets = 3
    FirstFd = 1
    MaxFd = 3
    Clients = {c1, c2}
    Questions <- OneClient
    ProbeIds = {11, 12, 13, 14, 15, 16, 17}
    Collisions = {}
    Routes <- NoHosts
    Flaky = {}
    ReplyKinds = {"ok", "fail", "bad"}
    Signals = TRUE
    MaxSent = 2
    MaxFlight = 1
SPECIFICATION FairSpec
INVARIANTS
    SocketsAccounted
PROPERTIES
    QueriesEnd
    RoundsEnd
    SilentDeactivated
