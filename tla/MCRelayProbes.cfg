CONSTANTS
    c1 = c1
    c2 = c2
    Nothing = Nothing
    NInf = 1
    InfOf <- OnOne
    ForwardTimeout = 1
    ReactivateInterval = 1
    MaxSockets = 2
    FirstFd = 1
    MaxFd = 4
    Clients = {c1, c2}
    Questions <- OneClient
    ProbeIds = {11, 12, 13, 14, 15, 16, 17}
    Collisions = {1}
    Routes <- NoHosts
    Flaky = {}
    ReplyKinds = {"ok", "fail", "bad"}
    Signals = FALSE
    MaxSent = 2
    MaxFlight = 1
SPECIFICATION Spec
INVARIANTS
    TypeOK
    SocketsAccounted
    ClientIdsUnique
PROPERTIES
    ImplementsService
