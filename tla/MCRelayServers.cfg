CONSTANTS
    c1 = c1
    c2 = c2
    Nothing = Nothing
    NInf = 2
    InfOf <- TwoAndOne
    ForwardTimeout = 1
    ReactivateInterval = 1
    MaxSockets = 2
    FirstFd = 1
    MaxFd = 5
    Clients = {c1, c2}
    Questions <- OneClient
    ProbeIds = {11, 12, 13, 14, 15, 16, 17}
    Collisions = {}
    Routes <- SomeHosts
    Flaky = {1}
    ReplyKinds = {"ok", "fail"}
    Signals = TRUE
    MaxSent = 1
    MaxFlight = 1
SPECIFICATION Spec
INVARIANTS
    IInv
    CurrentActive
    SocketLimit
PROPERTIES
    DeactivatedForSilence
