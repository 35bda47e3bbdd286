CONSTANTS
    c1 = c1
    c2 = c2
    Nothing = Nothing
    NInf = 1
    InfOf <- OnOne
    ForwardTimeout = 1
    ReactivateInterval = 1
    MaxSockets = 2
    FirstFd = 0
    MaxFd = 5
    Clients = {c1, c2}
    Questions <- OneClient
    ProbeIds = {11, 12, 13, 14, 15, 16, 17}
    Collisions = {}
    Routes <- NoHosts
    Flaky = {}
    ReplyKinds = {"ok", "fail"}
    Signals = FALSE
    MaxSent = 2
    MaxFlight = 1
SPECIFICATION Spec
INVARIANTS
    RunsContinuously
CHECK_DEADLOCK FALSE
