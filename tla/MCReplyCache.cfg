CONSTANTS
    Null = Null
    Cells = {1, 2, 3}
    Keys = {k1, k2}
    Srvs = {s1}
    NegTime = 1
    PosTime = 2
    MaxTime = 3
    MinCycle = 1
    LowWater = 1
    HighWater = 2
    Params <- SomeParams
    IgnoreInactive = TRUE
    RoundTime = 1
    MaxAge = 6
SPECIFICATION FairSpec
INVARIANTS
    TypeOK
    ListWhole
    IInv
    LoopOnList
    MarksOrdered
    FreshEnough
PROPERTIES
    DownToLow
    EntriesEnd
    ImplementsStore
