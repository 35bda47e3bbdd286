CONSTANTS
    p1 = p1
    p2 = p2
    f1 = f1
    f2 = f2
    Nothing = Nothing
    Pids = {p1, p2}
    Inodes = {f1, f2}
    SystemInfs = {"a", "b"}
    Commands <- Many
    Uids = {"root", "user"}
SPECIFICATION FairSpec
INVARIANTS
    IInv
    OneDaemon
    StuckExplained
    ServersInOrder
PROPERTIES
    StartsEnd
    StopsWhenTold
    ReloadDone
