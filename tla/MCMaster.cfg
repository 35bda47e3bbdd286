CONSTANTS
    Packets <- AllPackets
    DestSize = 40
    UdpMaxSize = 512
    HostsFiles <- AllHostsFiles
    Disks <- AllDisks
    Garbage <- AnyGarbage
    ARPADOMAIN <- Arpa_
    Localhost <- Localhost_
    Loopback <- Loopback_
    AuthOption <- Auth_
SPECIFICATION FairSpec
INVARIANTS
    NameInv
    MasterInv
    DecodesTheName
    
    AnswerReadsBack
PROPERTIES
    NamesEnd
