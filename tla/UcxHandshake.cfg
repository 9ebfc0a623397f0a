SPECIFICATION FairSpec
CONSTANTS
    C1 = c1
    S1 = s1
    Client = {c1, c2}
    Server = {s1, s2}
    Peers <- Crossing
    Ip <- OneHost
    Port <- OwnPorts
    MaxCalls = 3
    MaxFaults = 1
    None = None
INVARIANTS
    TypeOK
    PeerMetadata
    TableAgrees
PROPERTIES
    ConnectsReturn
CHECK_DEADLOCK FALSE
