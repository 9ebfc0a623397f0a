SPECIFICATION FairSpec
CONSTANTS
    Client = {c1, c2}
    KeyOf <- OwnKeys
    Tries <- MCTries
    Serials = {TRUE, FALSE}
    MaxCalls = 3
    None = None
INVARIANTS
    TypeOK
    EstablishedIsOurs
    MetadataMatches
    ServerKnows
PROPERTIES
    ServerReturns
    ConnectReturns
CHECK_DEADLOCK FALSE
