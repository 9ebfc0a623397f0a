SPECIFICATION FairSpec
CONSTANTS
    W = 3
    Chunks <- MCChunks
    Algos = {"direct", "ring"}
    Ucx <- MCUcx
    MaxCalls = 2
    None = None
INVARIANTS
    TypeOK
    DirectExchanges
    ConnectsSafely
PROPERTY CallsReturn
CHECK_DEADLOCK FALSE
