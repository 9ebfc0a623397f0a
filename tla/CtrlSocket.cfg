SPECIFICATION Spec
CONSTANTS
    Rank = {1, 2, 3}
    Dials <- OneWay
    Writer = {1, 2}
    Serial = TRUE
    MaxConns = 2
    MaxMsgs = 2
    None = None
INVARIANTS
    TypeOK
    EndsOwned
    Paired
    FramesIntact
CHECK_DEADLOCK FALSE
