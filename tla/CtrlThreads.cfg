SPECIFICATION Spec
CONSTANTS
    Rank = {1, 2, 3}
    Dials <- OneWay
    Writer = {1, 2}
    Serial = FALSE
    MaxConns = 2
    MaxMsgs = 2
    None = None
INVARIANT FramesIntact
CHECK_DEADLOCK FALSE
