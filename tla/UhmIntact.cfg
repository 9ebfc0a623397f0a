SPECIFICATION Spec
CONSTANTS
    NumChunks = 4
    NumQPs = 2
    Settings <- MCSettings
    Capacities = {4}
    None = None
INVARIANT EveryChunkIntact
CHECK_DEADLOCK FALSE
