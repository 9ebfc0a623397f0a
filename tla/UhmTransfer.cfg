SPECIFICATION FairSpec
CONSTANTS
    NumChunks = 4
    NumQPs = 2
    Settings <- MCSettings
    Capacities = {1, 4}
    None = None
INVARIANTS
    TypeOK
    FlowControl
    RightOrOvertaken
    IntactWhenSerialized
PROPERTIES
    MetCompletes
    ImplementsChannel
CHECK_DEADLOCK FALSE
