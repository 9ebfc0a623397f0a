SPECIFICATION FairSpec
CONSTANTS
    t1 = t1
    t2 = t2
    Thread <- MCThread
    NumQPs = 2
    MaxOps = 2
    Usages <- OverlapUsages
    Breakable = {}
    None = None
PROPERTY WaitsReturn
CHECK_DEADLOCK FALSE
