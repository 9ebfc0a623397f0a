SPECIFICATION FairSpec
CONSTANTS
    t1 = t1
    t2 = t2
    Thread <- MCThread
    NumQPs = 2
    MaxOps = 3
    Usages <- SafeUsages
    Breakable = {1}
    None = None
INVARIANTS
    TypeOK
    SuccessMeansExecuted
    NoMissedWakeup
    CompletionsKept
PROPERTY WaitsReturn
CHECK_DEADLOCK FALSE
