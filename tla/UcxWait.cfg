SPECIFICATION Spec
CONSTANTS
    Ep = {e1, e2}
    Thread = {t1, t2}
    MaxOps = 3
    Usages <- OrderlyUsages
    None = None
INVARIANTS
    TypeOK
    SuccessMeansDone
    RequestsOwned
    WaitsOnLive
CHECK_DEADLOCK FALSE
