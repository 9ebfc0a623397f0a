SPECIFICATION FairSpec
CONSTANTS
    K1 = K1
    K2 = K2
    Key = {K1, K2}
    App = {t1, t2}
    Connector = {t1}
    Server = srv
    Role <- OneSide
    MaxEps = 3
    None = None
INVARIANTS
    TypeOK
    UseIsSafe
    LatestReachable
PROPERTY RemovedIsDestroyed
CHECK_DEADLOCK FALSE
