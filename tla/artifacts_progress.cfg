SPECIFICATION FairSpec
CONSTANTS
    Repos = {r1, r2}
    Names = {n1, n2}
    Files = {f1}
    Contents = {c1}
    Requests = {t1, t2}
    Imports = {r1}
    QueueSize = 1
    Env = {}
    None = None
    DamageBound = 8
CHECK_DEADLOCK FALSE
PROPERTY RequestsEnd
