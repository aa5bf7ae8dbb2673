CONSTANTS
    Users = {u1}
    Names = {a, b}
    Ids = {i1, i2}
    Requests = {t1, t2}
    Env = {}
    Visibility = {"PUBLIC"}
    MaxReapers = 1
    DamageBound = 7
    None = None
SPECIFICATION FairSpec
PROPERTY RequestsEnd
CHECK_DEADLOCK FALSE
