CONSTANTS
    Users = {u1}
    Names = {a, b}
    Ids = {i1, i2}
    Requests = {t1}
    Env = {}
    Visibility = {"PUBLIC"}
    MaxReapers = 1
    DamageBound = 7
    None = None
SPECIFICATION Spec
INVARIANT MovedBack
CHECK_DEADLOCK FALSE
