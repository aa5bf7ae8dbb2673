CONSTANTS
    Users = {u1}
    Names = {a, b, c}
    Ids = {i1, i2}
    Requests = {t1, t2}
    Env = {}
    Visibility = {"PUBLIC"}
    MaxReapers = 1
    DamageBound = 2
    None = None
SPECIFICATION Spec
CONSTRAINT Bounded
SYMMETRY Symmetry
INVARIANTS KeysUnique NamesKept RedirectsTruthful
PROPERTIES ImplementsNames LinksKept
CHECK_DEADLOCK FALSE
