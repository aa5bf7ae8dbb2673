SPECIFICATION Spec
CONSTANTS
    Repos = {r1, r2}
    Names = {n1, n2}
    Files = {f1}
    Contents = {c1, c2}
    Requests = {t1, t2}
    Imports = {}
    QueueSize = 2
    Env = {"abort", "crash"}
    None = None
    DamageBound = 3
SYMMETRY Symmetry
CONSTRAINT Bounded
CHECK_DEADLOCK FALSE
INVARIANTS
    TypeOK
    RowsHaveObjects
    ChecksumHolds
    ObjectsHaveRows
    ExclusiveWriter
PROPERTIES
    ImplementsOffers
