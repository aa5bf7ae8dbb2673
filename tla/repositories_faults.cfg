CONSTANTS
    Users = {u1}
    Names = {a, b}
    Ids = {i1, i2}
    Requests = {t1, t2}
    Env = {"abort", "crash", "slow_remove"}
    Visibility = {"PUBLIC", "PRIVATE"}
    MaxReapers = 1
    DamageBound = 1
    None = None
SPECIFICATION Spec
CONSTRAINT Bounded
SYMMETRY Symmetry
INVARIANTS TypeOK RowsHaveDirectories DirectoriesHaveRows ExportFollowsVisibility OneDirectory
CHECK_DEADLOCK FALSE
