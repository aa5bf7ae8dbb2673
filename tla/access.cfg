SPECIFICATION Spec
CONSTANTS
    alice = alice
    bob = bob
    i1 = i1
    i2 = i2
    Users = {alice, bob}
    Owners = {alice}
    Nobody = Nobody
    Names = {n1, n2}
    Ids = {i1, i2}
    Keys = {key1}
    Visibility = {"PUBLIC", "UNLISTED", "PRIVATE"}
    Sessions = {s1}
    Kinds = {"shell", "key", "web", "api", "http"}
    None = None
SYMMETRY Symmetry
CHECK_DEADLOCK FALSE
INVARIANTS
    TypeOK
    DecisionsAgree
    ListsAgree
    SteadyPathsAreFound
