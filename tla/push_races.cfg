SPECIFICATION Spec
CONSTANTS
    Users = {owner}
    Owner = owner
    Names = {n1, n2}
    Repos = {r1, r2}
    Pushes = {p1, p2}
    Branches = {main, dev}
    Tags = {}
    Default = main
    c1 = c1
    c2 = c2
    c3 = c3
    m1 = m1
    m2 = m2
    m3 = m3
    main = main
    dev = dev
    tag = tag
    Commits = {c1}
    Manifests <- OneManifest
    Rules <- NoRules
    Limit = 1
    Visibility = {"PRIVATE"}
    Asks <- NoAsks
    Env = {"rename", "delete", "fail"}
    None = None
SYMMETRY Symmetry
CHECK_DEADLOCK FALSE
INVARIANTS
    PushesLand
    HeadResolves
