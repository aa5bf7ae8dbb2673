SPECIFICATION Spec
CONSTANTS
    Users = {owner, other}
    Owner = owner
    Names = {n1}
    Repos = {r1}
    Pushes = {p1}
    Branches = {main}
    Tags = {tag}
    Default = main
    c1 = c1
    c2 = c2
    c3 = c3
    m1 = m1
    m2 = m2
    m3 = m3
    main = main
    dev = dev
    tag = tag
    Commits = {c1, c2, c3}
    Manifests <- ManyManifests
    Rules <- ManyRules
    Limit = 2
    Visibility = {"PUBLIC", "PRIVATE"}
    Asks <- AllAsks
    Env = {"visibility", "expire", "fail"}
    None = None
CHECK_DEADLOCK FALSE
INVARIANTS
    TypeOK
    BuildsBounded
    CommitsBuilt
    BuildsVisibleAlike
