CONSTANTS
    p1 = p1
    p2 = p2
    r1 = r1
    r2 = r2
    j1 = j1
    j2 = j2
    Parts = {"repo"}
    People = {p1, p2}
    Teammates = {p2}
    RepoPlans <- ThreeJobs
    OrgRepos = {r1, r2}
    Releases = 2
    Orders = {j1, j2}
    MaxTime = 2
    Bounds <- SomeBounds
    Repos = {r1}
    Configs <- SomeConfigs
    Ladders <- SomeLadders
    Plans <- ReportPlans
SPECIFICATION Spec
INVARIANTS UnlistedLoseTheirRole
CHECK_DEADLOCK FALSE
