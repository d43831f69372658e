CONSTANTS
    c1 = c1
    c2 = c2
    h1 = h1
    h2 = h2
    p1 = p1
    p2 = p2
    main = main
    side = side
    Commits = {c1, c2}
    Heads = {h1, h2}
    Reach <- Below
    Pulls = {p1, p2}
    Branches = {main, side}
    Protected = main
    Held <- First
    Nothing = Nothing
    Permits = 2
    MaxArrivals = 4
    Plans <- CheckPlans
SPECIFICATION FairSpec
INVARIANTS TypeOK NothingUnvouched NewestVerdictStands
PROPERTIES VerdictsArrive
CHECK_DEADLOCK FALSE
