CONSTANTS
    h1 = h1
    h2 = h2
    k1 = k1
    k2 = k2
    Hosts = {h1, h2}
    Keys = {k1, k2}
    Big = {}
    NoHost = NoHost
    MaxValues = 4
    Plans <- MixedPlans
SPECIFICATION Spec
INVARIANTS TypeOK NothingUndone StopsOnlyForOthers
CHECK_DEADLOCK FALSE
