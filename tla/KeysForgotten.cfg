CONSTANTS
    o1 = o1
    o2 = o2
    x = x
    y = y
    i1 = i1
    i2 = i2
    h1 = h1
    h2 = h2
    k1 = k1
    k2 = k2
    Owners = {o1, o2}
    Names = {x, y}
    Ids = {i1, i2}
    Nothing = Nothing
    HookPlans <- SomeHookPlans
    MaxHeads = 5
    MaxSeconds = 2
    MaxPushes = 3
    Permits = 2
    Concurrent = 2
    SignPlans <- SomeSignPlans
    MaxKeys = 2
    MaxTicks = 2
    Horizon = 1
    KeyPlans <- SomeKeyPlans
    Hosts = {h1}
    Records = {k1, k2}
    Big = {k2}
    NoHost = NoHost
    MaxValues = 3
    MirrorPlans <- SomeMirrorPlans
    Processes = {h1, h2}
    Nobody = NoHost
    Secrets = {k1}
    Plain = {k2}
    Half = 3
    Timeout = 1
    MaxSkew = 1
    Clocks <- OneAhead
    Attempts = 3
    LeaseEnd = 7
    LeasePlans <- SomeLeasePlans
    Parts = {"keys"}
SPECIFICATION Spec
PROPERTIES CurrentInTheEnd
CHECK_DEADLOCK FALSE
