CONSTANTS
    w1 = w1
    w2 = w2
    b1 = b1
    d1 = d1
    n1 = n1
    Jobs = {w1, w2}
    Kind <- KindOf
    Namespace <- OneNamespace
    Contents = {c1, c2}
    TrueContent = c1
    NoJob = NoJob
    VtaMode = FALSE
    MaxCrashes = 1
    MaxLosses = 1
    MaxForgets = 0
    MaxStrays = 0
SPECIFICATION FairSpec
INVARIANTS TypeOK NothingLost
PROPERTIES KeepsContract WorkIsAnswered
CHECK_DEADLOCK FALSE
