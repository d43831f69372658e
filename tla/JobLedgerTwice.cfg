CONSTANTS
    w1 = w1
    w2 = w2
    b1 = b1
    d1 = d1
    n1 = n1
    Jobs = {w1, d1}
    Kind <- KindOf
    Namespace <- OneNamespace
    Contents = {c1}
    TrueContent = c1
    NoJob = NoJob
    VtaMode = FALSE
    MaxCrashes = 1
    MaxLosses = 0
    MaxForgets = 0
    MaxStrays = 0
SPECIFICATION Spec
INVARIANTS OneResult
CHECK_DEADLOCK FALSE
