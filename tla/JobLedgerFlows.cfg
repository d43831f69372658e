CONSTANTS
    w1 = w1
    w2 = w2
    b1 = b1
    d1 = d1
    n1 = n1
    Jobs = {b1, d1}
    Kind <- KindOf
    Namespace <- OneNamespace
    Contents = {c1}
    TrueContent = c1
    NoJob = NoJob
    VtaMode = TRUE
    MaxCrashes = 1
    MaxLosses = 0
    MaxForgets = 1
    MaxStrays = 1
SPECIFICATION FairSpec
INVARIANTS OneResult FlowsAgree
PROPERTIES FinishedIsFinal FlowsAreSettled
CHECK_DEADLOCK FALSE
