CONSTANTS
    a = a
    b = b
    r1 = r1
    Names = {a, b}
    Repos = {r1}
    Nobody = Nobody
    Plans <- LifePlans
SPECIFICATION Spec
INVARIANTS TypeOK OneRecordPerOwner ReboundWhole
PROPERTIES OrphanedOnFreshWord
CHECK_DEADLOCK FALSE
