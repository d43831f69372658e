CONSTANTS
    Repos = {r1, r2, r3}
    Versions = {1}
    MaxJobs = 4
    MaxFaults = 1
    MaxEdits = 0
SPECIFICATION Spec
INVARIANTS KeptUntilArchived
CHECK_DEADLOCK FALSE
