SPECIFICATION Spec
CONSTANTS
    Tasks = {t1,t2}
    Disps = {d1,d2}
    Admins = {a1}
    NULL = NULL
    MaxAttempts = 2
    Limit = 1
    Faults = 2
    Resets = 1
    Stalls = FALSE
SYMMETRY Symmetry
INVARIANTS WithinLimit AttemptsCounted
CHECK_DEADLOCK FALSE
