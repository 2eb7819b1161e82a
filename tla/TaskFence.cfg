SPECIFICATION FairSpec
CONSTANTS
    Tasks = {t1}
    Disps = {d1,d2}
    Admins = {a1,a2}
    NULL = NULL
    MaxAttempts = 2
    Limit = 1
    Faults = 3
    Resets = 2
    Stalls = TRUE
INVARIANTS UniqueLease OwnerFinishes
PROPERTIES ImplementsLifecycle TaskEnds
CHECK_DEADLOCK FALSE
