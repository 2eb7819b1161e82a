SPECIFICATION Spec
CONSTANTS
    Users = {u1}
    Proc = {p1, p2}
    Jti = {j1, j2, j3}
    Sid = {s1, s2}
    NULL = NULL
    SuperAdmin = root
    MaxEpoch = 2
    SerialBumps = TRUE
SYMMETRY Symmetry
INVARIANTS RedeemedOnce RowHeadsItsChain StaleTokenRejected ScopeMatchesVersion
PROPERTIES RevokedIsFinal
CHECK_DEADLOCK FALSE
