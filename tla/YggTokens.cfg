SPECIFICATION TokenSpec
CONSTANTS
    u1 = u1
    f1 = f1
    Users = {u1}
    Profiles = {f1}
    Owner <- OneOwner
    Proc = {p1, p2}
    NULL = NULL
    MaxTok = 3
    Modes <- SmallModes
SYMMETRY Symmetry
INVARIANTS RevocationReachesCache ReplacedOnce ActiveBounded
CHECK_DEADLOCK FALSE
