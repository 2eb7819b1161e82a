SPECIFICATION Spec
CONSTANTS
    c1 = c1
    c2 = c2
    k1 = k1
    k2 = k2
    Users = {u1, u2}
    Contents = {k1, k2}
    Names = {n1, n2}
    Clients = {c1, c2}
    MaxTex = 2
    MaxTag = 2
    MaxReport = 2
    Workloads <- AllLoads
    None = None
INVARIANTS ListingIsRight LibraryConsistent
PROPERTIES VerdictIsFinal
CHECK_DEADLOCK FALSE
