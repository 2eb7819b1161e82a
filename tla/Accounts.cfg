SPECIFICATION Spec
CONSTANTS
    c1 = c1
    c2 = c2
    e1 = e1
    e2 = e2
    e3 = e3
    Emails = {e1, e2, e3}
    Clients = {c1, c2}
    MaxUser = 3
    MaxTok = 4
    MaxInv = 3
    Workloads <- AllLoads
    None = None
INVARIANTS SpentOnce AddressProven AccountsConsistent
CHECK_DEADLOCK FALSE
