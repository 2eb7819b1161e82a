SPECIFICATION Spec
CONSTANTS
    c1 = c1
    c2 = c2
    s1 = s1
    s2 = s2
    e1 = e1
    e2 = e2
    MaxProv = 2
    Subjects = {s1, s2}
    Emails = {e1, e2}
    Clients = {c1, c2}
    MaxUser = 4
    MaxFlow = 4
    Workloads <- AllLoads
    None = None
INVARIANTS FlowSpentOnce EntryIsRight LinksConsistent
PROPERTIES MailLinksProven
CHECK_DEADLOCK FALSE
