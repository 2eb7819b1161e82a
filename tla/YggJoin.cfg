SPECIFICATION Spec
CONSTANTS
    c1 = c1
    c2 = c2
    v1 = v1
    v2 = v2
    v3 = v3
    m1 = m1
    i1 = i1
    i2 = i2
    Users = {v1, v2, v3}
    Names = {1, 2, 3, 4}
    Ips = {i1, i2}
    Servers = {s1}
    Official = {m1}
    Norm <- NormOf
    Clients = {c1, c2}
    MaxProfile = 3
    MaxBan = 2
    MaxEvent = 3
    MaxFwd = 3
    MaxTime = 2
    MaxProfiles = 2
    MaxRenames = 1
    Workloads <- AllLoads
    None = None
INVARIANTS AnswerIsRight LogTellsBan ProfilesConsistent
CHECK_DEADLOCK FALSE
