SPECIFICATION StoreSpec
CONSTANTS
    u1 = u1
    u2 = u2
    p1 = p1
    p2 = p2
    h1 = h1
    h2 = h2
    h3 = h3
    c1 = c1
    c2 = c2
    Users = {u1, u2}
    Profiles = {p1, p2}
    OwnerOf <- Owners
    Types = {"skin"}
    Hashes = {h1, h2, h3}
    Clients = {c1, c2}
    MaxTex = 2
    MaxStamp = 4
    Attempts = 2
    MaxVersion = 3
    StoreLoads <- AllLoads
    None = None
SYMMETRY ClientSymmetry
INVARIANTS ObjectsInPlace ObjectsAllUsed PropertiesFresh
CHECK_DEADLOCK FALSE
