SPECIFICATION Spec
CONSTANTS
    i1 = i1
    i2 = i2
    u1 = u1
    u2 = u2
    h1 = h1
    h2 = h2
    Instances = {i1, i2}
    Users = {u1, u2}
    Hosts = {h1, h2}
    Origins <- MCSharedHost
    UserIdOnState = FALSE
    Offset <- MCSkewedClocks
    Limit = 2
    Window = 4
    MaxTime = 6
    MaxRequests = 5
    DistinctStamps = TRUE
INVARIANTS WindowLimit
CHECK_DEADLOCK FALSE
