SPECIFICATION Spec
CONSTANTS
    w1 = w1
    w2 = w2
    p1 = p1
    p2 = p2
    Deliveries = {1}
    Workers = {w1, w2}
    Replayers = {p1}
    MaxRetries = 5
    MaxTasks = 2
    MaxCrashes = 1
    DelayCanFail = TRUE
    DlqSendCanFail = TRUE
INVARIANT TypeOK
CHECK_DEADLOCK FALSE
