SPECIFICATION Spec
CONSTANTS
    w1 = w1
    w2 = w2
    p1 = p1
    p2 = p2
    Deliveries = {1}
    Workers = {w1, w2}
    Replayers = {}
    MaxRetries = 5
    MaxTasks = 1
    MaxCrashes = 0
    DelayCanFail = FALSE
    DlqSendCanFail = FALSE
PROPERTY FailedIsFinal
CHECK_DEADLOCK FALSE
