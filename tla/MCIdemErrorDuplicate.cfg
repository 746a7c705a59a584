SPECIFICATION Spec
CONSTANTS
    NumRequests = 2
    LockCanExpire = FALSE
    ErrorAfterCommit = TRUE
INVARIANT AtMostOneExecution
CHECK_DEADLOCK FALSE
