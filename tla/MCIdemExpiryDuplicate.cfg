SPECIFICATION Spec
CONSTANTS
    NumRequests = 2
    LockCanExpire = TRUE
    ErrorAfterCommit = FALSE
INVARIANT AtMostOneExecution
CHECK_DEADLOCK FALSE
