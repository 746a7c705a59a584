SPECIFICATION Spec
CONSTANTS
    NumRequests = 3
    LockCanExpire = TRUE
    ErrorAfterCommit = TRUE
INVARIANT TypeOK
PROPERTY KeyEventuallyFree
CHECK_DEADLOCK FALSE
