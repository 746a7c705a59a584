SPECIFICATION Spec
CONSTANTS
    NumRequests = 3
    LockCanExpire = TRUE
    ErrorAfterCommit = FALSE
INVARIANT ReplayMatchesFirst
CHECK_DEADLOCK FALSE
