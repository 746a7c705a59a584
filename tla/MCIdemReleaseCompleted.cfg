SPECIFICATION Spec
CONSTANTS
    NumRequests = 2
    LockCanExpire = TRUE
    ErrorAfterCommit = FALSE
PROPERTY CompletedPersists
CHECK_DEADLOCK FALSE
