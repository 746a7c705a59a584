SPECIFICATION Spec
CONSTANTS
    NumRequests = 3
    LockCanExpire = FALSE
    ErrorAfterCommit = FALSE
INVARIANTS AtMostOneExecution ReplayMatchesFirst
PROPERTIES CompletedPersists ImplementsIdempotentCall
CHECK_DEADLOCK FALSE
