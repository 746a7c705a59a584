\* One prefork process: a single caller runs deposit and withdrawal jobs in
\* turn against the one breaker.
CONSTANTS
    Callers = {c1}
    FailureThreshold = 5
    SuccessThreshold = 2
SPECIFICATION Spec
PROPERTY RejectsOnlyOwnKind
