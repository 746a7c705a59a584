\* Two threads share the breaker with the code's thresholds (5 failures to
\* open, 2 successes to close); the bank may recover at any point.
CONSTANTS
    Callers = {c1, c2}
    FailureThreshold = 5
    SuccessThreshold = 2
SPECIFICATION Spec
INVARIANTS TypeOK ClosedBelowThreshold
PROPERTIES EventuallyCloses ImplementsBreakerStates
