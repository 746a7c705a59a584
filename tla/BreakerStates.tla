----------------------------- MODULE BreakerStates -----------------------------
(***************************************************************************)
(* What the circuit breaker promises its callers (spec section 4.4),      *)
(* with the counters hidden: CLOSED and HALF_OPEN let calls through, OPEN *)
(* rejects them until timeout_seconds have passed since the last failure, *)
(* and then lets the next call through as a HALF_OPEN probe.  Only a      *)
(* recorded failure opens the breaker (from CLOSED or HALF_OPEN), only a  *)
(* recorded success closes it (from HALF_OPEN), and a failure restarts    *)
(* the timeout.  Answers that are neither leave it alone.                 *)
(***************************************************************************)
CONSTANT Callers

VARIABLES
    state,     \* CLOSED, OPEN or HALF_OPEN
    timedOut,  \* timeout_seconds have passed since the last failure
    call       \* [Callers -> {"idle", "calling", "rejected"}]

Init ==
    /\ state = "CLOSED"
    /\ timedOut = FALSE
    /\ call = [c \in Callers |-> "idle"]

(* Caller c's call goes from phase p to phase q.                          *)
Phase(c, p, q) ==
    /\ call[c] = p
    /\ call' = [call EXCEPT ![c] = q]

Admit(c) ==
    /\ Phase(c, "idle", "calling")
    /\ state # "OPEN" \/ timedOut
    /\ state' = IF state = "OPEN" THEN "HALF_OPEN" ELSE state
    /\ UNCHANGED timedOut

Refuse(c) ==
    /\ Phase(c, "idle", "rejected")
    /\ state = "OPEN" /\ ~timedOut
    /\ UNCHANGED <<state, timedOut>>

Return(c) ==
    /\ Phase(c, "rejected", "idle")
    /\ UNCHANGED <<state, timedOut>>

(* A success closes a HALF_OPEN breaker or leaves it probing.             *)
Succeed(c) ==
    /\ Phase(c, "calling", "idle")
    /\ state' \in IF state = "HALF_OPEN" THEN {"HALF_OPEN", "CLOSED"} ELSE {state}
    /\ UNCHANGED timedOut

(* A failure may open a CLOSED breaker and opens any other one.            *)
Fail(c) ==
    /\ Phase(c, "calling", "idle")
    /\ state' \in IF state = "CLOSED" THEN {"CLOSED", "OPEN"} ELSE {"OPEN"}
    /\ timedOut' = FALSE

(* An answer that is neither a success nor a failure.                     *)
Neutral(c) ==
    /\ Phase(c, "calling", "idle")
    /\ UNCHANGED <<state, timedOut>>

Elapse ==
    /\ ~timedOut
    /\ timedOut' = TRUE
    /\ UNCHANGED <<state, call>>

Next ==
    \/ \E c \in Callers :
          Admit(c) \/ Refuse(c) \/ Return(c) \/ Succeed(c) \/ Fail(c) \/ Neutral(c)
    \/ Elapse

Spec == Init /\ [][Next]_<<state, timedOut, call>>

=============================================================================
