--------------------------- MODULE CircuitBreaker ---------------------------
(***************************************************************************)
(* The circuit breaker of infrastructure/external/circuit_breaker.py as    *)
(* used by BankSimulator.process_deposit / process_withdrawal              *)
(* (infrastructure/external/bank_simulator.py): one module-level breaker,  *)
(* _bank_circuit_breaker, for every bank call of the process.              *)
(*                                                                         *)
(* Each method of the breaker holds self.lock, so each is one atomic step. *)
(* A bank call is two steps of its caller: can_execute(), then, after the  *)
(* network delay, the answer and its record_success / record_failure.     *)
(* Callers are the threads of one worker process that call the bank; with *)
(* the prefork pool there is one, with a thread pool several.             *)
(*                                                                         *)
(* Time is abstracted to what _should_attempt_reset reads: whether a      *)
(* failure was ever stamped (last_failure_time is not None) and whether   *)
(* timeout_seconds have passed since the last stamp.                      *)
(***************************************************************************)
EXTENDS Naturals

CONSTANTS
    Callers,           \* threads calling the bank (model values)
    FailureThreshold,  \* failure_threshold (5 in bank_simulator.py)
    SuccessThreshold   \* success_threshold (2 in bank_simulator.py)

ASSUME BreakerAssumption ==
    /\ FailureThreshold \in Nat \ {0}
    /\ SuccessThreshold \in Nat \ {0}

States == {"CLOSED", "OPEN", "HALF_OPEN"}

(* process_deposit and process_withdrawal share the one breaker.          *)
Kinds == {"DEPOSIT", "WITHDRAWAL"}

(* The answers of the bank simulator, grouped by what the breaker does     *)
(* with them: SUCCESS is recorded as a success, TIMEOUT, UNAVAILABLE and a *)
(* raised exception as a failure, INSUFFICIENT_FUNDS not at all.           *)
Answers == {"SUCCESS", "TIMEOUT", "UNAVAILABLE", "EXCEPTION", "INSUFFICIENT_FUNDS"}
FailureAnswers == {"TIMEOUT", "UNAVAILABLE", "EXCEPTION"}

VARIABLES
    state,           \* self.state
    failure_count,   \* self.failure_count
    success_count,   \* self.success_count
    stamped,         \* self.last_failure_time is not None
    expired,         \* timeout_seconds have passed since last_failure_time
    cpc,             \* [Callers -> {"idle", "calling", "rejected"}]: where
                     \* each caller is in process_deposit/_withdrawal
    kind,            \* [Callers -> Kinds]: which of the two it is in
    healthy,         \* the bank has recovered: it answers SUCCESS from now on
    failedKinds      \* kinds of the calls whose failures were recorded since
                     \* the breaker was last CLOSED (history only)

vars == <<state, failure_count, success_count, stamped, expired, cpc, kind,
          healthy, failedKinds>>

(* _transition_to_open *)
ToOpen ==
    /\ state' = "OPEN"
    /\ success_count' = 0

(* _transition_to_half_open: both counters reset.                          *)
ToHalfOpen ==
    /\ state' = "HALF_OPEN"
    /\ failure_count' = 0
    /\ success_count' = 0

(* _transition_to_closed: both counters reset (and the history of the     *)
(* failed kinds starts afresh).                                            *)
ToClosed ==
    /\ state' = "CLOSED"
    /\ failure_count' = 0
    /\ success_count' = 0
    /\ failedKinds' = {}

(***************************************************************************)
(* Plausible bugs of the code below, used by the mutation runs.           *)
(***************************************************************************)
\* RecordSuccess: the HALF_OPEN branch missing, every success handled as
\* in CLOSED.
RecordSuccessNoCount ==
    /\ failure_count' = 0
    /\ UNCHANGED <<state, success_count, failedKinds>>

\* RecordSuccess: the threshold compared with the count before it is
\* incremented, so HALF_OPEN needs one success more to close.
RecordSuccessLate ==
    IF state = "HALF_OPEN"
      THEN IF success_count >= SuccessThreshold
             THEN /\ state' = "CLOSED"
                  /\ failure_count' = 0
                  /\ success_count' = 0
                  /\ failedKinds' = {}
             ELSE /\ success_count' = success_count + 1
                  /\ UNCHANGED <<state, failure_count, failedKinds>>
      ELSE /\ failure_count' = 0
           /\ UNCHANGED <<state, success_count, failedKinds>>

\* CanExecute: an OPEN breaker let through without the timeout check.
CanExecuteNoTimeout(c, k) ==
    /\ cpc[c] = "idle"
    /\ cpc' = [cpc EXCEPT ![c] = "calling"]
    /\ kind' = [kind EXCEPT ![c] = k]
    /\ IF state = "OPEN"
         THEN ToHalfOpen
         ELSE UNCHANGED <<state, failure_count, success_count>>
    /\ UNCHANGED <<stamped, expired, healthy, failedKinds>>

\* RecordFailure: the threshold compared with > instead of >=.
RecordFailureLate(k) ==
    /\ failure_count' = failure_count + 1
    /\ stamped' = TRUE
    /\ expired' = FALSE
    /\ failedKinds' = failedKinds \cup {k}
    /\ IF \/ state = "HALF_OPEN"
          \/ state = "CLOSED" /\ failure_count + 1 > FailureThreshold
         THEN ToOpen
         ELSE UNCHANGED <<state, success_count>>

-----------------------------------------------------------------------------
Init ==
    /\ state = "CLOSED"
    /\ failure_count = 0
    /\ success_count = 0
    /\ stamped = FALSE
    /\ expired = FALSE
    /\ cpc = [c \in Callers |-> "idle"]
    /\ kind = [c \in Callers |-> "DEPOSIT"]
    /\ healthy \in BOOLEAN
    /\ failedKinds = {}

(* can_execute() returning True: CLOSED and HALF_OPEN let the call        *)
(* through; OPEN does once the timeout has passed, moving to HALF_OPEN.    *)
CanExecute(c, k) ==
    /\ cpc[c] = "idle"
    /\ \/ state \in {"CLOSED", "HALF_OPEN"}
       \/ state = "OPEN" /\ stamped /\ expired
    /\ cpc' = [cpc EXCEPT ![c] = "calling"]
    /\ kind' = [kind EXCEPT ![c] = k]
    /\ IF state = "OPEN"
         THEN ToHalfOpen
         ELSE UNCHANGED <<state, failure_count, success_count>>
    /\ UNCHANGED <<stamped, expired, healthy, failedKinds>>

(* can_execute() returning False: the caller answers UNAVAILABLE with      *)
(* error_code CIRCUIT_BREAKER_OPEN without calling the bank or recording  *)
(* anything.                                                               *)
Reject(c, k) ==
    /\ cpc[c] = "idle"
    /\ state = "OPEN"
    /\ ~(stamped /\ expired)
    /\ cpc' = [cpc EXCEPT ![c] = "rejected"]
    /\ kind' = [kind EXCEPT ![c] = k]
    /\ UNCHANGED <<state, failure_count, success_count, stamped, expired,
                   healthy, failedKinds>>

(* The caller hands the synthesised answer back and takes its next job.   *)
ReturnRejected(c) ==
    /\ cpc[c] = "rejected"
    /\ cpc' = [cpc EXCEPT ![c] = "idle"]
    /\ UNCHANGED <<state, failure_count, success_count, stamped, expired,
                   kind, healthy, failedKinds>>

(* record_success(): in HALF_OPEN count it and close at the threshold;   *)
(* otherwise reset failure_count.                                          *)
RecordSuccess ==
    IF state = "HALF_OPEN"
      THEN IF success_count + 1 >= SuccessThreshold
             THEN ToClosed
             ELSE /\ success_count' = success_count + 1
                  /\ UNCHANGED <<state, failure_count, failedKinds>>
      ELSE /\ failure_count' = 0
           /\ UNCHANGED <<state, success_count, failedKinds>>

(* record_failure() for a call of kind k: count it, stamp the time, and   *)
(* open from HALF_OPEN, or from CLOSED at the threshold.                   *)
RecordFailure(k) ==
    /\ failure_count' = failure_count + 1
    /\ stamped' = TRUE
    /\ expired' = FALSE
    /\ failedKinds' = failedKinds \cup {k}
    /\ IF \/ state = "HALF_OPEN"
          \/ state = "CLOSED" /\ failure_count + 1 >= FailureThreshold
         THEN ToOpen
         ELSE UNCHANGED <<state, success_count>>

(* The bank answers caller c, and the caller records the outcome.  A     *)
(* healthy bank only succeeds.                                            *)
BankAnswer(c) ==
    /\ cpc[c] = "calling"
    /\ cpc' = [cpc EXCEPT ![c] = "idle"]
    /\ \E a \in (IF healthy THEN {"SUCCESS"} ELSE Answers) :
          \/ a = "SUCCESS" /\ RecordSuccess /\ UNCHANGED <<stamped, expired>>
          \/ a \in FailureAnswers /\ RecordFailure(kind[c])
          \/ a = "INSUFFICIENT_FUNDS"
             /\ UNCHANGED <<state, failure_count, success_count, stamped,
                            expired, failedKinds>>
    /\ UNCHANGED <<kind, healthy>>

(* timeout_seconds pass without a new failure.                            *)
Tick ==
    /\ stamped /\ ~expired
    /\ expired' = TRUE
    /\ UNCHANGED <<state, failure_count, success_count, stamped, cpc, kind,
                   healthy, failedKinds>>

(* The bank comes back and answers every later call with SUCCESS.         *)
BankRecovers ==
    /\ ~healthy
    /\ healthy' = TRUE
    /\ UNCHANGED <<state, failure_count, success_count, stamped, expired,
                   cpc, kind, failedKinds>>

Next ==
    \/ \E c \in Callers :
          \/ \E k \in Kinds : CanExecute(c, k) \/ Reject(c, k)
          \/ ReturnRejected(c) \/ BankAnswer(c)
    \/ Tick
    \/ BankRecovers

(* Clocks advance, and callers that have jobs keep calling and get their  *)
(* answers (the bank call has a network delay, never an infinite one).    *)
Fairness ==
    /\ WF_vars(Tick)
    /\ \A c \in Callers : /\ WF_vars(\E k \in Kinds : CanExecute(c, k))
                         /\ WF_vars(BankAnswer(c))
                         /\ WF_vars(ReturnRejected(c))

Spec == Init /\ [][Next]_vars /\ Fairness

-----------------------------------------------------------------------------
TypeOK ==
    /\ state \in States
    /\ failure_count \in Nat
    /\ success_count \in 0..(SuccessThreshold - 1)
    /\ stamped \in BOOLEAN
    /\ expired \in BOOLEAN
    /\ cpc \in [Callers -> {"idle", "calling", "rejected"}]
    /\ healthy \in BOOLEAN
    /\ kind \in [Callers -> Kinds]
    /\ failedKinds \subseteq Kinds

(* A CLOSED breaker has counted fewer than failure_threshold failures    *)
(* since its last success: record_failure opens it on the threshold-th,   *)
(* also when failures of calls admitted before an earlier opening arrive  *)
(* late.                                                                   *)
ClosedBelowThreshold ==
    state = "CLOSED" => failure_count < FailureThreshold

(* Spec section 4.4's transitions, counters hidden: the breaker           *)
(* implements BreakerStates, with "timeout_seconds have passed" read as   *)
(* last_failure_time set and expired, and the callers' phases as the      *)
(* calls.  Ticks, the bank's recovery and the counters' own steps are     *)
(* stutters.                                                              *)
Automaton == INSTANCE BreakerStates
                 WITH timedOut <- stamped /\ expired, call <- cpc

ImplementsBreakerStates == Automaton!Spec

(* Once the bank has recovered the breaker ends CLOSED, whatever state    *)
(* and counters it was left in: an OPEN breaker times out into HALF_OPEN  *)
(* on the next can_execute(), and its probes' successes close it.  Calls  *)
(* still in flight from before the recovery cannot keep it open.          *)
EventuallyCloses == healthy ~> state = "CLOSED"

(* Spec sections 4.4 and 5: there is a breaker per bank direction, so a  *)
(* call is rejected only when calls of its own kind have failed.  The     *)
(* code has one _bank_circuit_breaker for deposits and withdrawals.       *)
RejectsOnlyOwnKind ==
    [][\A c \in Callers, k \in Kinds : Reject(c, k) => k \in failedKinds]_vars

=============================================================================
