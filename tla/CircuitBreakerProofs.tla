------------------------- MODULE CircuitBreakerProofs -------------------------
(***************************************************************************)
(* Proofs about CircuitBreaker for any number of threads and any          *)
(* thresholds: the counters stay in range, and a CLOSED breaker has always *)
(* counted fewer than failure_threshold failures, however the threads'    *)
(* answers interleave with the breaker's transitions.                     *)
(***************************************************************************)
EXTENDS CircuitBreaker, TLAPS

USE BreakerAssumption

(* The inductive invariant: the type invariant and the threshold bound    *)
(* depend on each other only through the counters' ranges, and both are  *)
(* needed for the steps of record_failure.                                 *)
IInv == TypeOK /\ ClosedBelowThreshold

LEMMA InitIInv == Init => IInv
<1> SUFFICES ASSUME Init PROVE IInv
  OBVIOUS
<1>1. state \in States /\ failure_count \in Nat /\ success_count \in 0..(SuccessThreshold - 1)
  BY DEF Init, States
<1>2. cpc \in [Callers -> {"idle", "calling", "rejected"}] /\ kind \in [Callers -> Kinds]
  BY DEF Init, Kinds
<1>3. stamped \in BOOLEAN /\ expired \in BOOLEAN /\ healthy \in BOOLEAN /\ failedKinds \subseteq Kinds
  BY DEF Init
<1>4. ClosedBelowThreshold
  BY DEF Init, ClosedBelowThreshold
<1> QED BY <1>1, <1>2, <1>3, <1>4 DEF IInv, TypeOK

(* record_success keeps the invariant, whatever state the answer finds.  *)
LEMMA RecordSuccessIInv ==
    ASSUME IInv, RecordSuccess,
           UNCHANGED <<stamped, expired, kind, healthy>>,
           cpc' \in [Callers -> {"idle", "calling", "rejected"}]
    PROVE  IInv'
<1>1. CASE state = "HALF_OPEN" /\ success_count + 1 >= SuccessThreshold
  BY <1>1 DEF RecordSuccess, ToClosed, IInv, TypeOK, ClosedBelowThreshold, States
<1>2. CASE state = "HALF_OPEN" /\ ~(success_count + 1 >= SuccessThreshold)
  BY <1>2 DEF RecordSuccess, ToClosed, IInv, TypeOK, ClosedBelowThreshold, States
<1>3. CASE state # "HALF_OPEN"
  BY <1>3 DEF RecordSuccess, ToClosed, IInv, TypeOK, ClosedBelowThreshold, States
<1> QED BY <1>1, <1>2, <1>3

(* record_failure keeps the invariant: from CLOSED it opens exactly when *)
(* the count reaches the threshold.                                        *)
LEMMA RecordFailureIInv ==
    ASSUME IInv, NEW k \in Kinds, RecordFailure(k),
           UNCHANGED <<kind, healthy>>,
           cpc' \in [Callers -> {"idle", "calling", "rejected"}]
    PROVE  IInv'
<1>1. /\ failure_count' = failure_count + 1
      /\ stamped' = TRUE /\ expired' = FALSE
      /\ failedKinds' = failedKinds \cup {k}
  BY DEF RecordFailure
<1>2. failure_count' \in Nat /\ failedKinds' \subseteq Kinds
  BY <1>1 DEF IInv, TypeOK
<1>3. kind' \in [Callers -> Kinds] /\ healthy' \in BOOLEAN
  BY DEF IInv, TypeOK
<1>4. /\ state' \in States
      /\ success_count' \in 0..(SuccessThreshold - 1)
      /\ ClosedBelowThreshold'
  <2>1. CASE state = "HALF_OPEN"
    BY <2>1 DEF RecordFailure, ToOpen, States, ClosedBelowThreshold
  <2>2. CASE state = "CLOSED" /\ failure_count + 1 >= FailureThreshold
    BY <2>2 DEF RecordFailure, ToOpen, States, ClosedBelowThreshold
  <2>3. CASE state = "CLOSED" /\ ~(failure_count + 1 >= FailureThreshold)
    <3>1. state' = state /\ success_count' = success_count
      BY <2>3 DEF RecordFailure
    <3> QED BY <2>3, <3>1 DEF RecordFailure, IInv, TypeOK, States, ClosedBelowThreshold
  <2>4. CASE state = "OPEN"
    <3>1. state' = state /\ success_count' = success_count
      BY <2>4 DEF RecordFailure
    <3> QED BY <2>4, <3>1 DEF IInv, TypeOK, States, ClosedBelowThreshold
  <2> QED BY <2>1, <2>2, <2>3, <2>4 DEF IInv, TypeOK, States
<1> QED BY <1>1, <1>2, <1>3, <1>4 DEF IInv, TypeOK

LEMMA NextIInv == IInv /\ [Next]_vars => IInv'
<1> SUFFICES ASSUME IInv, [Next]_vars PROVE IInv'
  OBVIOUS
<1>1. ASSUME NEW c \in Callers, NEW k \in Kinds, CanExecute(c, k) PROVE IInv'
  BY <1>1 DEF CanExecute, ToHalfOpen, IInv, TypeOK, ClosedBelowThreshold, States
<1>2. ASSUME NEW c \in Callers, NEW k \in Kinds, Reject(c, k) PROVE IInv'
  BY <1>2 DEF Reject, IInv, TypeOK, ClosedBelowThreshold
<1>3. ASSUME NEW c \in Callers, ReturnRejected(c) PROVE IInv'
  BY <1>3 DEF ReturnRejected, IInv, TypeOK, ClosedBelowThreshold
<1>4. ASSUME NEW c \in Callers, BankAnswer(c) PROVE IInv'
  <2>1. cpc' \in [Callers -> {"idle", "calling", "rejected"}]
    BY <1>4 DEF BankAnswer, IInv, TypeOK
  <2>2. kind[c] \in Kinds
    BY DEF IInv, TypeOK
  <2>3. PICK a \in (IF healthy THEN {"SUCCESS"} ELSE Answers) :
          \/ a = "SUCCESS" /\ RecordSuccess /\ UNCHANGED <<stamped, expired>>
          \/ a \in FailureAnswers /\ RecordFailure(kind[c])
          \/ a = "INSUFFICIENT_FUNDS"
             /\ UNCHANGED <<state, failure_count, success_count, stamped,
                            expired, failedKinds>>
    BY <1>4 DEF BankAnswer
  <2>4. UNCHANGED <<kind, healthy>>
    BY <1>4 DEF BankAnswer
  <2>5. CASE a = "SUCCESS" /\ RecordSuccess /\ UNCHANGED <<stamped, expired>>
    BY <2>1, <2>4, <2>5, RecordSuccessIInv
  <2>6. CASE a \in FailureAnswers /\ RecordFailure(kind[c])
    BY <2>1, <2>2, <2>4, <2>6, RecordFailureIInv
  <2>7. CASE a = "INSUFFICIENT_FUNDS"
             /\ UNCHANGED <<state, failure_count, success_count, stamped,
                            expired, failedKinds>>
    BY <2>1, <2>4, <2>7 DEF IInv, TypeOK, ClosedBelowThreshold
  <2> QED BY <2>3, <2>5, <2>6, <2>7
<1>5. CASE Tick
  BY <1>5 DEF Tick, IInv, TypeOK, ClosedBelowThreshold
<1>6. CASE BankRecovers
  BY <1>6 DEF BankRecovers, IInv, TypeOK, ClosedBelowThreshold
<1>7. CASE UNCHANGED vars
  BY <1>7 DEF vars, IInv, TypeOK, ClosedBelowThreshold
<1> QED BY <1>1, <1>2, <1>3, <1>4, <1>5, <1>6, <1>7 DEF Next

(* The breaker's state is always well typed; in particular success_count *)
(* stays below success_threshold, because record_success closes the      *)
(* breaker and resets it on the threshold-th success.                     *)
THEOREM TypeCorrect == Spec => []TypeOK
BY InitIInv, NextIInv, PTL DEF Spec, IInv

(* A CLOSED breaker has counted fewer than failure_threshold failures, for *)
(* any number of threads: record_failure opens it on the threshold-th,    *)
(* and every way back to CLOSED resets the count.                          *)
THEOREM ClosedCountBelowThreshold == Spec => []ClosedBelowThreshold
BY InitIInv, NextIInv, PTL DEF Spec, IInv


-----------------------------------------------------------------------------
(***************************************************************************)
(* The breaker implements BreakerStates.  No invariant beyond TypeOK is   *)
(* needed: can_execute reads exactly the abstract timeout, and each       *)
(* record method moves the state along one of spec section 4.4's arrows. *)
(***************************************************************************)
AVars == <<state, stamped /\ expired, cpc>>

(* record_success moves the state as the abstract Succeed allows and     *)
(* leaves the timeout alone.                                               *)
LEMMA SuccessMoves ==
    ASSUME TypeOK, RecordSuccess, UNCHANGED <<stamped, expired>>
    PROVE  state' \in IF state = "HALF_OPEN" THEN {"HALF_OPEN", "CLOSED"} ELSE {state}
BY DEF RecordSuccess, ToClosed

(* record_failure opens the breaker from HALF_OPEN and may from CLOSED;  *)
(* a late failure leaves an OPEN breaker OPEN; the timeout restarts.     *)
LEMMA FailureMoves ==
    ASSUME TypeOK, NEW k, RecordFailure(k)
    PROVE  /\ state' \in IF state = "CLOSED" THEN {"CLOSED", "OPEN"} ELSE {"OPEN"}
           /\ (stamped /\ expired)' = FALSE
BY DEF RecordFailure, ToOpen, TypeOK, States

LEMMA AnswerRefines ==
    ASSUME TypeOK, NEW c \in Callers, BankAnswer(c)
    PROVE  \/ Automaton!Succeed(c)
           \/ Automaton!Fail(c)
           \/ Automaton!Neutral(c)
<1>1. Automaton!Phase(c, "calling", "idle")
  BY DEF BankAnswer, Automaton!Phase
<1>2. PICK a \in (IF healthy THEN {"SUCCESS"} ELSE Answers) :
        \/ a = "SUCCESS" /\ RecordSuccess /\ UNCHANGED <<stamped, expired>>
        \/ a \in FailureAnswers /\ RecordFailure(kind[c])
        \/ a = "INSUFFICIENT_FUNDS"
           /\ UNCHANGED <<state, failure_count, success_count, stamped,
                          expired, failedKinds>>
  BY DEF BankAnswer
<1>3. CASE RecordSuccess /\ UNCHANGED <<stamped, expired>>
  BY <1>1, <1>3, SuccessMoves DEF Automaton!Succeed
<1>4. CASE RecordFailure(kind[c])
  BY <1>1, <1>4, FailureMoves DEF Automaton!Fail
<1>5. CASE UNCHANGED <<state, stamped, expired>>
  BY <1>1, <1>5 DEF Automaton!Neutral
<1> QED BY <1>2, <1>3, <1>4, <1>5

(* Every step of the breaker and its callers is a BreakerStates step or  *)
(* leaves the state, the timeout and the callers' phases alone.          *)
LEMMA StepRefines == TypeOK /\ [Next]_vars => [Automaton!Next]_AVars
<1> SUFFICES ASSUME TypeOK, [Next]_vars PROVE [Automaton!Next]_AVars
  OBVIOUS
<1>1. ASSUME NEW c \in Callers, NEW k \in Kinds, CanExecute(c, k)
      PROVE  Automaton!Admit(c)
  BY <1>1 DEF CanExecute, ToHalfOpen, Automaton!Admit, Automaton!Phase
<1>2. ASSUME NEW c \in Callers, NEW k \in Kinds, Reject(c, k)
      PROVE  Automaton!Refuse(c)
  BY <1>2 DEF Reject, Automaton!Refuse, Automaton!Phase
<1>3. ASSUME NEW c \in Callers, ReturnRejected(c) PROVE Automaton!Return(c)
  BY <1>3 DEF ReturnRejected, Automaton!Return, Automaton!Phase
<1>4. CASE Tick
  BY <1>4 DEF Tick, Automaton!Next, Automaton!Elapse
<1>5. CASE BankRecovers \/ UNCHANGED vars
  BY <1>5 DEF BankRecovers, vars, AVars
<1> QED
  BY <1>1, <1>2, <1>3, <1>4, <1>5, AnswerRefines DEF Next, Automaton!Next

(* For any thresholds and any number of threads, the breaker moves only  *)
(* along spec section 4.4's transitions: an OPEN breaker rejects until    *)
(* the timeout has passed and then admits a HALF_OPEN probe, only a       *)
(* recorded failure opens it and restarts the timeout, only a recorded   *)
(* success in HALF_OPEN closes it.                                         *)
THEOREM Refinement == Spec => ImplementsBreakerStates
<1>1. Init => Automaton!Init
  BY DEF Init, Automaton!Init
<1>2. IInv /\ [Next]_vars => [Automaton!Next]_AVars
  BY StepRefines DEF IInv
<1> QED
  BY <1>1, <1>2, InitIInv, NextIInv, PTL
     DEF Spec, ImplementsBreakerStates, Automaton!Spec, AVars

=============================================================================
