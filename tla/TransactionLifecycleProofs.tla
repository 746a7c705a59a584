--------------------- MODULE TransactionLifecycleProofs ---------------------
(***************************************************************************)
(* Proofs about TransactionLifecycle, for every value of the constants    *)
(* that ConstantsAssumption allows: type correctness, that no            *)
(* interleaving of creations, worker steps, crashes and bank callbacks    *)
(* ever commits a negative balance, and that without crashes, callbacks   *)
(* and failed webhook sends every row follows the status diagram.         *)
(***************************************************************************)
EXTENDS TransactionLifecycle, TLAPS

USE ConstantsAssumption

(* The placeholder of an idle worker is not a message: its retries is -1. *)
LEMMA NoJobNotInJobs == NoJob \notin Jobs
BY DEF NoJob, Jobs

(* A message sent to a bag of messages leaves a bag of messages.          *)
LEMMA SendType ==
    ASSUME NEW q \in [Jobs -> Nat], NEW j \in Jobs
    PROVE  Send(q, j) \in [Jobs -> Nat]
BY DEF Send

-----------------------------------------------------------------------------
(* Every step of the system keeps the state well typed.                  *)
LEMMA TypeOKStep == TypeOK /\ [Next]_vars => TypeOK'
<1> SUFFICES ASSUME TypeOK, [Next]_vars PROVE TypeOK'
  OBVIOUS
<1>1. ASSUME NEW t \in Tx, CreatePending(t) PROVE TypeOK'
  BY <1>1 DEF CreatePending, TypeOK, Status
<1>2. ASSUME NEW t \in Tx, EnqueueJob(t) PROVE TypeOK'
  <2>1. [tx |-> t, retries |-> 0] \in Jobs
    BY DEF Jobs
  <2> QED BY <1>2, <2>1, SendType DEF EnqueueJob, TypeOK
<1>3. ASSUME NEW t \in Tx, BankCallback(t) PROVE TypeOK'
  BY <1>3 DEF BankCallback, ApplyCompletion, TypeOK, Status, Signed
<1>4. ASSUME NEW w \in Workers, Receive(w) PROVE TypeOK'
  <2>1. PICK j \in Jobs : /\ queue[j] > 0
                          /\ queue' = [queue EXCEPT ![j] = @ - 1]
                          /\ job' = [job EXCEPT ![w] = j]
                          /\ status' = [status EXCEPT ![j.tx] = "PROCESSING"]
    BY <1>4 DEF Receive
  <2>2. j # NoJob
    BY NoJobNotInJobs
  <2>3. j.tx \in Tx
    BY DEF Jobs
  <2> QED BY <1>4, <2>1, <2>2, <2>3 DEF Receive, TypeOK, PC, Status
<1>5. ASSUME NEW w \in Workers, CallBank(w) PROVE TypeOK'
  BY <1>5 DEF CallBank, TypeOK, PC
<1>6. ASSUME NEW w \in Workers, CompleteTransaction(w) PROVE TypeOK'
  <2>1. job[w] \in Jobs
    BY <1>6, NoJobNotInJobs DEF CompleteTransaction, TypeOK
  <2>2. job[w].tx \in Tx
    BY <2>1 DEF Jobs
  <2> QED BY <1>6, <2>2 DEF CompleteTransaction, ApplyCompletion, TypeOK, PC, Status, Signed
<1>7. ASSUME NEW w \in Workers, FailTransaction(w) PROVE TypeOK'
  <2>1. job[w] \in Jobs
    BY <1>7 DEF FailTransaction, TypeOK
  <2>2. job[w].tx \in Tx
    BY <2>1 DEF Jobs
  <2> QED BY <1>7, <2>2 DEF FailTransaction, TypeOK, PC, Status
<1>8. ASSUME NEW w \in Workers, TriggerWebhook(w) PROVE TypeOK'
  BY <1>8 DEF TriggerWebhook, TypeOK, PC
<1>9. ASSUME NEW w \in Workers, MarkForReview(w) PROVE TypeOK'
  <2>1. job[w] \in Jobs
    BY <1>9 DEF MarkForReview, MarkPendingReview, TypeOK
  <2>2. job[w].tx \in Tx
    BY <2>1 DEF Jobs
  <2> QED BY <1>9, <2>2 DEF MarkForReview, MarkPendingReview, TypeOK, PC, Status
<1>10. ASSUME NEW w \in Workers, RetryJob(w) PROVE TypeOK'
  <2>1. job[w] \in Jobs
    BY <1>10 DEF RetryJob, TypeOK
  <2>2. [job[w] EXCEPT !.retries = @ + 1] \in Jobs
    BY <1>10, <2>1 DEF RetryJob, Jobs
  <2> QED BY <1>10, <2>2, SendType DEF RetryJob, TypeOK, PC
<1>11. ASSUME NEW w \in Workers, AckJob(w) PROVE TypeOK'
  BY <1>11 DEF AckJob, TypeOK, PC
<1>12. ASSUME NEW w \in Workers, WorkerCrash(w) PROVE TypeOK'
  <2>1. job[w] \in Jobs
    BY <1>12 DEF WorkerCrash, TypeOK
  <2> QED BY <1>12, <2>1, SendType DEF WorkerCrash, TypeOK, PC
<1>13. CASE UNCHANGED vars
  BY <1>13 DEF vars, TypeOK
<1> QED
  BY <1>1, <1>2, <1>3, <1>4, <1>5, <1>6, <1>7, <1>8, <1>9, <1>10,
     <1>11, <1>12, <1>13 DEF Next, WorkerStep

(* Every reachable state is well typed; in particular a worker holds an   *)
(* unacknowledged message exactly when it is not idle, which is what lets *)
(* a crash requeue it and an ack drop it.                                  *)
THEOREM TypeCorrect == Spec => []TypeOK
<1>1. Init => TypeOK
  BY NoJobNotInJobs DEF Init, TypeOK, PC, Status
<1>2. QED
  BY <1>1, TypeOKStep, PTL DEF Spec

-----------------------------------------------------------------------------
(* Committing a transaction's balance change keeps every balance          *)
(* non-negative when CanApply, the insufficient-balance check of          *)
(* subtract_balance, let it through.                                      *)
LEMMA ApplyKeepsNonNegative ==
    ASSUME TypeOK, BalanceNonNegative, NEW t \in Tx, CanApply(t),
           ApplyCompletion(t)
    PROVE  BalanceNonNegative'
<1> SUFFICES ASSUME NEW a \in Accounts PROVE balance'[a] >= 0
  BY DEF BalanceNonNegative
<1>1. TxAccount[t] \in Accounts /\ TxAmount[t] \in Nat \ {0}
  OBVIOUS
<1>2. CASE a = TxAccount[t]
  BY <1>1, <1>2 DEF ApplyCompletion, CanApply, Signed, TypeOK, BalanceNonNegative
<1>3. CASE a # TxAccount[t]
  BY <1>1, <1>3 DEF ApplyCompletion, TypeOK, BalanceNonNegative
<1> QED BY <1>2, <1>3

(* Inductive invariant for the no-overdraft property: the type invariant *)
(* is needed to know that a worker's job names a transaction.              *)
IInv == TypeOK /\ BalanceNonNegative

(* No interleaving of withdrawals accepted without a reservation, worker  *)
(* retries and crashes, and bank callbacks ever commits a negative        *)
(* account balance: every path that subtracts goes through the recheck of *)
(* subtract_balance under the account's row lock.                         *)
THEOREM NoOverdraft == Spec => []BalanceNonNegative
<1>1. Init => IInv
  BY NoJobNotInJobs DEF Init, IInv, TypeOK, PC, Status, BalanceNonNegative
<1>2. IInv /\ [Next]_vars => IInv'
  <2> SUFFICES ASSUME IInv, [Next]_vars PROVE IInv'
    OBVIOUS
  <2>1. TypeOK'
    BY TypeOKStep DEF IInv
  <2>2. CASE UNCHANGED balance
    BY <2>1, <2>2 DEF IInv, BalanceNonNegative
  <2>3. ASSUME NEW w \in Workers, CompleteTransaction(w) PROVE IInv'
    <3>1. job[w] \in Jobs
      BY <2>3, NoJobNotInJobs DEF CompleteTransaction, IInv, TypeOK
    <3>2. job[w].tx \in Tx
      BY <3>1 DEF Jobs
    <3>3. CASE CanApply(job[w].tx) /\ ApplyCompletion(job[w].tx)
      BY <2>1, <3>2, <3>3, ApplyKeepsNonNegative DEF IInv
    <3>4. CASE ~CanApply(job[w].tx) /\ UNCHANGED <<status, balance>>
      BY <2>1, <3>4 DEF IInv, BalanceNonNegative
    <3> QED BY <2>3, <3>3, <3>4 DEF CompleteTransaction
  <2>4. ASSUME NEW t \in Tx, BankCallback(t) PROVE IInv'
    <3>1. CASE CanApply(t) /\ ApplyCompletion(t)
      BY <2>1, <3>1, ApplyKeepsNonNegative DEF IInv
    <3>2. CASE ~(CanApply(t) /\ ApplyCompletion(t))
      <4>1. UNCHANGED balance
        BY <2>4, <3>1, <3>2 DEF BankCallback
      <4> QED BY <2>1, <4>1 DEF IInv, BalanceNonNegative
    <3> QED BY <3>1, <3>2
  <2> QED
    BY <2>2, <2>3, <2>4 DEF Next, WorkerStep, vars, CreatePending, EnqueueJob,
       Receive, CallBank, FailTransaction, TriggerWebhook, MarkForReview, MarkPendingReview,
       RetryJob, AckJob, WorkerCrash
<1>3. IInv => BalanceNonNegative
  BY DEF IInv
<1>4. QED
  BY <1>1, <1>2, <1>3, PTL DEF Spec

-----------------------------------------------------------------------------
(***************************************************************************)
(* The status diagram, in the runs without faults.  A crash's redelivery, *)
(* a bank callback and a failed webhook send each move a terminal row     *)
(* backwards, so the theorem assumes none of them happens.                *)
(***************************************************************************)
FaultFree == MaxCrashes = 0 /\ MaxCallbacks = 0 /\ ~NotifyCanFail

(* A worker between update_status(PROCESSING) and the webhook trigger.    *)
Busy(w) == pc[w] \in {"bank", "complete", "fail", "except", "notify"}

(* A message for t waits in the queue.                                     *)
Queued(t) == \E j \in Jobs : j.tx = t /\ queue[j] > 0

(* A transaction has at most one unit of pending work: the API's pending  *)
(* send, one copy of one message in the queue, or one busy worker.        *)
OneMessage ==
    /\ \A j \in Jobs : queue[j] <= 1
    /\ \A j1, j2 \in Jobs : queue[j1] > 0 /\ queue[j2] > 0 /\ j1.tx = j2.tx => j1 = j2
    /\ \A w1, w2 \in Workers : Busy(w1) /\ Busy(w2) /\ job[w1].tx = job[w2].tx => w1 = w2
    /\ \A w \in Workers, j \in Jobs : Busy(w) /\ queue[j] > 0 => job[w].tx # j.tx
    /\ \A t \in enqueuing : ~Queued(t) /\ \A w \in Workers : Busy(w) => job[w].tx # t

(* Where the unit of work is tells the row's status: PENDING before the   *)
(* send, PENDING or PROCESSING (a retry) while queued, PROCESSING in the  *)
(* worker until the commit of a terminal status.                          *)
WorkMatchesStatus ==
    /\ \A t \in enqueuing : status[t] = "PENDING"
    /\ \A j \in Jobs : queue[j] > 0 => status[j.tx] \in {"PENDING", "PROCESSING"}
    /\ \A w \in Workers :
          pc[w] \in {"bank", "complete", "fail", "except"} => status[job[w].tx] = "PROCESSING"
    /\ \A w \in Workers : pc[w] = "notify" => status[job[w].tx] \in Terminal

(* Inductive invariant of the status diagram.                              *)
DInv == TypeOK /\ OneMessage /\ WorkMatchesStatus

(* The step relation of StatusFollowsDiagram, for every row at once.      *)
StatusSteps == \A t \in Tx : StatusStep(status[t], status'[t])

(* A worker that is not idle holds a message naming a transaction.        *)
LEMMA HeldJob ==
    ASSUME TypeOK, NEW w \in Workers, pc[w] # "idle"
    PROVE  job[w] \in Jobs /\ job[w].tx \in Tx
BY NoJobNotInJobs DEF TypeOK, Jobs

LEMMA DInit == Init => DInv
BY NoJobNotInJobs DEF Init, DInv, TypeOK, PC, Status, OneMessage, WorkMatchesStatus,
                      Busy, Queued

(* POST /deposits or /withdrawals creates a row no work exists for yet.   *)
LEMMA CreatePendingD ==
    ASSUME DInv, NEW t \in Tx, CreatePending(t)
    PROVE  DInv' /\ StatusSteps
<1>1. TypeOK'
  BY TypeOKStep DEF DInv, Next
<1>2. /\ \A j \in Jobs : queue[j] > 0 => j.tx # t
      /\ \A w \in Workers : Busy(w) => job[w].tx # t
      /\ \A u \in enqueuing : u # t
  BY DEF CreatePending, DInv, WorkMatchesStatus, Busy, Terminal
<1>3. OneMessage'
  BY <1>2 DEF CreatePending, DInv, OneMessage, Busy, Queued
<1>4. WorkMatchesStatus'
  BY <1>2 DEF CreatePending, DInv, TypeOK, WorkMatchesStatus, Busy
<1>5. StatusSteps
  BY DEF CreatePending, StatusSteps, StatusStep, DInv, TypeOK
<1>. QED
  BY <1>1, <1>3, <1>4, <1>5 DEF DInv

(* The API's send of the first message takes over the row's unit of work.*)
LEMMA EnqueueJobD ==
    ASSUME DInv, NEW t \in Tx, EnqueueJob(t)
    PROVE  DInv' /\ StatusSteps
<1> DEFINE j0 == [tx |-> t, retries |-> 0]
<1>1. TypeOK'
  BY TypeOKStep DEF DInv, Next
<1>2. j0 \in Jobs /\ queue[j0] = 0
  <2>1. j0 \in Jobs
    BY DEF Jobs
  <2>2. ~Queued(t)
    BY DEF EnqueueJob, DInv, OneMessage
  <2>. QED
    BY <2>1, <2>2 DEF DInv, TypeOK, Queued
<1>3. CASE queue' = Send(queue, j0)
  <2>1. queue' = [queue EXCEPT ![j0] = 1]
    BY <1>2, <1>3 DEF Send, DInv, TypeOK
  <2>2. OneMessage'
    BY <1>2, <2>1 DEF EnqueueJob, DInv, TypeOK, OneMessage, Busy, Queued
  <2>3. WorkMatchesStatus'
    BY <1>2, <2>1 DEF EnqueueJob, DInv, TypeOK, WorkMatchesStatus
  <2>. QED
    BY <1>1, <2>2, <2>3 DEF DInv, EnqueueJob, StatusSteps, StatusStep
<1>4. CASE UNCHANGED queue
  BY <1>1, <1>4 DEF EnqueueJob, DInv, OneMessage, WorkMatchesStatus, Busy, Queued,
                    StatusSteps, StatusStep
<1>. QED
  BY <1>3, <1>4 DEF EnqueueJob

(* A worker's update_status(PROCESSING) takes the row's only message.     *)
LEMMA ReceiveD ==
    ASSUME DInv, NEW w \in Workers, Receive(w)
    PROVE  DInv' /\ StatusSteps
<1>1. TypeOK'
  BY TypeOKStep DEF DInv, Next, WorkerStep
<1>2. PICK j \in Jobs : /\ queue[j] > 0
                        /\ queue' = [queue EXCEPT ![j] = @ - 1]
                        /\ job' = [job EXCEPT ![w] = j]
                        /\ status' = [status EXCEPT ![j.tx] = "PROCESSING"]
  BY DEF Receive
<1>3. /\ j.tx \in Tx /\ queue'[j] = 0 /\ ~Busy(w)
      /\ pc' = [pc EXCEPT ![w] = "bank"]
      /\ UNCHANGED <<enqueuing, balance, crashes, callbacks>>
  <2>1. j.tx \in Tx
    BY DEF Jobs
  <2>2. queue[j] = 1
    BY <1>2 DEF DInv, TypeOK, OneMessage
  <2>3. queue'[j] = 0
    BY <1>2, <2>2 DEF DInv, TypeOK
  <2>4. pc[w] = "idle" /\ pc' = [pc EXCEPT ![w] = "bank"]
        /\ UNCHANGED <<enqueuing, balance, crashes, callbacks>>
    BY DEF Receive
  <2>. QED
    BY <2>1, <2>3, <2>4 DEF Busy
<1>4. /\ \A j2 \in Jobs : queue'[j2] > 0 => j2 # j /\ queue[j2] > 0 /\ j2.tx # j.tx
      /\ \A w2 \in Workers : Busy(w2) => job[w2].tx # j.tx
      /\ \A u \in enqueuing : u # j.tx
  BY <1>2, <1>3 DEF DInv, TypeOK, OneMessage, Queued
<1>5. \A w2 \in Workers : Busy(w2)' <=> (w2 = w \/ Busy(w2))
  BY <1>3 DEF Busy, DInv, TypeOK
<1>6. OneMessage'
  <2>1. \A j2 \in Jobs : queue'[j2] <= 1
    BY <1>2 DEF DInv, TypeOK, OneMessage
  <2>2. \A w1, w2 \in Workers : Busy(w1)' /\ Busy(w2)' /\ job'[w1].tx = job'[w2].tx => w1 = w2
    BY <1>2, <1>4, <1>5 DEF DInv, TypeOK, OneMessage
  <2>3. \A w2 \in Workers, j2 \in Jobs : Busy(w2)' /\ queue'[j2] > 0 => job'[w2].tx # j2.tx
    BY <1>2, <1>4, <1>5 DEF DInv, TypeOK, OneMessage
  <2>4. \A t \in enqueuing' : ~Queued(t)' /\ \A w2 \in Workers : Busy(w2)' => job'[w2].tx # t
    BY <1>2, <1>3, <1>4, <1>5 DEF DInv, TypeOK, OneMessage, Queued
  <2>. QED
    BY <1>2, <2>1, <2>2, <2>3, <2>4 DEF DInv, OneMessage
<1>7. WorkMatchesStatus'
  BY <1>2, <1>3, <1>4 DEF DInv, TypeOK, WorkMatchesStatus, Busy
<1>8. StatusSteps
  BY <1>2, <1>3 DEF StatusSteps, StatusStep, DInv, TypeOK, WorkMatchesStatus
<1>. QED
  BY <1>1, <1>6, <1>7, <1>8 DEF DInv

(* The classification of the bank's answer keeps the worker busy and the *)
(* row PROCESSING.                                                        *)
LEMMA CallBankD ==
    ASSUME DInv, NEW w \in Workers, CallBank(w)
    PROVE  DInv' /\ StatusSteps
<1>1. TypeOK'
  BY TypeOKStep DEF DInv, Next, WorkerStep
<1>2. \A w2 \in Workers : Busy(w2)' <=> Busy(w2)
  BY DEF CallBank, Busy, DInv, TypeOK
<1>. QED
  BY <1>1, <1>2 DEF CallBank, DInv, TypeOK, OneMessage, WorkMatchesStatus, Queued,
                    StatusSteps, StatusStep

(* The commit of SUCCESS or FAILED by the worker that owns the row.       *)
LEMMA CommitTerminalD ==
    ASSUME DInv, NEW w \in Workers, pc[w] \in {"complete", "fail"},
           NEW s \in {"SUCCESS", "FAILED"},
           status' = [status EXCEPT ![job[w].tx] = s],
           pc' = [pc EXCEPT ![w] = "notify"],
           UNCHANGED <<queue, enqueuing, job>>, TypeOK'
    PROVE  DInv' /\ StatusSteps
<1>1. job[w].tx \in Tx /\ Busy(w) /\ status[job[w].tx] = "PROCESSING"
  BY HeldJob DEF DInv, Busy, WorkMatchesStatus, TypeOK
<1>2. /\ \A j \in Jobs : queue[j] > 0 => j.tx # job[w].tx
      /\ \A w2 \in Workers : Busy(w2) /\ w2 # w => job[w2].tx # job[w].tx
      /\ \A u \in enqueuing : u # job[w].tx
  BY <1>1 DEF DInv, OneMessage
<1>3. \A w2 \in Workers : Busy(w2)' <=> Busy(w2)
  BY <1>1 DEF Busy, DInv, TypeOK
<1>4. OneMessage'
  BY <1>3 DEF DInv, OneMessage, Queued
<1>5. WorkMatchesStatus'
  BY <1>1, <1>2 DEF DInv, TypeOK, WorkMatchesStatus, Busy, Terminal
<1>6. StatusSteps
  BY <1>1 DEF StatusSteps, StatusStep, DInv, TypeOK, Terminal
<1>. QED
  BY <1>4, <1>5, <1>6 DEF DInv

LEMMA CompleteTransactionD ==
    ASSUME DInv, NEW w \in Workers, CompleteTransaction(w)
    PROVE  DInv' /\ StatusSteps
<1>1. TypeOK'
  BY TypeOKStep DEF DInv, Next, WorkerStep
<1>2. CASE CanApply(job[w].tx) /\ ApplyCompletion(job[w].tx) /\ pc' = [pc EXCEPT ![w] = "notify"]
  BY <1>1, <1>2, CommitTerminalD DEF CompleteTransaction, ApplyCompletion
<1>3. CASE pc' = [pc EXCEPT ![w] = "except"] /\ UNCHANGED <<status, balance>>
  <2>1. \A w2 \in Workers : Busy(w2)' <=> Busy(w2)
    BY <1>3 DEF CompleteTransaction, Busy, DInv, TypeOK
  <2>. QED
    BY <1>1, <1>3, <2>1 DEF CompleteTransaction, DInv, TypeOK, OneMessage,
                            WorkMatchesStatus, Queued, StatusSteps, StatusStep
<1>. QED
  BY <1>2, <1>3 DEF CompleteTransaction

LEMMA FailTransactionD ==
    ASSUME DInv, NEW w \in Workers, FailTransaction(w)
    PROVE  DInv' /\ StatusSteps
<1>1. TypeOK'
  BY TypeOKStep DEF DInv, Next, WorkerStep
<1>. QED
  BY <1>1, CommitTerminalD DEF FailTransaction

(* With the webhook job always sent, the trigger ends the worker's work. *)
LEMMA TriggerWebhookD ==
    ASSUME FaultFree, DInv, NEW w \in Workers, TriggerWebhook(w)
    PROVE  DInv' /\ StatusSteps
<1>1. TypeOK'
  BY TypeOKStep DEF DInv, Next, WorkerStep
<1>2. pc' = [pc EXCEPT ![w] = "done"]
  BY DEF TriggerWebhook, FaultFree
<1>3. \A w2 \in Workers : Busy(w2)' => Busy(w2)
  BY <1>2 DEF Busy, DInv, TypeOK
<1>. QED
  BY <1>1, <1>2, <1>3 DEF TriggerWebhook, DInv, TypeOK, OneMessage, WorkMatchesStatus,
                          Queued, StatusSteps, StatusStep

(* _mark_for_review commits PENDING_REVIEW on the row the worker owns.    *)
LEMMA MarkForReviewD ==
    ASSUME DInv, NEW w \in Workers, MarkForReview(w)
    PROVE  DInv' /\ StatusSteps
<1>1. TypeOK'
  BY TypeOKStep DEF DInv, Next, WorkerStep
<1>2. job[w].tx \in Tx /\ Busy(w) /\ status[job[w].tx] = "PROCESSING"
  BY HeldJob DEF MarkForReview, DInv, Busy, WorkMatchesStatus, TypeOK
<1>3. /\ \A j \in Jobs : queue[j] > 0 => j.tx # job[w].tx
      /\ \A w2 \in Workers : Busy(w2) /\ w2 # w => job[w2].tx # job[w].tx
      /\ \A u \in enqueuing : u # job[w].tx
  BY <1>2 DEF DInv, OneMessage
<1>4. \A w2 \in Workers : Busy(w2)' <=> (Busy(w2) /\ w2 # w)
  BY DEF MarkForReview, Busy, DInv, TypeOK
<1>5. OneMessage'
  BY <1>4 DEF MarkForReview, DInv, OneMessage, Queued
<1>6. WorkMatchesStatus'
  BY <1>2, <1>3 DEF MarkForReview, MarkPendingReview, DInv, TypeOK, WorkMatchesStatus, Busy
<1>7. StatusSteps
  BY <1>2 DEF MarkForReview, MarkPendingReview, StatusSteps, StatusStep, DInv, TypeOK,
              Terminal
<1>. QED
  BY <1>1, <1>5, <1>6, <1>7 DEF DInv

(* Celery's autoretry hands the row's unit of work back to the queue.     *)
LEMMA RetryJobD ==
    ASSUME DInv, NEW w \in Workers, RetryJob(w)
    PROVE  DInv' /\ StatusSteps
<1> DEFINE j1 == [job[w] EXCEPT !.retries = @ + 1]
<1>1. TypeOK'
  BY TypeOKStep DEF DInv, Next, WorkerStep
<1>2. job[w] \in Jobs /\ job[w].tx \in Tx /\ Busy(w) /\ status[job[w].tx] = "PROCESSING"
  BY HeldJob DEF RetryJob, DInv, Busy, WorkMatchesStatus, TypeOK
<1>3. j1 \in Jobs /\ j1.tx = job[w].tx
  BY <1>2 DEF RetryJob, Jobs
<1>4. /\ \A j \in Jobs : queue[j] > 0 => j.tx # job[w].tx
      /\ \A w2 \in Workers : Busy(w2) /\ w2 # w => job[w2].tx # job[w].tx
      /\ \A u \in enqueuing : u # job[w].tx
  BY <1>2 DEF DInv, OneMessage
<1>5. queue' = [queue EXCEPT ![j1] = 1]
  <2>0. ~(queue[j1] > 0)
    BY <1>3, <1>4, Zenon
  <2>1. queue[j1] = 0
    BY <1>3, <2>0 DEF DInv, TypeOK
  <2>2. queue' = Send(queue, j1)
    BY DEF RetryJob
  <2>. QED
    BY <2>1, <2>2 DEF Send
<1>6. \A w2 \in Workers : Busy(w2)' <=> (Busy(w2) /\ w2 # w)
  BY DEF RetryJob, Busy, DInv, TypeOK
<1>7. OneMessage'
  <2>1. \A j \in Jobs : queue'[j] <= 1
    BY <1>3, <1>5 DEF DInv, TypeOK, OneMessage
  <2>2. \A ja, jb \in Jobs : queue'[ja] > 0 /\ queue'[jb] > 0 /\ ja.tx = jb.tx => ja = jb
    BY <1>3, <1>4, <1>5 DEF DInv, TypeOK, OneMessage
  <2>3. \A w1, w2 \in Workers : Busy(w1)' /\ Busy(w2)' /\ job'[w1].tx = job'[w2].tx => w1 = w2
    BY <1>6 DEF RetryJob, DInv, OneMessage
  <2>4. \A w2 \in Workers, j \in Jobs : Busy(w2)' /\ queue'[j] > 0 => job'[w2].tx # j.tx
    BY <1>3, <1>4, <1>5, <1>6 DEF RetryJob, DInv, TypeOK, OneMessage
  <2>5. \A t \in enqueuing' : ~Queued(t)' /\ \A w2 \in Workers : Busy(w2)' => job'[w2].tx # t
    BY <1>3, <1>4, <1>5, <1>6 DEF RetryJob, DInv, TypeOK, OneMessage, Queued
  <2>. QED
    BY <2>1, <2>2, <2>3, <2>4, <2>5 DEF OneMessage
<1>8. WorkMatchesStatus'
  BY <1>2, <1>3, <1>5 DEF RetryJob, DInv, TypeOK, WorkMatchesStatus
<1>9. StatusSteps
  BY DEF RetryJob, StatusSteps, StatusStep
<1>. QED
  BY <1>1, <1>7, <1>8, <1>9 DEF DInv

(* The late ack drops a message whose work is already handed on.          *)
LEMMA AckJobD ==
    ASSUME DInv, NEW w \in Workers, AckJob(w)
    PROVE  DInv' /\ StatusSteps
<1>1. TypeOK'
  BY TypeOKStep DEF DInv, Next, WorkerStep
<1>2. \A w2 \in Workers : Busy(w2)' <=> Busy(w2)
  BY DEF AckJob, Busy, DInv, TypeOK
<1>. QED
  BY <1>1, <1>2 DEF AckJob, DInv, TypeOK, OneMessage, WorkMatchesStatus, Busy, Queued,
                    StatusSteps, StatusStep

LEMMA DNext ==
    ASSUME FaultFree
    PROVE  DInv /\ [Next]_vars => DInv' /\ [StatusSteps]_status
<1> SUFFICES ASSUME DInv, [Next]_vars PROVE DInv' /\ [StatusSteps]_status
  OBVIOUS
<1>1. ASSUME NEW t \in Tx, CreatePending(t) PROVE DInv' /\ [StatusSteps]_status
  BY <1>1, CreatePendingD
<1>2. ASSUME NEW t \in Tx, EnqueueJob(t) PROVE DInv' /\ [StatusSteps]_status
  BY <1>2, EnqueueJobD
<1>3. ASSUME NEW t \in Tx, BankCallback(t) PROVE FALSE
  BY <1>3 DEF BankCallback, FaultFree, DInv, TypeOK
<1>4. ASSUME NEW w \in Workers, WorkerCrash(w) PROVE FALSE
  BY <1>4 DEF WorkerCrash, FaultFree, DInv, TypeOK
<1>5. ASSUME NEW w \in Workers, WorkerStep(w) PROVE DInv' /\ [StatusSteps]_status
  BY <1>5, ReceiveD, CallBankD, CompleteTransactionD, FailTransactionD, TriggerWebhookD,
     MarkForReviewD, RetryJobD, AckJobD DEF WorkerStep
<1>6. CASE UNCHANGED vars
  BY <1>6 DEF vars, DInv, TypeOK, OneMessage, WorkMatchesStatus, Busy, Queued
<1>. QED
  BY <1>1, <1>2, <1>3, <1>4, <1>5, <1>6 DEF Next

(* In a run with no worker crash, no bank callback and no failed webhook *)
(* send, every row follows the state diagram of spec section 3: created  *)
(* PENDING, then PROCESSING, then a terminal status it keeps, however    *)
(* many workers interleave, retries are sent and enqueues are lost.  The *)
(* workers' unconditional update_status(PROCESSING) is safe there because *)
(* each row has one unit of work at a time (OneMessage).                  *)
THEOREM DiagramWithoutFaults ==
    ASSUME FaultFree
    PROVE  Spec => StatusFollowsDiagram
<1>1. Init => DInv
  BY DInit
<1>2. DInv /\ [Next]_vars => DInv' /\ [StatusSteps]_status
  BY DNext
<1>. QED
  BY <1>1, <1>2, PTL DEF Spec, StatusFollowsDiagram, StatusSteps


-----------------------------------------------------------------------------
(***************************************************************************)
(* The lifecycle implements TransactionLedger without faults.  DInv gives *)
(* every ledger guard: a worker's commit of SUCCESS, FAILED or           *)
(* PENDING_REVIEW finds its row PROCESSING (WorkMatchesStatus), and a    *)
(* received message's row is PENDING (the ledger's Start) or already     *)
(* PROCESSING (a retry, which leaves the row as it is).                   *)
(***************************************************************************)
(* The ledger's balance guard is the code's subtract_balance check.        *)
LEMMA CoveredIsCanApply ==
    ASSUME NEW t \in Tx
    PROVE  /\ Ledger!Covered(t) <=> CanApply(t)
           /\ Ledger!Signed(t) = Signed(t)
BY DEF Ledger!Covered, CanApply, Ledger!Signed, Signed

(* A worker at t's terminal commit has its job for a PROCESSING row.      *)
LEMMA HeldProcessing ==
    ASSUME DInv, NEW w \in Workers, pc[w] \in {"complete", "fail", "except"}
    PROVE  job[w].tx \in Tx /\ status[job[w].tx] = "PROCESSING"
BY HeldJob DEF DInv, WorkMatchesStatus

LEMMA ReceiveRefines ==
    ASSUME DInv, NEW w \in Workers, Receive(w)
    PROVE  [Ledger!Next]_<<status, balance>>
<1>1. PICK j \in Jobs : /\ queue[j] > 0
                        /\ status' = [status EXCEPT ![j.tx] = "PROCESSING"]
  BY DEF Receive
<1>2. j.tx \in Tx /\ status[j.tx] \in {"PENDING", "PROCESSING"} /\ UNCHANGED balance
  BY <1>1 DEF Receive, Jobs, DInv, WorkMatchesStatus
<1>3. CASE status[j.tx] = "PENDING"
  <2>1. Ledger!Start(j.tx)
    BY <1>1, <1>2, <1>3 DEF Ledger!Start, Ledger!Move
  <2> QED BY <1>2, <2>1 DEF Ledger!Next
<1>4. CASE status[j.tx] = "PROCESSING"
  <2>1. status' = status
    BY <1>1, <1>2, <1>4 DEF DInv, TypeOK
  <2> QED BY <1>2, <2>1
<1> QED BY <1>2, <1>3, <1>4

LEMMA CompleteRefines ==
    ASSUME DInv, NEW w \in Workers, CompleteTransaction(w)
    PROVE  [Ledger!Next]_<<status, balance>>
<1>1. job[w].tx \in Tx /\ status[job[w].tx] = "PROCESSING"
  BY HeldProcessing DEF CompleteTransaction
<1>2. CASE CanApply(job[w].tx) /\ ApplyCompletion(job[w].tx)
  <2>1. Ledger!Complete(job[w].tx)
    BY <1>1, <1>2, CoveredIsCanApply DEF ApplyCompletion, Ledger!Complete
  <2> QED BY <1>1, <2>1 DEF Ledger!Next
<1>3. CASE UNCHANGED <<status, balance>>
  BY <1>3
<1> QED BY <1>2, <1>3 DEF CompleteTransaction

LEMMA FailRefines ==
    ASSUME DInv, NEW w \in Workers, FailTransaction(w)
    PROVE  Ledger!Next
<1>1. job[w].tx \in Tx /\ status[job[w].tx] = "PROCESSING"
  BY HeldProcessing DEF FailTransaction
<1>2. Ledger!Fail(job[w].tx)
  BY <1>1 DEF FailTransaction, Ledger!Fail, Ledger!Move
<1> QED BY <1>1, <1>2 DEF Ledger!Next

LEMMA ReviewRefines ==
    ASSUME DInv, NEW w \in Workers, MarkForReview(w)
    PROVE  Ledger!Next
<1>1. job[w].tx \in Tx /\ status[job[w].tx] = "PROCESSING"
  BY HeldProcessing DEF MarkForReview
<1>2. Ledger!Review(job[w].tx)
  BY <1>1 DEF MarkForReview, MarkPendingReview, Ledger!Review, Ledger!Move
<1> QED BY <1>1, <1>2 DEF Ledger!Next

(* Every step of the fault-free lifecycle is a TransactionLedger step or  *)
(* leaves the statuses and balances alone.                                *)
LEMMA StepRefinesLedger ==
    ASSUME FaultFree
    PROVE  DInv /\ [Next]_vars => [Ledger!Next]_<<status, balance>>
<1> SUFFICES ASSUME DInv, [Next]_vars PROVE [Ledger!Next]_<<status, balance>>
  OBVIOUS
<1>1. ASSUME NEW t \in Tx, CreatePending(t) PROVE Ledger!Next
  <2>1. Ledger!Create(t)
    BY <1>1 DEF CreatePending, Ledger!Create, Ledger!Move
  <2> QED BY <2>1 DEF Ledger!Next
<1>2. ASSUME NEW t \in Tx, BankCallback(t) PROVE FALSE
  BY <1>2 DEF BankCallback, FaultFree, DInv, TypeOK
<1>3. ASSUME NEW w \in Workers, WorkerCrash(w) PROVE FALSE
  BY <1>3 DEF WorkerCrash, FaultFree, DInv, TypeOK
<1>4. ASSUME NEW w \in Workers,
             CallBank(w) \/ TriggerWebhook(w) \/ RetryJob(w) \/ AckJob(w)
      PROVE  UNCHANGED <<status, balance>>
  BY <1>4 DEF CallBank, TriggerWebhook, RetryJob, AckJob
<1>5. ASSUME NEW t \in Tx, EnqueueJob(t) PROVE UNCHANGED <<status, balance>>
  BY <1>5 DEF EnqueueJob
<1>6. CASE UNCHANGED vars
  BY <1>6 DEF vars
<1> QED
  BY <1>1, <1>2, <1>3, <1>4, <1>5, <1>6, ReceiveRefines, CompleteRefines,
     FailRefines, ReviewRefines DEF Next, WorkerStep

(* In a run with no worker crash, no bank callback and no failed webhook *)
(* send, the workers, queues and retries implement the ledger of spec    *)
(* sections 3 and 8: each balance changes only in the commit that makes  *)
(* one PROCESSING transaction SUCCESS, by that transaction's signed      *)
(* amount and only while the balance covers it, and every status change *)
(* is one move of the diagram.  The crash and callback runs break it.     *)
THEOREM LedgerRefinement ==
    ASSUME FaultFree
    PROVE  Spec => ImplementsLedger
<1>1. Init => Ledger!Init
  BY DEF Init, Ledger!Init
<1>2. DInv /\ [Next]_vars => DInv' /\ [Ledger!Next]_<<status, balance>>
  BY DNext, StepRefinesLedger
<1> QED
  BY <1>1, <1>2, DInit, PTL DEF Spec, ImplementsLedger, Ledger!Spec

=============================================================================
