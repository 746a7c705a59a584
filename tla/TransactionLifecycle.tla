------------------------ MODULE TransactionLifecycle ------------------------
(***************************************************************************)
(* The transaction lifecycle engine of the payment gateway: the ingress    *)
(* path that creates a PENDING transaction row and enqueues a job          *)
(* (api/v1/utils/transaction_utils.py, domain/services/*_service.py), the  *)
(* Celery workers that drive a job through the bank call to a terminal     *)
(* status (workers/transaction_processor.py, workers/strategies.py,        *)
(* workers/tasks/{deposit,withdrawal}_tasks.py), and the bank callback     *)
(* endpoint that completes or fails a transaction from the bank's side     *)
(* (api/v1/webhooks.py).                                                   *)
(*                                                                         *)
(* Each database transaction of the code (a commit) is one atomic step:   *)
(* the row lock SELECT ... FOR UPDATE of the account serialises the        *)
(* balance updates, so nothing interleaves inside one.  Between two        *)
(* commits anything may happen: another worker's step, a bank callback,   *)
(* or a crash of the worker, after which the broker redelivers the         *)
(* unacknowledged job (task_acks_late, task_reject_on_worker_lost).        *)
(***************************************************************************)
EXTENDS Integers, FiniteSets, FiniteSetsExt

CONSTANTS
    Tx,            \* transaction rows a client may create (model values)
    Accounts,      \* accounts (model values)
    Workers,       \* Celery worker processes (model values)
    TxType,        \* [Tx -> {"DEPOSIT", "WITHDRAWAL"}]: the request's kind
    TxAccount,     \* [Tx -> Accounts]: the account the request is for
    TxAmount,      \* [Tx -> Nat \ {0}]: the request's amount, in cents
    InitBalance,   \* [Accounts -> Nat]: balances when the model starts
    MaxRetries,    \* max_retries of process_deposit / process_withdrawal
    MaxCrashes,    \* bound on worker crashes in one behaviour
    MaxCallbacks,  \* bound on bank callbacks in one behaviour
    NotifyCanFail, \* whether enqueueing the webhook job may raise
    EnqueueCanFail \* whether enqueueing the processing job may fail

ASSUME ConstantsAssumption ==
    /\ TxType \in [Tx -> {"DEPOSIT", "WITHDRAWAL"}]
    /\ TxAccount \in [Tx -> Accounts]
    /\ TxAmount \in [Tx -> Nat \ {0}]
    /\ InitBalance \in [Accounts -> Nat]
    /\ MaxRetries \in Nat
    /\ MaxCrashes \in Nat
    /\ MaxCallbacks \in Nat
    /\ NotifyCanFail \in BOOLEAN
    /\ EnqueueCanFail \in BOOLEAN

NoJob == [tx |-> CHOOSE t \in Tx : TRUE, retries |-> -1]

(* A Celery message of process_deposit / process_withdrawal: the          *)
(* transaction it is about and request.retries.                           *)
Jobs == [tx : Tx, retries : 0..MaxRetries]

(* Status values of core/enums.py TransactionStatus, and NONE for a row   *)
(* that does not exist yet.                                                *)
Status == {"NONE", "PENDING", "PROCESSING", "SUCCESS", "FAILED", "PENDING_REVIEW"}
Terminal == {"SUCCESS", "FAILED", "PENDING_REVIEW"}

(* Worker program counter: where in GenericTransactionProcessor.process   *)
(* the worker is.                                                          *)
PC == {"idle", "bank", "complete", "fail", "notify", "except", "done"}

VARIABLES
    status,     \* [Tx -> Status]: transactions.status
    balance,    \* [Accounts -> Int]: accounts.balance
    queue,      \* [Jobs -> Nat]: messages in the "transactions" queue (a bag)
    enqueuing,  \* rows committed by the API whose job is not sent yet
    pc,         \* [Workers -> PC]
    job,        \* [Workers -> Jobs \cup {NoJob}]: the unacknowledged message
    crashes,    \* worker crashes so far
    callbacks   \* bank callbacks so far

vars == <<status, balance, queue, enqueuing, pc, job, crashes, callbacks>>

Signed(t) == IF TxType[t] = "DEPOSIT" THEN TxAmount[t] ELSE -TxAmount[t]

(* A message sent to the broker: one more copy of j in the queue bag.     *)
Send(q, j) == [q EXCEPT ![j] = @ + 1]

(***************************************************************************)
(* Plausible bugs of the code below, used by the mutation runs: each one  *)
(* replaces the definition named in its comment.                          *)
(***************************************************************************)
\* CanApply: subtract_balance without its insufficient-balance check.
CanApplyUnchecked(t) == TRUE

\* FailTransaction: fail_withdrawal refunding the amount, as the
\* "refunded": True of WithdrawalStrategy.fail_transaction suggests.
FailTransactionRefund(w) ==
    /\ pc[w] = "fail"
    /\ status' = [status EXCEPT ![job[w].tx] = "FAILED"]
    /\ balance' = [balance EXCEPT ![TxAccount[job[w].tx]] =
                      @ + (IF TxType[job[w].tx] = "WITHDRAWAL" THEN TxAmount[job[w].tx] ELSE 0)]
    /\ pc' = [pc EXCEPT ![w] = "notify"]
    /\ UNCHANGED <<queue, enqueuing, job, crashes, callbacks>>

\* RetryJob: the retry message sent with the same request.retries.
RetryJobSameCount(w) ==
    /\ pc[w] = "except"
    /\ job[w].retries < MaxRetries
    /\ queue' = Send(queue, job[w])
    /\ pc' = [pc EXCEPT ![w] = "done"]
    /\ UNCHANGED <<status, balance, enqueuing, job, crashes, callbacks>>

\* AckJob: the worker forgets to drop the acknowledged message.
AckJobNoReset(w) ==
    /\ pc[w] = "done"
    /\ pc' = [pc EXCEPT ![w] = "idle"]
    /\ UNCHANGED <<status, balance, queue, enqueuing, job, crashes, callbacks>>

\* AckJob: the message is rejected with requeue instead of acknowledged.
AckJobRequeue(w) ==
    /\ pc[w] = "done"
    /\ queue' = Send(queue, job[w])
    /\ pc' = [pc EXCEPT ![w] = "idle"]
    /\ job' = [job EXCEPT ![w] = NoJob]
    /\ UNCHANGED <<status, balance, enqueuing, crashes, callbacks>>

(* The amount_positive check of add_balance/subtract_balance always holds *)
(* (TxAmount > 0), so the only way the balance update can raise is the    *)
(* insufficient-balance check of subtract_balance.                         *)
CanApply(t) ==
    TxType[t] = "DEPOSIT" \/ balance[TxAccount[t]] >= TxAmount[t]

(* The committed database transaction of _complete_deposit_locked /       *)
(* _complete_withdrawal_locked: row lock, balance update, status SUCCESS. *)
ApplyCompletion(t) ==
    /\ balance' = [balance EXCEPT ![TxAccount[t]] = @ + Signed(t)]
    /\ status' = [status EXCEPT ![t] = "SUCCESS"]

-----------------------------------------------------------------------------
Init ==
    /\ status = [t \in Tx |-> "NONE"]
    /\ balance = InitBalance
    /\ queue = [j \in Jobs |-> 0]
    /\ enqueuing = {}
    /\ pc = [w \in Workers |-> "idle"]
    /\ job = [w \in Workers |-> NoJob]
    /\ crashes = 0
    /\ callbacks = 0

(* POST /deposits or /withdrawals: create_pending_deposit inserts the row; *)
(* create_pending_withdrawal first reads the account FOR UPDATE and        *)
(* rejects the request (400, no row) if balance < amount.  No balance is   *)
(* reserved.                                                               *)
CreatePending(t) ==
    /\ status[t] = "NONE"
    /\ TxType[t] = "WITHDRAWAL" => balance[TxAccount[t]] >= TxAmount[t]
    /\ status' = [status EXCEPT ![t] = "PENDING"]
    /\ enqueuing' = enqueuing \cup {t}
    /\ UNCHANGED <<balance, queue, pc, job, crashes, callbacks>>

(* create_transaction, after the commit: task_function(...) sends the job *)
(* with request.retries = 0.  If sending fails (broker down, process      *)
(* killed) the handler answers 500 and the committed row stays PENDING.   *)
EnqueueJob(t) ==
    /\ t \in enqueuing
    /\ enqueuing' = enqueuing \ {t}
    /\ \/ queue' = Send(queue, [tx |-> t, retries |-> 0])
       \/ EnqueueCanFail /\ UNCHANGED queue
    /\ UNCHANGED <<status, balance, pc, job, crashes, callbacks>>

(* A worker receives a message (prefetch 1, not yet acknowledged) and     *)
(* runs process() up to update_status(tx_id, PROCESSING), which sets the  *)
(* status whatever it was and commits.                                    *)
Receive(w) ==
    /\ pc[w] = "idle"
    /\ \E j \in Jobs :
        /\ queue[j] > 0
        /\ queue' = [queue EXCEPT ![j] = @ - 1]
        /\ job' = [job EXCEPT ![w] = j]
        /\ status' = [status EXCEPT ![j.tx] = "PROCESSING"]
    /\ pc' = [pc EXCEPT ![w] = "bank"]
    /\ UNCHANGED <<balance, enqueuing, crashes, callbacks>>

(* strategy.call_bank and the classification of its answer: SUCCESS      *)
(* completes, TIMEOUT and UNAVAILABLE (also the circuit breaker's         *)
(* synthesised UNAVAILABLE, and a raised exception) go to the exception   *)
(* handler, INSUFFICIENT_FUNDS fails the transaction.                     *)
CallBank(w) ==
    /\ pc[w] = "bank"
    /\ \E next \in {"complete", "except", "fail"} :
          pc' = [pc EXCEPT ![w] = next]
    /\ UNCHANGED <<status, balance, queue, enqueuing, job, crashes, callbacks>>

(* _handle_success -> complete_deposit / complete_withdrawal.  The worker *)
(* builds the service without a cache client, so the DB row lock is the  *)
(* only lock.  No check of the current status.  An insufficient balance  *)
(* raises, rolls back and reaches the exception handler.                  *)
CompleteTransaction(w) ==
    /\ pc[w] = "complete"
    /\ \/ /\ CanApply(job[w].tx)
          /\ ApplyCompletion(job[w].tx)
          /\ pc' = [pc EXCEPT ![w] = "notify"]
       \/ /\ ~CanApply(job[w].tx)
          /\ pc' = [pc EXCEPT ![w] = "except"]
          /\ UNCHANGED <<status, balance>>
    /\ UNCHANGED <<queue, enqueuing, job, crashes, callbacks>>

(* _handle_permanent_failure -> fail_deposit / fail_withdrawal: status    *)
(* FAILED, commit; no balance change.                                      *)
FailTransaction(w) ==
    /\ pc[w] = "fail"
    /\ status' = [status EXCEPT ![job[w].tx] = "FAILED"]
    /\ pc' = [pc EXCEPT ![w] = "notify"]
    /\ UNCHANGED <<balance, queue, enqueuing, job, crashes, callbacks>>

(* _trigger_webhook_if_configured, after the commit of the terminal       *)
(* status: insert the delivery row, commit, send_webhook_notification     *)
(* .delay().  If that raises, the exception leaves complete_* / fail_*    *)
(* and process() hands it to _handle_exception.                           *)
TriggerWebhook(w) ==
    /\ pc[w] = "notify"
    /\ \/ pc' = [pc EXCEPT ![w] = "done"]
       \/ NotifyCanFail /\ pc' = [pc EXCEPT ![w] = "except"]
    /\ UNCHANGED <<status, balance, queue, enqueuing, job, crashes, callbacks>>

(* mark_pending_review: the row's status becomes PENDING_REVIEW whatever *)
(* it was (no check of the current status), committed.                   *)
MarkPendingReview(t) == status' = [status EXCEPT ![t] = "PENDING_REVIEW"]

(* _handle_exception with request.retries >= max_retries: _mark_for_review*)
(* calls mark_pending_review, and process() returns.                      *)
MarkForReview(w) ==
    /\ pc[w] = "except"
    /\ job[w].retries >= MaxRetries
    /\ MarkPendingReview(job[w].tx)
    /\ pc' = [pc EXCEPT ![w] = "done"]
    /\ UNCHANGED <<balance, queue, enqueuing, job, crashes, callbacks>>

(* _handle_exception with retries left re-raises; Celery's autoretry     *)
(* sends a copy of the message with request.retries + 1.  The original is *)
(* acknowledged only afterwards (AckJob).                                 *)
RetryJob(w) ==
    /\ pc[w] = "except"
    /\ job[w].retries < MaxRetries
    /\ queue' = Send(queue, [job[w] EXCEPT !.retries = @ + 1])
    /\ pc' = [pc EXCEPT ![w] = "done"]
    /\ UNCHANGED <<status, balance, enqueuing, job, crashes, callbacks>>

(* task_acks_late: the message is acknowledged when the task returns or  *)
(* its retry has been scheduled.                                          *)
AckJob(w) ==
    /\ pc[w] = "done"
    /\ pc' = [pc EXCEPT ![w] = "idle"]
    /\ job' = [job EXCEPT ![w] = NoJob]
    /\ UNCHANGED <<status, balance, queue, enqueuing, crashes, callbacks>>

(* The worker process dies between two commits.  task_reject_on_worker_  *)
(* lost with late acks: the broker redelivers the unacknowledged message *)
(* unchanged; what was committed stays committed.                         *)
WorkerCrash(w) ==
    /\ pc[w] # "idle"
    /\ crashes < MaxCrashes
    /\ crashes' = crashes + 1
    /\ queue' = Send(queue, job[w])
    /\ pc' = [pc EXCEPT ![w] = "idle"]
    /\ job' = [job EXCEPT ![w] = NoJob]
    /\ UNCHANGED <<status, balance, enqueuing, callbacks>>

(* POST /webhooks/bank-callback with a valid signature and timestamp for *)
(* an existing transaction: SUCCESS calls complete_deposit /              *)
(* complete_withdrawal, anything else fail_deposit / fail_withdrawal.     *)
(* Neither looks at the current status.  A withdrawal whose balance check *)
(* fails raises and the endpoint answers 500 with nothing changed.        *)
BankCallback(t) ==
    /\ status[t] # "NONE"
    /\ callbacks < MaxCallbacks
    /\ callbacks' = callbacks + 1
    /\ \/ /\ CanApply(t)
          /\ ApplyCompletion(t)
       \/ /\ ~CanApply(t)
          /\ UNCHANGED <<status, balance>>
       \/ /\ status' = [status EXCEPT ![t] = "FAILED"]
          /\ UNCHANGED balance
    /\ UNCHANGED <<queue, enqueuing, pc, job, crashes>>

WorkerStep(w) ==
    \/ Receive(w) \/ CallBank(w) \/ CompleteTransaction(w)
    \/ FailTransaction(w) \/ TriggerWebhook(w)
    \/ MarkForReview(w) \/ RetryJob(w) \/ AckJob(w)

Next ==
    \/ \E t \in Tx : CreatePending(t) \/ EnqueueJob(t) \/ BankCallback(t)
    \/ \E w \in Workers : WorkerStep(w) \/ WorkerCrash(w)

(* Workers keep consuming while they live, and the request handler that  *)
(* committed a row goes on to send its job: weak fairness on both.  No   *)
(* fairness for clients, the bank's callbacks or crashes.                 *)
Fairness ==
    /\ \A w \in Workers : WF_vars(WorkerStep(w))
    /\ \A t \in Tx : WF_vars(EnqueueJob(t))

Spec == Init /\ [][Next]_vars /\ Fairness

-----------------------------------------------------------------------------
TypeOK ==
    /\ status \in [Tx -> Status]
    /\ balance \in [Accounts -> Int]
    /\ queue \in [Jobs -> Nat]
    /\ enqueuing \subseteq Tx
    /\ pc \in [Workers -> PC]
    /\ job \in [Workers -> Jobs \cup {NoJob}]
    /\ \A w \in Workers : (pc[w] = "idle") <=> (job[w] = NoJob)
    /\ crashes \in 0..MaxCrashes
    /\ callbacks \in 0..MaxCallbacks

(* accounts.balance >= 0 at every commit (spec section 3).  No balance is *)
(* reserved when a withdrawal is created, so two withdrawals may both be  *)
(* accepted; only the recheck of subtract_balance under the row lock at   *)
(* completion keeps the balance from going negative.                      *)
BalanceNonNegative ==
    \A a \in Accounts : balance[a] >= 0

(* Spec section 8: every account's balance equals its initial balance    *)
(* plus the signed amounts of its SUCCESS transactions.  Broken when a    *)
(* balance change is committed twice for one transaction, or when a       *)
(* credited transaction later leaves SUCCESS.                             *)
LedgerConsistent ==
    \A a \in Accounts :
        balance[a] = InitBalance[a]
            + MapThenSumSet(Signed, {t \in Tx : TxAccount[t] = a /\ status[t] = "SUCCESS"})

(* Spec section 3: status transitions follow the state diagram, with no  *)
(* backwards transition: a row is created PENDING, becomes PROCESSING,    *)
(* and leaves PROCESSING only for a terminal status, which it keeps.      *)
StatusStep(s, u) ==
    \/ s = u
    \/ s = "NONE" /\ u = "PENDING"
    \/ s = "PENDING" /\ u = "PROCESSING"
    \/ s = "PROCESSING" /\ u \in Terminal

StatusFollowsDiagram ==
    [][\A t \in Tx : StatusStep(status[t], status'[t])]_status

(* Spec sections 3 and 8 as one promise: the lifecycle implements         *)
(* TransactionLedger on the rows' statuses and the balances.  Every step *)
(* that moves a row or a balance is a ledger step (the completion commit *)
(* is Complete, with its balance change and nothing else); queues,        *)
(* retries, acknowledgements and webhook triggers are stutters.           *)
Ledger == INSTANCE TransactionLedger

ImplementsLedger == Ledger!Spec

(* Spec section 3: PENDING_REVIEW is only for withdrawals, whose bank    *)
(* outcome is unknown after max retries.  _mark_for_review is reached by  *)
(* deposits as well once their retries are exhausted.                     *)
ReviewOnlyWithdrawals ==
    \A t \in Tx : status[t] = "PENDING_REVIEW" => TxType[t] = "WITHDRAWAL"

(* Every transaction that is created ends in a terminal status and stays *)
(* there: retries are bounded, redelivery after a crash resumes the work, *)
(* and every committed row gets its job.                                  *)
EventuallyTerminal ==
    \A t \in Tx : status[t] = "PENDING" ~> [](status[t] \in Terminal)

(* Once a worker has started a transaction (update_status(PROCESSING))   *)
(* it ends terminal for good, even when the create-time enqueue of other  *)
(* rows was lost: the late ack keeps its message until it is resolved.    *)
ProcessingResolves ==
    \A t \in Tx : status[t] = "PROCESSING" ~> [](status[t] \in Terminal)

=============================================================================
