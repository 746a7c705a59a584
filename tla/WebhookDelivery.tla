--------------------------- MODULE WebhookDelivery ---------------------------
(***************************************************************************)
(* Outbound merchant notifications and the dead letter queue:             *)
(*  - _trigger_webhook_if_configured (domain/services/                    *)
(*    base_transaction_service.py) inserts a PENDING WebhookDelivery row,  *)
(*    commits, and sends the send_webhook_notification job;               *)
(*  - send_webhook_notification (workers/tasks/webhook_tasks.py) with its *)
(*    autoretry (max_retries 5) and DLQTask.on_failure (workers/          *)
(*    base_task.py), under late acks and requeue on a lost worker;        *)
(*  - handle_failed_task and replay_failed_task                           *)
(*    (workers/tasks/dlq_tasks.py).                                       *)
(* Each database commit and each broker send is one step.  A Celery task  *)
(* keeps its task id across retries and redeliveries; a replay sends a    *)
(* job with a new task id.                                                *)
(***************************************************************************)
EXTENDS Integers, FiniteSets

CONSTANTS
    Deliveries,      \* webhook_deliveries rows (numbers)
    Workers,         \* worker processes consuming the jobs
    Replayers,       \* concurrent invocations of replay_failed_task
    MaxRetries,      \* WEBHOOK_MAX_RETRIES, Celery's max_retries (5)
    MaxTasks,        \* bound on Celery task ids, so on replays
    MaxCrashes,      \* bound on worker crashes
    DelayCanFail,    \* whether send_webhook_notification.delay() may raise
    DlqSendCanFail   \* whether on_failure's send_task to the DLQ may raise

ASSUME WebhookAssumption ==
    /\ MaxRetries \in Nat \ {0}
    /\ MaxTasks \in Nat
    /\ Deliveries \subseteq 1..MaxTasks   \* the first job's task id is d
    /\ MaxCrashes \in Nat
    /\ DelayCanFail \in BOOLEAN
    /\ DlqSendCanFail \in BOOLEAN

(* The first job of delivery d has task id d; later ids are handed out by *)
(* replays.                                                                *)
TaskIds == 1..MaxTasks
Jobs == [d : Deliveries, tid : TaskIds, retries : 0..MaxRetries]
NoJob == [d |-> 0, tid |-> 0, retries |-> -1]
DlqMsgs == [d : Deliveries, tid : TaskIds]

Status == {"NONE", "PENDING", "SENDING", "SUCCESS", "FAILED"}
Settled == {"SUCCESS", "FAILED"}
PC == {"idle", "sending", "raised", "acking"}

VARIABLES
    dstatus,     \* [Deliveries -> Status]: webhook_deliveries.status
    attempts,    \* [Deliveries -> Nat]: attempt_count
    queue,       \* [Jobs -> Nat]: the bag of webhook job messages
    pc,          \* [Workers -> PC]: where each worker is in the task
    job,         \* [Workers -> Jobs \cup {NoJob}]: its unacknowledged message
    crashes,     \* worker crashes so far
    dlq,         \* [DlqMsgs -> Nat]: the bag of messages on webhooks.dlq
    records,     \* failed_tasks rows, as the DLQ messages they store
    replayedAt,  \* task ids of the failed_tasks rows with replayed_at set
    rpc,         \* [Replayers -> TaskIds \cup {0}]: record being replayed
    nextTid,     \* the next fresh task id
    exhausted,   \* task ids that Celery has given up on (history)
    replays      \* [TaskIds -> Nat]: jobs sent by replays of each record

vars == <<dstatus, attempts, queue, pc, job, crashes, dlq, records,
          replayedAt, rpc, nextTid, exhausted, replays>>

(* Sending a message adds a copy of it to a bag.                         *)
Send(q, m) == [q EXCEPT ![m] = @ + 1]

(***************************************************************************)
(* Plausible bugs of the code below, used by the mutation runs.           *)
(***************************************************************************)
\* The except branch's final-attempt test written as
\* retries > WEBHOOK_MAX_RETRIES.
FinalAttemptLate(r) == r > MaxRetries

\* The late ack leaving the worker's message in place.
AckKeepsJob(w) ==
    /\ pc[w] = "acking"
    /\ pc' = [pc EXCEPT ![w] = "idle"]
    /\ UNCHANGED <<dstatus, attempts, queue, job, crashes, dlq, records,
                   replayedAt, rpc, nextTid, exhausted, replays>>

-----------------------------------------------------------------------------
(* The except branch of send_webhook_notification marks the delivery      *)
(* FAILED when self.request.retries >= WEBHOOK_MAX_RETRIES - 1.           *)
FinalAttempt(r) == r >= MaxRetries - 1

(* DLQTask.on_failure sends to the DLQ when self.request.retries >=       *)
(* self.max_retries.  WebhookDeliveryTask passes WEBHOOK_MAX_RETRIES only *)
(* to autoretry's retry() through retry_kwargs and leaves the attribute   *)
(* at Celery's Task default of 3, so an exhausted job (retries 5) always  *)
(* passes the test.                                                       *)
TaskMaxRetries == 3

OnFailureSends(r) == r >= TaskMaxRetries

(* replay_failed_task returns "already_replayed" when replayed_at is set. *)
ReplayGuard(t) == t \notin replayedAt

Init ==
    /\ dstatus = [d \in Deliveries |-> "NONE"]
    /\ attempts = [d \in Deliveries |-> 0]
    /\ queue = [m \in Jobs |-> 0]
    /\ pc = [w \in Workers |-> "idle"]
    /\ job = [w \in Workers |-> NoJob]
    /\ crashes = 0
    /\ dlq = [m \in DlqMsgs |-> 0]
    /\ records = {}
    /\ replayedAt = {}
    /\ rpc = [p \in Replayers |-> 0]
    /\ nextTid = Cardinality(Deliveries) + 1
    /\ exhausted = {}
    /\ replays = [t \in TaskIds |-> 0]

(* _trigger_webhook_if_configured: create_delivery (PENDING, attempt 0),  *)
(* commit, then .delay(); the send may raise after the row's commit.      *)
CreateDelivery(d) ==
    /\ dstatus[d] = "NONE"
    /\ dstatus' = [dstatus EXCEPT ![d] = "PENDING"]
    /\ \/ queue' = Send(queue, [d |-> d, tid |-> d, retries |-> 0])
       \/ DelayCanFail /\ UNCHANGED queue
    /\ UNCHANGED <<attempts, pc, job, crashes, dlq, records, replayedAt, rpc,
                   nextTid, exhausted, replays>>

(* A worker takes a job, increments attempt_count, sets SENDING, commits. *)
Receive(w) ==
    /\ pc[w] = "idle"
    /\ \E m \in Jobs :
          /\ queue[m] > 0
          /\ queue' = [queue EXCEPT ![m] = @ - 1]
          /\ job' = [job EXCEPT ![w] = m]
          /\ attempts' = [attempts EXCEPT ![m.d] = @ + 1]
          /\ dstatus' = [dstatus EXCEPT ![m.d] = "SENDING"]
    /\ pc' = [pc EXCEPT ![w] = "sending"]
    /\ UNCHANGED <<crashes, dlq, records, replayedAt, rpc, nextTid,
                   exhausted, replays>>

(* The POST and its commit: 2xx gives SUCCESS and any other status below *)
(* 500, or an unexpected exception, FAILED, both returning normally; a   *)
(* 5xx (raise_for_status) or an httpx.RequestError takes the except      *)
(* branch, which commits FAILED on the final attempt and PENDING before, *)
(* and re-raises.                                                         *)
Post(w) ==
    /\ pc[w] = "sending"
    /\ LET d == job[w].d IN
       \/ /\ dstatus' = [dstatus EXCEPT ![d] = "SUCCESS"]
          /\ pc' = [pc EXCEPT ![w] = "acking"]
       \/ /\ dstatus' = [dstatus EXCEPT ![d] = "FAILED"]
          /\ pc' = [pc EXCEPT ![w] = "acking"]
       \/ /\ dstatus' = [dstatus EXCEPT ![d] =
                           IF FinalAttempt(job[w].retries) THEN "FAILED"
                                                           ELSE "PENDING"]
          /\ pc' = [pc EXCEPT ![w] = "raised"]
    /\ UNCHANGED <<attempts, queue, job, crashes, dlq, records, replayedAt,
                   rpc, nextTid, exhausted, replays>>

(* autoretry: below max_retries a copy with retries + 1 is sent before   *)
(* the original is acknowledged; at max_retries the task fails and       *)
(* on_failure publishes the job on webhooks.dlq, a send that may raise   *)
(* and is then only logged.                                               *)
Raise(w) ==
    /\ pc[w] = "raised"
    /\ pc' = [pc EXCEPT ![w] = "acking"]
    /\ \/ /\ job[w].retries < MaxRetries
          /\ queue' = Send(queue, [job[w] EXCEPT !.retries = @ + 1])
          /\ UNCHANGED <<dlq, exhausted>>
       \/ /\ job[w].retries >= MaxRetries
          /\ exhausted' = exhausted \cup {job[w].tid}
          /\ \/ dlq' = IF OnFailureSends(job[w].retries)
                          THEN Send(dlq, [d |-> job[w].d, tid |-> job[w].tid])
                          ELSE dlq
             \/ DlqSendCanFail /\ UNCHANGED dlq
          /\ UNCHANGED queue
    /\ UNCHANGED <<dstatus, attempts, job, crashes, records, replayedAt, rpc,
                   nextTid, replays>>

(* The late ack.                                                          *)
Ack(w) ==
    /\ pc[w] = "acking"
    /\ pc' = [pc EXCEPT ![w] = "idle"]
    /\ job' = [job EXCEPT ![w] = NoJob]
    /\ UNCHANGED <<dstatus, attempts, queue, crashes, dlq, records,
                   replayedAt, rpc, nextTid, exhausted, replays>>

(* The worker dies holding an unacknowledged job; reject_on_worker_lost  *)
(* requeues it, with its task id and retries.                             *)
Crash(w) ==
    /\ pc[w] # "idle"
    /\ crashes < MaxCrashes
    /\ crashes' = crashes + 1
    /\ queue' = Send(queue, job[w])
    /\ pc' = [pc EXCEPT ![w] = "idle"]
    /\ job' = [job EXCEPT ![w] = NoJob]
    /\ UNCHANGED <<dstatus, attempts, dlq, records, replayedAt, rpc, nextTid,
                   exhausted, replays>>

(* handle_failed_task: a message for a task id already stored is ignored *)
(* (and the unique index on failed_tasks.task_id backs the check);       *)
(* otherwise the FailedTask row is inserted.                              *)
StoreFailedTask ==
    \E m \in DlqMsgs :
       /\ dlq[m] > 0
       /\ dlq' = [dlq EXCEPT ![m] = @ - 1]
       /\ records' = IF \E r \in records : r.tid = m.tid
                       THEN records ELSE records \cup {m}
       /\ UNCHANGED <<dstatus, attempts, queue, pc, job, crashes, replayedAt,
                      rpc, nextTid, exhausted, replays>>

(* replay_failed_task, first part: load the record, check replayed_at,   *)
(* and send the original job under a new task id to the main queue.      *)
ReplaySend(p) ==
    /\ rpc[p] = 0
    /\ nextTid <= MaxTasks
    /\ \E r \in records :
          /\ ReplayGuard(r.tid)
          /\ queue' = Send(queue, [d |-> r.d, tid |-> nextTid, retries |-> 0])
          /\ rpc' = [rpc EXCEPT ![p] = r.tid]
          /\ replays' = [replays EXCEPT ![r.tid] = @ + 1]
    /\ nextTid' = nextTid + 1
    /\ UNCHANGED <<dstatus, attempts, pc, job, crashes, dlq, records,
                   replayedAt, exhausted>>

(* replay_failed_task, second part, after the job has been sent: commit  *)
(* replayed_at and QUEUED; or db.commit() raises, the except branch rolls *)
(* back and returns an error, or the worker dies before the commit and    *)
(* the late-acked task is redelivered: either way replayed_at stays unset *)
(* and the job already on the queue stays there.                          *)
ReplayCommit(p) ==
    /\ rpc[p] # 0
    /\ \/ replayedAt' = replayedAt \cup {rpc[p]}
       \/ UNCHANGED replayedAt
    /\ rpc' = [rpc EXCEPT ![p] = 0]
    /\ UNCHANGED <<dstatus, attempts, queue, pc, job, crashes, dlq, records,
                   nextTid, exhausted, replays>>

WorkerStep(w) == Receive(w) \/ Post(w) \/ Raise(w) \/ Ack(w)

Next ==
    \/ \E d \in Deliveries : CreateDelivery(d)
    \/ \E w \in Workers : WorkerStep(w) \/ Crash(w)
    \/ StoreFailedTask
    \/ \E p \in Replayers : ReplaySend(p) \/ ReplayCommit(p)

(* Live workers keep consuming their queues (the webhook queue and the   *)
(* DLQ), and a started replay commits.  Deliveries, crashes and replays  *)
(* are not forced.                                                        *)
Fairness ==
    /\ \A w \in Workers : WF_vars(WorkerStep(w))
    /\ WF_vars(StoreFailedTask)
    /\ \A p \in Replayers : WF_vars(ReplayCommit(p))

Spec == Init /\ [][Next]_vars /\ Fairness

-----------------------------------------------------------------------------
(* A worker holds an unacknowledged message exactly when it is busy.     *)
TypeOK ==
    /\ dstatus \in [Deliveries -> Status]
    /\ attempts \in [Deliveries -> Nat]
    /\ queue \in [Jobs -> Nat]
    /\ pc \in [Workers -> PC]
    /\ job \in [Workers -> Jobs \cup {NoJob}]
    /\ \A w \in Workers : (pc[w] = "idle") <=> (job[w] = NoJob)
    /\ crashes \in 0..MaxCrashes
    /\ dlq \in [DlqMsgs -> Nat]
    /\ records \subseteq DlqMsgs
    /\ replayedAt \subseteq TaskIds
    /\ rpc \in [Replayers -> TaskIds \cup {0}]
    /\ nextTid \in Nat
    /\ exhausted \subseteq TaskIds
    /\ replays \in [TaskIds -> Nat]

(* Spec section 4.6: a FAILED delivery gets no further attempt (a 4xx is *)
(* final, and FAILED after retries marks the final exhaustion); only a   *)
(* replay from the DLQ may send it again.                                 *)
FailedIsFinal ==
    [][\A d \in Deliveries : dstatus[d] = "FAILED" => dstatus'[d] = "FAILED"]_vars

(* Spec section 4.6, reliable delivery: every delivery row that has been *)
(* created ends SUCCESS or FAILED, through the retries, redeliveries     *)
(* after crashes, and replays it goes through.                            *)
DeliverySettles ==
    \A d \in Deliveries : dstatus[d] # "NONE" ~> dstatus[d] \in Settled

(* Spec sections 4.6 and 4.7: a job that Celery gives up on after its    *)
(* retries ends up as a failed_tasks row, so that it can be inspected    *)
(* and replayed.                                                           *)
DeadLettered ==
    \A t \in TaskIds : t \in exhausted ~> \E r \in records : r.tid = t

(* Spec section 4.7: replay_failed_task prevents double replay: each     *)
(* failed_tasks row is re-enqueued at most once.                          *)
ReplayedOnce == \A t \in TaskIds : replays[t] <= 1

=============================================================================
