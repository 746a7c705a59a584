# Formal models of the payment gateway

TLA+ models of the payment gateway in `src/app`, the TLC configurations that
check them on small instances, and TLAPS proofs of their invariants.

## The system

The gateway is a FastAPI service in front of a PostgreSQL database, a Redis
cache and a Celery worker pool.

* **Ingress** (`api/v1/deposits.py`, `api/v1/withdrawals.py`,
  `api/v1/utils/transaction_utils.py`). A request passes the rate limiter and
  the idempotency middleware, then `create_pending_deposit` or
  `create_pending_withdrawal` inserts a PENDING row and commits.
  The withdrawal path first reads the account `FOR UPDATE` and rejects
  `balance < amount`; it reserves nothing. `create_transaction` then sends the
  Celery job (`process_deposit` / `process_withdrawal`) and commits the task id.
* **Workers** (`workers/transaction_processor.py`, `workers/strategies.py`,
  `workers/tasks/*_tasks.py`, `workers/celery_app.py`). Delivery is
  at-least-once: late acks, requeue on a lost worker, prefetch 1.
  `process()` sets the row to PROCESSING with no check of its status, calls the
  bank simulator (behind the circuit breaker), and then either
  * completes the transaction: balance change under the account's row lock,
    status SUCCESS, commit, then `_trigger_webhook_if_configured`;
  * fails it permanently: FAILED, commit, webhook; or
  * raises. `_handle_exception` re-raises while `request.retries < max_retries`
    (Celery's autoretry sends a copy with `retries + 1`). Otherwise it calls
    `_mark_for_review` (PENDING_REVIEW) and returns.
* **Bank callback** (`api/v1/webhooks.py`). A signed callback completes or
  fails the transaction through the same service methods, again without
  looking at the current status.
* **Supporting parts**: the idempotency middleware (Redis `SET NX` lock for
  60 s, cached response for 24 h); the circuit breaker around the bank; the
  distributed lock (dead code: no caller passes the cache client that enables
  it); the webhook delivery task; the dead letter queue; the rate limiter.

## Modules

| Module | Models |
|---|---|
| `TransactionLedger` | the abstract promise of spec sections 3 and 8: statuses follow the diagram, and a balance changes once per transaction, by its signed amount, when it becomes SUCCESS |
| `TransactionLifecycle` | ingress, worker processing, retries, review, late ack, worker crash with redelivery, bank callback |
| `MCTransactionLifecycle` | the instance for TLC: three transactions on one account (a deposit of 1 and two withdrawals of 2, balance 2) |
| `TransactionLifecycleProofs` | TLAPS proofs of type correctness, the no-overdraft invariant, the status diagram without faults, and the refinement of `TransactionLedger` without faults |
| `BreakerStates` | the abstract breaker of spec section 4.4: the three states, the timeout and the callers' calls, counters hidden |
| `CircuitBreaker` | `CircuitBreaker` and its use by `BankSimulator`: admission, rejection, records, half-open reset |
| `MCCircuitBreaker` | the breaker instance for TLC (callers as model values) |
| `CircuitBreakerProofs` | TLAPS proofs of the breaker's counter invariants and of its refinement of `BreakerStates` |
| `IdempotentCall` | the abstract promise of an Idempotency-Key: one execution, its response stored and given to its request, every other request replayed or turned away |
| `IdempotencyMiddleware` | `IdempotencyMiddleware.dispatch` over `IdempotencyService`, for the requests that carry one key |
| `MCIdempotency` | its instance for TLC (requests numbered `1..NumRequests`) |
| `IdempotencyProofs` | TLAPS proofs of type correctness, a single execution per key when the faults are off, the replay law and kept COMPLETED entry when the lock cannot expire, and the refinement of `IdempotentCall` when the faults are off |
| `WebhookDelivery` | the delivery row, `send_webhook_notification` with autoretry, `DLQTask.on_failure`, `handle_failed_task`, `replay_failed_task` |
| `MCWebhookDelivery` | its instance for TLC (workers and replayers as model values) |
| `WebhookProofs` | TLAPS proofs of type correctness and that a single replayer re-enqueues each `failed_tasks` row at most once |
| `DistributedLock` | `DistributedLock`/`SyncDistributedLock` on one key: acquire (and its lost reply), poll, owner-checked release, TTL expiry, crash |
| `MCDistributedLock` | its instance for TLC (instances as model values) |
| `DistributedLockProofs` | TLAPS proofs of the lock's type correctness, mutual exclusion within the lease |
| `RateLimiter` | `RateLimitMiddleware.dispatch` over `RateLimiter.is_allowed` for one rule: the sorted set per key, key expiry, the server's clock, API processes with their own clocks |
| `MCRateLimiter` | its instance for TLC (processes, users and client addresses as model values; clock offsets and origins as definitions) |
| `RateLimiterProofs` | TLAPS proofs of type correctness and of the per-key and per-user window bounds under synchronised clocks and distinct timestamps |

### TransactionLifecycle

State: `status` (the `transactions.status` column, with `NONE` for a row not
yet created), `balance` (the `accounts.balance` column), `queue` (a bag of
Celery messages `[tx, retries]`), `enqueuing` (committed rows whose job is
not sent yet), and per worker `pc` (the point reached in `process()`) and `job`
(the unacknowledged message). Two counters bound the faults: `crashes` and
`callbacks`.

Each commit of the code is one step. The account row lock (`FOR UPDATE`)
serialises balance updates, so nothing interleaves inside one commit.

| Action | Code |
|---|---|
| `CreatePending(t)` | `create_pending_deposit` / `create_pending_withdrawal` with its balance check |
| `EnqueueJob(t)` | `create_transaction` sending the job; the send may fail when `EnqueueCanFail` |
| `Receive(w)` | delivery plus `update_status(PROCESSING)` |
| `CallBank(w)` | the bank call and the classification of its answer |
| `CompleteTransaction(w)` | `_handle_success` → `complete_*`: `subtract_balance` may raise `InsufficientBalanceError` |
| `FailTransaction(w)` | `_handle_permanent_failure` → `fail_*` |
| `TriggerWebhook(w)` | `_trigger_webhook_if_configured`; `.delay()` may raise when `NotifyCanFail` |
| `RetryJob(w)` / `MarkForReview(w)` | the two branches of `_handle_exception`; `MarkPendingReview` is the service's `mark_pending_review` |
| `AckJob(w)` | the late ack |
| `WorkerCrash(w)` | the worker dies; the broker redelivers the unacked message |
| `BankCallback(t)` | `bank_callback`: SUCCESS → `complete_*`, otherwise `fail_*` |

Fairness: weak fairness on each worker's steps, since a live worker keeps
consuming its prefetched message, and on `EnqueueJob`, since the handler that
committed the row goes straight on to send the job. Clients, callbacks and
crashes get no fairness.

`ImplementsLedger` is `Ledger!Spec`, where `Ledger == INSTANCE
TransactionLedger` maps `status` and `balance` to themselves. The mapping:
* `CreatePending` is `Create`.
* A `Receive` of a PENDING row is `Start`; a `Receive` of a retry's message
  leaves the row PROCESSING.
* The commit of `CompleteTransaction` is `Complete`. Its guard `CanApply` is
  the ledger's `Covered`.
* `FailTransaction` is `Fail`, and `MarkForReview` is `Review`.
* Every other step leaves `status` and `balance` alone.

TLC finds the property violated with a crash, with a callback, and with a
failing webhook send. It holds with lost enqueues.

### CircuitBreaker

State: the breaker's fields `state`, `failure_count`, `success_count`; `stamped`
(`last_failure_time` is set) and `expired` (`timeout_seconds` have passed
since it). Together these are all that `_should_attempt_reset` reads, so
wall-clock time needs no counter. Per caller thread, `cpc` is the point in
`process_deposit`/`process_withdrawal` and `kind` is which of the two.
`healthy` says the bank has recovered. The ghost `failedKinds` records the
kinds whose failures were recorded since the breaker last closed.

Each breaker method holds `self.lock`, so each is one step. A bank call is
two steps: `CanExecute` (or `Reject`), then `BankAnswer` with its
`record_success`/`record_failure`. Threads interleave between the two.
`Tick` lets the timeout pass; `BankRecovers` switches the bank to answering
SUCCESS only. Fairness: time passes, and callers keep calling while they have
jobs and get their answers. `EventuallyCloses` is therefore a statement
about a system under continuing traffic.

`ImplementsBreakerStates` is `Automaton!Spec`, where `Automaton == INSTANCE
BreakerStates WITH timedOut <- stamped /\ expired, call <- cpc`.
* `CanExecute` is `Admit`, `Reject` is `Refuse`, and `ReturnRejected` is
  `Return`.
* `BankAnswer` is `Succeed`, `Fail` or `Neutral`, depending on its record
  method.
* `Tick` is `Elapse`.
* `BankRecovers` is a stutter.

### IdempotencyMiddleware

State: `entry`, the Redis value under `idempotency:<key>` (absent, the
PROCESSING lock, or the COMPLETED record with the response of the request
that saved it); per request `pc` (its place in `dispatch`) and `answer` (what
its client received: its own 202, a replayed 202, the 409, or an error). Two
ghosts: `created`, the requests whose handler committed a transaction row,
and `first`, the first response saved.

Each Redis command is atomic and is one step; requests interleave at the
awaits between them. `AcquireLock` is `SET NX EX 60`, `CheckExisting` the
separate `GET` of the losing branch with its replay or 409, `Handle` the
call to the endpoint (a row and a 202, an error without a row, or a 500
after the row's commit when the job cannot be sent), `SaveResponse` the plain
`SET` of the COMPLETED record, `ReleaseLock` the unconditional `DELETE` of
the error and exception paths, and `LockExpires` the 60 s TTL running out
while the handler still runs. `LockCanExpire` and `ErrorAfterCommit` switch
the two faults on. Fairness: every request's awaits return; nothing forces
expiry.

`ImplementsIdempotentCall` is `IdemCall!Spec` for `IdemCall == INSTANCE
IdempotentCall WITH executed <- created, stored <- first, reply <- answer`.
`Handle`'s commit is `Execute`, `SaveResponse` is `Store`, a replay by
`CheckExisting` is `Replay`, and its 409 and `ReleaseLock`'s error are
`Reject`. `AcquireLock`, `Handle`'s error branch and `LockExpires` are
stutters. TLC finds this property violated under either fault
(`MCIdemExpiryDuplicate.cfg` or `MCIdemErrorDuplicate.cfg` with it as the
property).

### WebhookDelivery

State: per delivery `dstatus` and `attempts` (the `webhook_deliveries`
row); `queue`, a bag of jobs `[d, tid, retries]` on the webhook queue; per
worker `pc` and the unacknowledged `job` it holds; `dlq`, a bag of DLQ
messages; `records`, the `failed_tasks` rows; `replayedAt`, the task ids
whose row is marked replayed. Three ghosts: `exhausted` (task ids that
failed for good), `replays` (how often each row was re-enqueued) and
`crashes`.

| Action | Code |
|---|---|
| `CreateDelivery` | `_trigger_webhook_if_configured`: insert PENDING, commit, `.delay()` (which may fail) |
| `Receive` | task start: `attempt_count + 1`, SENDING, commit |
| `Post` | the POST and its classification: SUCCESS, FAILED, or the except branch (FAILED on the last attempt, else PENDING) and raise |
| `Raise` | autoretry: a retry copy before the ack, or at `max_retries` `on_failure`'s DLQ send |
| `Ack` | the late ack |
| `Crash` | a lost worker: `reject_on_worker_lost` requeues the job |
| `StoreFailedTask` | `handle_failed_task` with its duplicate check |
| `ReplaySend`, `ReplayCommit` | `replay_failed_task`: check `replayed_at` and send; then commit `replayed_at`, or the commit raises and is rolled back, or the worker dies and the late-acked task comes back (`replayed_at` stays unset, the job stays sent) |

`OnFailureSends` is `on_failure`'s `retries >= self.max_retries`. The
webhook task gives `max_retries = 5` to autoretry through `retry_kwargs`
only; the attribute keeps Celery's default 3 (`TaskMaxRetries`), so a job
exhausted at retry 5 always passes it.

Fairness: live workers keep consuming, and a started replay finishes, one
way or the other.
Creation, crashes and replays are not forced.

### DistributedLock

`DistributedLock`/`SyncDistributedLock` on one key, used as
`complete_deposit` uses it. State: `holder`, the owner token under the key;
`hasTTL`; per instance `pc`, `acquired` (`self.acquired`) and the ghost
`lapsed` (its lease ran out while it was in its critical section).
`Acquire` is one `SET NX EX`, refused instances give up unless blocking;
`AcquireReplyLost` is the except branch of `SyncDistributedLock.acquire`
when the `SET` was applied but its reply lost: the instance believes it
failed, its caller raises `ConcurrentUpdateError`, and the key stays with
its token until the TTL. `Retry`/`GiveUp` are the polling loop and its
timeout; `Release` is `release()` with `CompareAndDelete`, the Lua
compare-and-delete, clearing `acquired` either way; `Crash` a holder dying;
`Expire` the TTL running out at any moment. Fairness: Redis expires keys, holders release, pollers poll and
time out. `extend()` has no caller and is not modelled. No caller passes the
cache client that turns the lock on, so the lock is dead code today; the
model checks that it would be correct if enabled.

### RateLimiter

`RateLimitMiddleware.dispatch` and `RateLimiter.is_allowed` for the requests
one rule matches. State: the server's clock `now`; per key the sorted set
`zset[k]` and its expiry `deadline[k]`; and the ghosts `stamps` (timestamps
read so far) and `admitted` (admitted requests with their server time, user
and key). The member is `str(now)`, the score itself, so the set of scores
is the sorted set. `Request(i, o)` is one request of origin `o`
(a user and a client address) through API process `i`. It computes the key
with `BuildKey` (`_build_rate_limit_key`), then runs the whole pipeline in one
step, since it is a `MULTI/EXEC` transaction: `Purge`
(`ZREMRANGEBYSCORE 0 now-window`), the count, `Add` (`ZADD`) and `Expiry`
(`EXPIRE`, counted from the server's clock). A rejected request's timestamp
is added too. `Tick` advances the clock; `KeyExpires(k)` is Redis dropping a
key whose TTL ran out.

Each process stamps with its own clock, `now + Offset[i]`. `DistinctStamps`
says whether two requests may read the same time. `UserIdOnState` says
whether `request.state.user_id` is set; no middleware of the application
sets it, so the runs use `FALSE` and every key is the client address's.
Unmatched requests and the disabled switch go straight to `call_next` and
touch no state. The rule table and its path matching are not modelled: the
two rules have disjoint patterns and separate keys.

## Runs

| Run | cfg | Result | Shows |
|---|---|---|---|
| lifecycle | `MCLifecycle.cfg` | pass | fault-free: no overdraft, ledger = balance, statuses only move forward, every transaction ends terminal |
| lifecycle_faults | `MCLifecycleFaults.cfg` | pass | with a crash, a callback, a failing webhook send and lost create-time enqueues, still no overdraft, and every transaction a worker has started ends terminal |
| crash_double_credit | `MCCrashLedger.cfg` | violation | a crash after the completion commit: the redelivered job moves the SUCCESS row back to PROCESSING while its amount stays in the balance, so the balance no longer equals the ledger (trace: complete, crash, receive) |
| idempotency | `MCIdempotency.cfg` | pass | three concurrent requests with one key, no faults: one row, every 202 is the first response, the COMPLETED record stays, the middleware implements `IdempotentCall` |
| idempotency_faults | `MCIdempotencyFaults.cfg` | pass | type correctness, and with lock expiry and errors after commit the key is still never left PROCESSING |
| idem_expiry_duplicate | `MCIdemExpiryDuplicate.cfg` | violation | a handler outliving the 60 s lock: a second row for the key |
| webhook | `MCWebhook.cfg` | pass | every created delivery ends SUCCESS or FAILED, through retries, a crash's redelivery and a replay |
| webhook_faults | `MCWebhookFaults.cfg` | pass | the same instance with failing `.delay()` and DLQ sends: type correctness |
| webhook_failed_resent | `MCWebhookFailedRetried.cfg` | violation | FAILED at retries 4, then Celery's retry 5 sends it again |
| breaker | `MCCircuitBreaker.cfg` | pass | a CLOSED breaker has seen fewer than 5 failures; after the bank recovers the breaker closes, despite late answers; the breaker implements `BreakerStates` |
| dlock | `MCDistributedLock.cfg` | pass | three instances (one blocking) with expiry, crashes and lost acquire replies: never two in unexpired leases |
| ratelimit | `MCRateLimiter.cfg` | pass | two processes, two users behind one address: no key is admitted more than the limit in any window |

Further disagreements. Each cfg below reproduces one more place where the
code departs from the spec; TLC reports the named property violated.

| cfg | Property | Shows |
|---|---|---|
| `MCNotifyLedger.cfg` | `LedgerConsistent` | a failed webhook send after the completion commit makes Celery retry the job, whose receive moves the SUCCESS row back to PROCESSING with its amount kept in the balance |
| `MCCallbackLedger.cfg` | `LedgerConsistent` | a bank callback completes a queued transaction, and the worker's receive then moves it back to PROCESSING with its amount kept in the balance |
| `MCCrashDiagram.cfg` | `StatusFollowsDiagram` | SUCCESS → PROCESSING after redelivery |
| `MCEnqueueLive.cfg` | `EventuallyTerminal` | a lost job leaves the row PENDING for ever |
| `MCReviewDeposit.cfg` | `ReviewOnlyWithdrawals` | deposits become PENDING_REVIEW |
| `MCIdemErrorDuplicate.cfg` | `AtMostOneExecution` | a 500 after the row's commit releases the key; the retry creates a second row |
| `MCIdemReleaseCompleted.cfg` | `CompletedPersists` | an expired request's `release_lock` deletes a later request's saved response |
| `MCIdemReplay.cfg` | `ReplayMatchesFirst` | the second `save_response` overwrites the first; later replays differ from what the first client got |
| `MCWebhookOrphan.cfg` | `DeliverySettles` | `.delay()` fails after the row's commit: PENDING for ever |
| `MCWebhookDlqLost.cfg` | `DeadLettered` | the DLQ send fails and is only logged: no `failed_tasks` row |
| `MCBreakerDirections.cfg` | `RejectsOnlyOwnKind` | deposit failures open the one breaker and withdrawals are rejected (spec: one breaker per direction) |
| `MCWebhookDoubleReplay.cfg` | `ReplayedOnce` | one replayer is enough: the job is sent (`dlq_tasks.py:111`) before `replayed_at` is committed (`:122`); a failed commit, rolled back at `:136`, or a crash that redelivers the late-acked task, leaves `replayed_at` unset, and the next replay sends the job again (two concurrent replays pass the unlocked check the same way) |
| `MCRateCollision.cfg` | `WindowLimit` | two requests with one timestamp are one sorted-set member (`rate_limiter.py:26`); later requests count one and a third is admitted with limit 2 |
| `MCRateSkew.cfg` | `WindowLimit` | a process whose clock leads by one tick purges another's entry still inside the window (`rate_limiter.py:20`) |
| `MCRateRoamingUser.cfg` | `PerUserLimit` | one user from two addresses gets twice the per-user limit, since the key is the address's (`rate_limit.py:79`, spec section 6: limits per user) |

Bounds. Two workers are enough for two transactions to be in flight at once.
Two withdrawals of 2 on a balance of 2 make both creations succeed and exactly
one completion fail the recheck. `MaxRetries = 3` is the code's value.
The faults run lowers it to 1 to fit in time; the retry path is the same.
One crash and one callback are enough to take a completed row back to PROCESSING.
The breaker runs use the code's thresholds (5 and 2). Two threads are enough
for a late answer to arrive after the breaker has changed state. One thread
(the prefork pool) is enough to show the shared breaker. The idempotency
runs use three requests with one key: two race for the lock and a third
arrives after the first has finished, expired or released; the
violations need only two (three for the overwritten replay).

The webhook runs use the code's `max_retries = 5`, one delivery (deliveries
do not interact), two workers, one crash and two task ids: one replay,
which is enough for its failed commit. The double replay needs one
replayer and three task ids.

The lock run has three instances: a lagging holder, a successor, and a third
that gets in if the lagging holder's release deletes the successor's key.

The rate limiter run has limit 2 and a window of 4 ticks, so three requests
in a window meet a rejection, and the clock runs to 6, past one window, so
purges and key expiry happen. Five requests from two processes and two users
on one address are enough for the two users to share a key. Each violation
needs only one change to this instance.

The deadlock check is off for the idempotency, webhook, lock and rate
limiter runs: those systems stop once every request has its answer, once
every delivery and DLQ message has been handled, or once the clients stop
sending.

The spec's fallback for the expiry race (section 4.2) is a unique index on
`transactions.idempotency_key`. The endpoints never pass the key to
`create_pending_deposit`/`create_pending_withdrawal` (`deposits.py:40`,
`withdrawals.py:42`), so that index never rejects anything, and the model's
handler accordingly creates a row unconditionally.

## Proofs

All proofs are checked by `tlapm`. They hold for every value of the constants
allowed by the modules' `ASSUME`s.

* `TransactionLifecycleProofs.TypeCorrect`: `Spec => []TypeOK`. `TypeOK` is
  inductive by itself (lemma `TypeOKStep`). It carries the fact that a worker
  holds a message exactly when it is not idle, and this is what makes a
  crash's requeue and a retry's copy well formed.
* `TransactionLifecycleProofs.NoOverdraft`: `Spec => []BalanceNonNegative`.
  The inductive invariant is `TypeOK /\ BalanceNonNegative`. Only
  `CompleteTransaction` and `BankCallback` change a balance, and both go
  through `CanApply`, the recheck of `subtract_balance` (lemma
  `ApplyKeepsNonNegative`). This is why the missing reservation at creation
  is harmless for this invariant, with any number of withdrawals, workers,
  crashes and callbacks.
* `CircuitBreakerProofs.TypeCorrect` and `ClosedCountBelowThreshold`. The
  invariant `TypeOK /\ ClosedBelowThreshold` is inductive: `record_failure`
  opens on the threshold-th failure, and every way back to CLOSED resets the
  count. The proof splits on the breaker's state for each record method.
* `CircuitBreakerProofs.Refinement`: `Spec => ImplementsBreakerStates` for
  any thresholds and threads. `TypeOK` is all the step proof needs
  (`StepRefines`), because `can_execute` reads exactly the abstract timeout
  `stamped /\ expired`. `SuccessMoves` and `FailureMoves` show that each
  record method moves the state along one of the spec's arrows. A late
  failure in OPEN keeps the breaker OPEN and restarts the timeout. A late
  success in OPEN leaves it alone. The mutant that drops the timeout check
  from `can_execute` breaks the property.
* `TransactionLifecycleProofs.DiagramWithoutFaults`: under `FaultFree`
  (`MaxCrashes = 0`, `MaxCallbacks = 0`, `~NotifyCanFail`),
  `Spec => StatusFollowsDiagram`. The lifecycle run uses exactly this
  setting. Each of the three faults breaks the property on its own, because
  the worker's `update_status(PROCESSING)`, `mark_pending_review` and the
  callback's `complete_*`/`fail_*` never check the current status. The
  inductive invariant `DInv` adds two facts to `TypeOK`:
  * `OneMessage`: a row has at most one unit of pending work. That unit is
    the API's unsent job, one copy of one message in the queue, or one busy
    worker.
  * `WorkMatchesStatus`: where that unit is fixes the row's status.

  There is one lemma per action. Each shows `DInv'` together with the step
  relation. A retry hands the unit back to the queue while the row is
  PROCESSING. Because the unit is unique, no second worker can move a
  terminal row back. `EnqueueCanFail` is left free: a lost job only loses
  the unit.
* `TransactionLifecycleProofs.LedgerRefinement`: under `FaultFree`,
  `Spec => ImplementsLedger`. The proof uses the same invariant `DInv`.
  Lemma `StepRefinesLedger` maps each step to a `TransactionLedger` step or
  a stutter. `HeldProcessing` gives a terminal commit its PROCESSING row.
  `WorkMatchesStatus` shows that a received message's row is PENDING or
  PROCESSING. `CoveredIsCanApply` equates the guards. The theorem says more
  than the diagram: a balance moves only in the completion commit, by that
  transaction's amount. This is the step form of `LedgerConsistent`, whose
  sum the prover cannot reach.

* `DistributedLockProofs.TypeCorrect` and `LeaseExclusion`:
  `Spec => []MutualExclusion` for any set of instances. The inductive
  invariant is `TypeOK /\ LeaseHeld /\ FreshBeforeTake`. `LeaseHeld` says
  that an instance inside an unexpired lease is the key's holder, so two of
  them would be the same. It is preserved because `Expire` marks the holder's
  lease as lapsed and `Release` deletes only its own token. `FreshBeforeTake`
  (an instance that has not taken the key holds no lease) is needed because
  `Acquire`, when refused, and `GiveUp` end an instance without touching
  `acquired`. `AcquireReplyLost` keeps it too: the key was free, so no
  instance was inside a lease.

* `IdempotencyProofs.TypeCorrect`: `Spec => []TypeOK` with or without
  faults; `TypeOK` is inductive (lemma `TypeStep`).
* `IdempotencyProofs.SingleExecution`: for any number of requests with one
  key, under `~LockCanExpire /\ ~ErrorAfterCommit`,
  `Spec => []AtMostOneExecution`. The inductive invariant adds to `TypeOK`
  and `OneRow` (the property without `Cardinality`) the facts that one
  request at a time is past `acquire_lock` (`OneOwner`), that the key holds
  the lock while it is (`OwnerHoldsLock`), that an absent key means no row
  (`AbsentNoRows`), and that a row's creator is about to save or has saved
  the COMPLETED record (`RowsAccounted`). Together they show `Handle` only
  ever adds a row to an empty set. The two hypotheses are exactly the
  faults whose runs break the property: the lock's TTL and the release
  after a committed row are what the code depends on.
* `IdempotencyProofs.ReplayLaw` (`[]ReplayMatchesFirst`) and `CompletedKept`
  (`CompletedPersists`). Both hold under `~LockCanExpire` alone: TLC finds
  no counterexample with `ErrorAfterCommit`, so the theorems do not assume
  it. The inductive invariant `RInv` is `TypeOK`, `OneOwner`,
  `OwnerHoldsLock`, `SavedStaysCompleted` (after a save the key is
  COMPLETED), `CompletedIsFirst` and the property itself. The argument:
  `save_response` and `release_lock` run only in the request that owns the
  lock, so the entry is PROCESSING and nothing has been saved yet. Once an
  entry is COMPLETED, nobody can own the lock again, because `acquire_lock`
  needs an absent key.
* `IdempotencyProofs.Refinement`: under `~LockCanExpire /\ ~ErrorAfterCommit`,
  `Spec => ImplementsIdempotentCall`. The initial states map to
  `IdempotentCall`'s. Lemma `StepRefines` shows that every step, under the
  invariant `FInv`, is an `IdempotentCall` step or a stutter. `FInv` is
  `IInv /\ RInv /\ SaverCreated`, where `SaverCreated` says that a request
  at `save_response` created a row. Each abstract guard comes from one of
  these facts:
  * `Execute`'s "no execution yet" comes from the owner holding the lock
    (`OneOwner`, `OwnerHoldsLock`, `RowsAccounted`).
  * `Store`'s "nothing stored" comes from `SavedStaysCompleted`.
  * `Replay`'s stored response is `CompletedIsFirst`.
  * `Reject`'s "did not execute" comes from `RowsAccounted` (lemma
    `NotCreated`).

* `WebhookProofs.TypeCorrect`: `Spec => []TypeOK` for every value of the
  constants. It needs `WebhookAssumption`'s `Deliveries \subseteq 1..MaxTasks`:
  a delivery's first job uses the delivery number as its task id. That
  assumption also makes `Deliveries` finite, so the initial `nextTid` is a
  number.

* `RateLimiterProofs.TypeCorrect` and `WindowBound`.
  `WindowBound` proves `Spec => []WindowLimit` for any limit, window,
  numbers of processes, users and addresses, and any bounds. It assumes
  `SyncedClocks` (every process reads the server's clock) and
  `DistinctStamps`. `MCRateSkew.cfg` and `MCRateCollision.cfg` show that
  each hypothesis is needed. `WindowLimit` is not inductive. The
  strengthening `IInv` adds these facts:
  * an admitted request's time was read and is not in the future;
  * admitted times are pairwise distinct;
  * a request still in the window is a member of its key's sorted set
    (`Recorded`);
  * the key's TTL runs at least a window past each of its admitted requests
    (`ExpiresAfterWindow`, which is why `KeyExpires` only drops requests
    that have left the window);
  * the sets are finite.

  In a `Request` that admits, `a |-> a.at` injects the admitted requests of
  the window into the purged set, whose size ZCARD reads and finds below
  the limit (lemma `CountBound`, from `FS_Injection` and `FS_AddElement`).
  A `Tick` only shrinks the newest window (lemma `SubsetBound`).
  The per-user limit of spec section 6 is not a theorem: the key is the
  client address's, and `MCRateRoamingUser.cfg` shows a user with two
  addresses getting twice the limit.


Only model-checked:
* `LedgerConsistent`: the ledger is `MapThenSumSet` over the SUCCESS rows,
  a fold over a CHOOSE order. Adding one row adds its signed amount, but
  showing that needs induction over finite sets. The induction theorems take
  an operator parameter, which none of the installed provers can
  instantiate.
  What is proved instead is its step form, `LedgerRefinement`: a balance
  moves only when one transaction becomes SUCCESS, by that transaction's
  signed amount.
* All liveness properties: `EventuallyTerminal`, `ProcessingResolves`,
  `EventuallyCloses`, `KeyEventuallyFree` and `DeliverySettles`. TLAPS does not handle liveness under fairness.
* `FailedIsFinal` is a violation run: the code breaks it.
* The theorems' fault-free hypotheses are the settings of the passing runs.
  With the faults on, the faults runs check what still holds.

## Plan

1. `TransactionLifecycle` (done): the core above. Next: a failing
   `_mark_for_review`, and the bank's own side of a timed-out call.
2. `CircuitBreaker` (done). Next: compose it with the processor, so that the
   retry of `CIRCUIT_BREAKER_OPEN` is checked against spec section 4.5, which
   makes that answer permanent.
3. `IdempotencyMiddleware` (done): lock TTL expiry, errors after commit, the
   unconditional release and overwrite.
4. `WebhookDelivery` (done), with the webhook DLQ. Next: a DLQ ghost in the
   lifecycle, for the transaction jobs that never reach `on_failure`.
5. `TransactionLedger` (done, proved): the abstract transaction spec and
   its refinement by the fault-free lifecycle. Next: a ledger that allows
   callbacks only on non-terminal rows, to state what a status-checking
   callback would keep.
6. `DistributedLock` (done, proved). Dead code today.
7. Proofs (done for every safety property of a passing run except the
   ledger sum: no overdraft, the fault-free status diagram, the breaker's
   counter, the lock's exclusion, single execution, the replay law and
   kept COMPLETED entries, and the rate limiter's window bound), and the middleware's refinement
   of the abstract `IdempotentCall`, the lifecycle's of `TransactionLedger`
   and the breaker's of `BreakerStates`. Next: an abstract delivery spec
   for the webhook task.
8. `RateLimiter` (done for one rule). Next: the remaining-count header as a
   promise about the next requests.

## Not modelled

Authentication, user and balance reads, admin views, metrics and logging hold
no state machine worth checking. The bank simulator's randomness becomes a
nondeterministic choice in `CallBank`.

In the rate limiter, `reset()` has no caller, and the `X-RateLimit-*`
header values are derived from the count without changing any state. The
rule table's path and method matching picks which key a request uses; the
model takes the requests of one rule.
