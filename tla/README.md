# Verification of the AI wardrobe

TLA+ models of `src/backend/app` and of what the mini program remembers, with
TLC runs on small instances and theorems checked by TLAPS. Line numbers below are those of `src/`.

## 1. The system

A WeChat mini program uploads a clothing photo, asks for a diagnosis of the
outfit, then for an optimized picture and a share card. Each of the three is a
*generation job*: a row created by an HTTP request, executed later by a Celery
worker that calls an AI provider, and paid for out of a daily and a monthly
quota. PostgreSQL holds all state; Redis is the Celery broker and the rate
limiter's store; COS keeps the images.

### Components

Paths are under `backend/app/` unless they say otherwise.

| Component | State | Operations | Modelled in |
|---|---|---|---|
| Job state machine (`modules/jobs/state_machine.py`) | `generation_jobs.status`, `retry_count`, `execution_token`, `execution_lease_expires_at` | `transition_job` | `JobStateMachine` |
| Diagnosis execution (`modules/diagnosis/executor.py`) | `style_diagnoses.status`, the job row, its reservation | `_prepare`, provider call, `_complete`, `_finalize_input_failure`, `finalize_failure`, `_mark_retryable` | `JobExecution`, `DiagnosisExecution` |
| Celery worker (`worker/tasks.py`, `worker/celery_app.py`) | messages and their retry counts | deliver, ack, `task.retry`, exhaustion, redelivery after worker loss | `JobExecution`; `Outbox` (`dispatch_outbox`) |
| Quota (`modules/governance/quota.py`) | `usage_counters`, `quota_reservations` | `reserve`, `commit`, `release` | `Quota`, `QuotaLedger` |
| Transactional outbox (`modules/events`) | `outbox_events` | `claim_batch`, `_publish_one`, `mark_published`, `mark_failed` | `Outbox` |
| Job creation (`modules/jobs/service.py`, the services of diagnosis, optimization and growth) | job, record, outbox and reservation rows in one transaction | `create` with an idempotency key | `Creation` |
| Optimization execution (`modules/optimization/executor.py`) | `optimization_results`, an asset row, a COS object | as diagnosis, with a critic loop and an object written between two transactions | `JobExecution`, `MediaExecution` |
| Share cards (`modules/growth/executor.py`) | `share_records`, an asset row, a COS object | as optimization, without quota | `JobExecution`, `MediaExecution` |
| Shares, votes and events (`modules/growth/service.py`, `repository.py`) | `vote_records`, `user_events` | `get_share`, `vote`, `record_continue` | `Votes`; `create_share` in `Creation` |
| Assets (`modules/assets`) | `user_assets.status`, COS objects | ticket, presigned PUT, `complete_upload` | `Deletion` |
| Photo and account deletion (`modules/governance/deletion_*.py`) | `deletion_jobs`, `users.status`, everything the user owns | request, execute, look again, purge | `Deletion`, `Erasure`; what it does to running jobs in `DiagnosisExecution` and `MediaExecution`, to the votes on a share and of a friend in `Votes` |
| AI gateway (`modules/ai`, `modules/jobs/invocations.py`) | policy snapshots, invocation rows | routes, fallback, canary, observer | `AIGateway` |
| Rate limiter (`core/rate_limit.py`) | token buckets in Redis | `acquire`, the guard's three layers | `RateLimit` |
| Identity and consent (`modules/identity`) | users | login, `current_user` | in part: `Creation`, `Deletion` |
| Feedback (`modules/feedback`) | `beta_feedback` | idempotent insert | `Creation`, `Deletion` |
| Mini program (`miniapp/src/stores`) | pending request, task list, last job, the phone's storage | create, accept, refresh, poll, hydrate | `MiniProgram` |
| Configuration, HTTP, logging, telemetry, readiness | settings that change with a deployment | | `AIGateway` (deployments); else not modelled |
| Offline evaluation, scripts, migrations, infrastructure | | | not modelled |

### How they interact

* A request handler writes the job, its subject row (diagnosis, ...), the quota
  reservation and an outbox event in **one transaction**.
* `dispatch_outbox`, started by Celery beat, claims due events with
  `SKIP LOCKED`, sends each as a Celery task and records the outcome, **in three
  separate steps**.
* A worker runs the task: it claims the job row in one transaction, calls the
  provider with no transaction open, and writes the outcome in another.
  Messages are acknowledged late (`acks_late`), and a message whose worker died
  is delivered again (`task_reject_on_worker_lost`).
* A deletion removes objects from COS one by one, looks again under a lock and
  then removes rows: under running jobs, uploads and the visits of friends.
* The session of a request commits when its response is on its way
  (`api/dependencies.py`): the client may hold an answer that is not kept.
* The mini program sends every creation with a key that it keeps, also in the
  phone's storage, until an answer comes.

### What is hard

* **Interleaving.** Between claim and outcome anything may happen: the lease
  lapses, another worker takes the job over, the photo is deleted. Fencing by
  execution token is spread over five guards that differ in detail.
* **Ordering and duplicates.** The outbox sends at least once, the broker
  delivers at least once, and Celery retries are new messages that overlap the
  old ones.
* **Partial failure.** Each transaction may fail before or after its commit
  reached the database, and its caller cannot tell.
* **Crashes.** Nothing scans for jobs that are left behind, so every recovery
  must come from a message that is still with the broker.
* **Locks.** Counters of several periods are locked by requests and settlements
  of different days; rows of several tables are locked by executors and
  deletions in different orders.
* **Stale reads.** Requests read (the user, an asset, the latest deletion, a
  vote) without a lock and write later.
* **Boundaries.** Limits of days and months, settlement after midnight, a token
  bucket that refills across windows.

The `hazards` list of `PROJECT.json` names each at its line.

### What makes each component correct

* *Job execution*: a job is settled at most once; job, diagnosis and quota
  agree; the shown result is the latest claim's; every job is settled in the end.
* *Quota*: no period exceeds its limit, no counter update is lost, a settlement
  finds its counters, no deadlock.
* *Outbox*: every committed event is sent; what is called published was sent;
  duplicates have a cause.
* *Media execution*: the image shown is in COS and is the latest claim's; an
  object that no row names has a lapse, a fault or a deletion for a cause.
* *Deletion*: nothing is erased that nobody asked to delete; rows go only after
  the objects they name; nothing that may be shown comes back after an account
  purge; the status the client polls is the status the workers act on; every
  deletion ends, but for one at most per fault that nobody answers.
* *Creation*: one key, one row, one reservation, the same answer to everyone; no
  retry finds half of what was created; every request ends.
* *Votes*: the vote that counts is one the events know; votes and events go with
  the share.
* *Rate limiter*: no more costly actions than bucket and refill allow, also when
  Redis fails.
* *AI gateway*: invocation rows tell what was asked.
* *Mini program*: no job that was created and charged is lost to the phone.

## 2. The modules

### JobStateMachine

The job row and `transition_job`. A row keeps status, `retry_count`, token and
lease; timestamps, progress and error texts decide nothing. Execution tokens
(`uuid4`) are numbered by the claim that drew them. Where the code raises
`InvalidJobTransitionError`, `Transition` yields the status `"ILLEGAL"`, which
the type invariant forbids: that the executors never raise it is thus checked.

### JobContract

The abstract specification: one paid job with `BeginAttempt`, `Succeed`, `Fail`
and `Refuse`, an attempt that fails at once. A success is charged and shows the
latest attempt's result; a failure returns the charge. Both execution modules
implement it.

### JobExecution

What the three executors repeat and the task around them. `Claimable`,
`Claimed`, `Executing`, `Completed`, `Finalizable`, `FailedFinal` and `Retryable`
are the guards on the job row and the changes to it, written once because the
executors have them line for line. `Take`, `Acknowledge`, `PublishRetry`,
`LoseRetry` and `LoseWorker` are the messages: `queue` counts the copies the
broker can deliver, `held` is the message a worker has not acknowledged.
The module has no `Next`; the steps between are each executor's.

### DiagnosisExecution

| Model | Code |
|---|---|
| `job`, `diagnosis`, `reservation` | the three rows of a job |
| `pc`, `tok` | where `run` is, and the token it returned or raised |
| `Publish`, `Deliver`, `Ack` | outbox send, delivery, late acknowledgement |
| `PrepareSkip/Claim/StorageUnavailable/Error/AckLost` | the outcomes of `_prepare` (executor.py 230-304) as `run` sees them |
| `CallProvider` | policy check and provider call, outside any transaction |
| `Complete`, `Reject`, `Finalize`, `MarkRetryable` and their `...AckLost`, `...Error` forms | `_complete`, `_finalize_input_failure`, `finalize_failure`, `_mark_retryable`, each one transaction |
| `Retry`, `RetryUnpublished`, `Exhaust`, `FinalizeError` | the handler of `RetryableDiagnosisError` in tasks.py |
| `WorkerLost`, `PurgePhoto`, `LapseLease` | the environment |

Each transaction locks the rows it reads before it reads them, so it is one
step. Time is abstract: a live lease may lapse at any moment, also during a
provider call, since nothing stops a call at the end of the lease. `claims`,
`author`, `lapses` and `published` are history; no guard of the program reads
them, except that bounds read `lapses` and `published` and a token is the claim
count.

### MediaExecution

`OptimizationExecutor` and `ShareAssetExecutor`; `kind` says whose a job is.

| Model | Code |
|---|---|
| `job`, `subject`, `reservation` | the job row, the optimization or share row (`ACTIVE` as `COMPLETED`), the reservation (a share has none) |
| `context` | what the executors' joins find: everything, a plan that does not validate, or nothing |
| `asset`, `objects` | the token in the object key the result's asset row names; the tokens whose keys have an object in COS |
| `ReadSource`, `SourceMissing`, `SourceUnavailable` | the second half of `_prepare`, after its commit |
| `Generate`, `Criticise`, `NextTurn`, `Reject` | the generation loop, its two critic calls per image, `REJECTED_BY_CRITIC` |
| `Render` | `render_share_card` |
| `CheckCurrent`, `Put`, `Complete` | `_is_current`, `put_object`, `_complete`: three steps, the middle one outside the database |
| `Giveup`, `PutFails`, `...Error`, `...AckLost` | the except clauses of `run` |
| `DeleteObject`, `Purge` | a photo deletion, which deletes the named object and then the rows |

A put object stays until a deletion removes it by the name in an asset row; the
code never lists COS. The branches for a share whose optimization is gone are
not modelled: `create_share` locks the optimization and, through its job row's
foreign key, the user; a deletion locks the user before it reads anything, so
it either sees the share and removes it too or keeps it from being created.

### Quota and QuotaLedger

`QuotaLedger` is the promise: a grant and a settlement are one step each, on
sets of jobs per period. `Quota` is the code over PostgreSQL at READ COMMITTED:
one statement per step, waits for uncommitted inserts and for row locks, values
read when the lock is taken and written back plus one. A key is a month and a
day (0 for the month's own row), ordered as the strings `2026-07` and
`2026-07-31` are. `Tomorrow` moves the calendar at any time, so jobs are settled
on any later day. The refinement maps the counters to the reservations
themselves.

### Outbox

Concurrent dispatchers, each with its claimed batch, the event in hand and the
outcome to be recorded. `delayed` is `next_retry_at` in the future, `stale` is
a claim older than `outbox_lock_timeout_seconds`. A failed send may or may not
have reached the broker. A crash drops the rest of a batch.

A job here is a deletion job (below) or one of the three kinds above.

### Deletion and Erasure

`Erasure` is the promise: rows and objects of assets, the targets somebody
asked to delete, `Wipe` of an object and `Erase` of a target's whole closure in
one step, for good and only when no object is left that a live row names. A PUT
after the wipe is the one thing that may bring an object back: the presigned
URL outlives the deletion and the code cannot revoke it.

`Deletion` is one user's requests, uploads and derived images next to the
`DeletionExecutor` in the task of `JobExecution`.

| Model | Code |
|---|---|
| `user`, `asset`, `object`, `feedback` | `users.status`, `user_assets.status`, the object in COS, a `beta_feedback` row |
| `requests` | what each open request has read: `Authenticate` (`current_user`), `ReadUpload`, `ReadObject`, `AskDeletion`; the writes (`CreateUploadTicket`, `CompleteUpload`, `InsertDeletion`, ...) come later and without a lock |
| `target`, `deletion`, `job` | `deletion_jobs` and its generation job; "GONE" when an account purge took the rows |
| `StartDerived`, `FinishDerived` | an executor that makes an image from a photo; its own steps are in `MediaExecution` |
| `PrepareSkip/Claim/Error` | the outcomes of `_prepare` |
| `DeleteObject`, `StorageFails` | the loop over keys in `run` |
| `Stale`, `FindMore`, `Complete`, `OutcomeError` | `_complete_if_stable`: plan again under the lock, go round or purge |
| `MarkRetryable`, `Retry`, `Exhaust` | `_mark_retryable`, the task's retry, `finalize_failure` |
| `MarkError`, `RetryUnpublished`, `FinalizeError` | each of the three fails, before or after its commit: the task ends without a message |

### Creation

Every endpoint that creates something at most once, `endpoint` saying which:
find the row by its unique key, insert it in a savepoint, look again when the
insert met a row committed in between, write the record, reserve, answer,
commit. One action per statement, at READ COMMITTED; locks are predicates on
how far a transaction has come (`HoldsSource`, `HoldsKey`, `HoldsCounter`).
Deletions of the source, of a result alone or of the account run in between.

### Votes

The requests of friends to one share, each an open transaction of several
statements (`GetScene`, `ReadVote`, `UpsertVote`, `RecordEvent`, `CommitVisit`), and
two kinds of deletion, statement by statement, each of which may fail and start again:

| Model | Code |
|---|---|
| `share`, `vote`, `events` | the committed `share_records`, `vote_records`, `user_events` |
| `Plan`, `DeleteEvents`, `Erase` | the owner's deletion of the photo (`asset_deletion_plan` locks the share, `purge_asset_plan`) or of the account (`purge_account`, which does not lock it) |
| `LockUser`, `PurgeEvents`, `PurgeVotes`, `CommitPurge` | a friend's deletion of his own account: `context` locks his users row, `purge_account` deletes his events and his votes while the share stays |

What waits for what follows from the rows: a new vote and a new event hold the users
row by their foreign key, a new vote the share, too (`HoldsShare`, `HoldsUser`); a
changed vote or an event that is there already need neither; a write to a row that is
being deleted waits (`EventDoomed`, `VoteDoomed`). After `purge_account` the users row
is still there, so a request that was authenticated before goes on. A dedupe key is
the content of the event.

### RateLimit

The Lua script (atomic in Redis) in integers, tokens counted in fractions
`1/Window` so that a refill is exact, and the guard's layers address, user,
costly action. Redis may fail before or after the script ran; only the costly
layer then refuses (`FailsClosed`). Floating-point rounding is left out.

### AIGateway

A call of a model: the job's policy (`JobPolicy`: the snapshot, or the deployed
one for older jobs), the loop over routes, the errors providers raise, and the
observer's rows, each a transaction of its own that finds nothing once the job
is purged. Executions of a job overlap or follow each other; `Deploy` changes
the settings at any time. The structured and the image call have the same loop
but for the number of routes.

### MiniProgram

The stores `diagnoses`, `optimizations` and `shares`, which create alike, the
task list and the phone's storage. `Create`, `Send` and `CreateSucceeds`/`CreateFails`
are the parts of `create` between its awaits; `submitting` is set only after the
login, so two taps overlap when the token has expired. `Restart` kills the
program between two steps, `RestartInAnswer` between the writes of `accept`. The
server is `Arrive`, `CommitJob`, `RollbackJob`, `DeleteJob`: what `Creation` and
`Deletion` guarantee, one job per key. `forsaken` is history: keys the program
gave up, because another request took the place of the pending one or a poll
came before the commit.

### MCServices

`Creation`, `Votes`, `RateLimit`, `AIGateway` and `MiniProgram` share no
variable, so their product would only multiply states. `MCServices` picks one
part per behaviour (`part`) and leaves the others in a state where all their
work has ended; every property is checked in every part.

## 3. The runs

| Run | Instance | Shows |
|---|---|---|
| `diagnosis_safety` | 1 job, 2 workers, 2 sends, 2 retries, 2 lapses, any 2 of 9 faults | settlement of job, diagnosis and quota together; fencing; honest `retry_count`; bounded provider calls; settled rows never change; refinement of `JobContract` |
| `diagnosis_progress` | 1 job, 2 workers, 2 sends, 2 retries, 1 lapse, 2 absorbed faults | no job is left behind and each is settled |
| `diagnosis_lost` | 2 workers, 1 worker process dies | **violation** of `NoJobLost` (finding 1) |
| `media` | 1 optimization or share, 2 workers, 2 sends, 1 retry, 2 generations, 1 lapse, any 2 of 9 faults | settlement together; the shown image exists and is the latest claim's; unnamed objects have a cause; refinement of `JobContract` |
| `media_deleted` | 2 workers, 1 deletion | **violation** of `DeletedLeavesNoImage` (finding 3) |
| `quota` | 3 jobs, 3 days of a month, 1 a day and 2 a month, 1 rollback | limits, exact counters, no deadlock, settlements succeed, refinement of `QuotaLedger`, every transaction ends |
| `outbox` | 2 dispatchers, 2 events, 2 failed sends, 1 crash | nothing lost, no unexplained duplicate, every event published |
| `outbox_final` | 2 dispatchers, 1 event, 1 failed send | **violation** of `PublishedIsFinal` (finding 2) |
| `deletion` | a photo and an image made from it, 2 open requests, 2 deletions of photo, image or account, 2 workers, 1 retry, 2 looks, a lapse or a fault | statuses agree, nothing comes back, refinement of `Erasure`, every deletion ends but for one per fault |
| `deletion_feedback` | as above, 1 worker, no faults | **violation** of `FeedbackCleaned` (finding 4) |
| `services` | 3 requests on 2 keys and 2 sources; 3 visits of a friend, 1 deletion of the share, 1 of his account; 3 buckets over 2 windows; 2 executions, 2 deployments; 2 taps, 2 keys, 1 restart | one row and one reservation per key, no half-created rows, requests end; votes have events and go with the share; costly actions are limited; rows tell the calls; no job unknown to the phone |
| `events_left` | 3 visits of a friend, 1 deletion | **violation** of `EventsGoWithShare` (finding 5) |

### Why the bounds are enough

* *One job.* Executions of different jobs share no row but the quota counters,
  which have their own module.
* *Two workers* give every pair of overlapping executions. A third execution
  arrives when a worker that has finished takes another message: with two sends
  and two retries each, up to six executions follow each other.
* *Two retries* separate the first attempt, one that may retry and one that is
  exhausted. The code has the same number (`max_retries` of the task).
* *Media*: two generations separate a turn that may be followed by another and
  the last one (the default of `optimization_max_generation_attempts` is 2, too).
  One retry and one lapse keep the run short; longer chains of takeovers are in
  `diagnosis_safety`, whose rules for the job row are the same definitions.
* *Two lapses and two faults* allow a takeover of a takeover, and a fault
  during the recovery from another.
* *Three quota jobs* are one more than the monthly limit of 2 and two more than
  the daily limit of 1, so both limits refuse; a rollback hits a transaction that
  others wait for. The run stays within a month; the end of a month, where
  transactions of two days share neither row or both, is covered by the theorems
  of `QuotaProofs` for every calendar, except `TransactionsEnd`.
* *Deletion*: two assets are a photo and what is made from it, so that a
  deletion of one, of the other, of both by the photo and of the account
  differ. Two requests race each other and the workers. `MaxLoad` = 4 counts
  each deletion twice, each fault and each lapse once: two deletions without a
  disturbance, or one with a fault (of eight kinds) and a lapse. Two looks separate the one that may be
  followed by another and the last (the code has five).
* *Creation*: three requests are a winner, one that waits for it and one that
  comes later; two keys and sources let them differ in either. `FirstWants` fixes
  the first request's key and source, which is no loss since keys and sources
  are interchangeable. The endpoint `diagnosis` is left out of the run: an
  optimization takes the same steps, and its result can also be deleted alone.
  The limit of 1 makes one of two creations run out of quota.
* *Votes*: of three visits two may vote and one may change the vote, or open, or
  continue. Friends do not share rows, so there is one; his account is deleted once,
  and so is the share, each after any number of failed attempts.
  `SortedVisits` keeps one of the visits' orders, since the visits are interchangeable.
* *RateLimit*: `MaxTime` is two windows, after which a key has expired.
* *AIGateway*: two routes are all the policies have; two deployments differ in
  every model; two buckets are in and out of the canary.
* *MiniProgram*: two taps overlap or follow each other, two keys are a request
  and the one that takes its place.
* `BatchSize = 1` makes two dispatchers work on two events at once; the code's
  batch changes only how much a crash drops.
* Mutants, one for each property (`mutants` of `PROJECT.json`, the `Bug_...`
  definitions beside the definitions they break), show that each property fails
  within these bounds when the code is changed in a plausible way.

Deadlock checking is off everywhere: with all sends, faults and days used up
the model stops. Where progress matters it is a liveness property, and
`NoDeadlock` states the absence of lock cycles directly.

### Fairness

* `DiagnosisExecution`: the first send of an event (the outbox retries it until
  it is recorded), delivery to some worker while one is idle, and the steps of
  a worker that holds a message. `LapseLease` and all faults are unfair: nothing
  depends on them happening. A worker step may be the error branch of a call,
  so progress does not assume that a provider ever answers.
* `Quota`: strong fairness of the open transactions, since PostgreSQL queues
  those that wait for a row. No request need ever begin.
* `Deletion`: as `DiagnosisExecution`. Nothing is assumed of requests, uploads or
  COS. Exempt from `EveryDeletionEnds` is at most one deletion per fault, and only one
  that is abandoned: its claim can be settled by no task any more (its worker died,
  never learnt that its claim was committed, or could not mark it), or it is open
  and has no event, message or worker left (`_mark_retryable`, `task.retry` or
  `finalize_failure` failed, after which the code has no retry). Nothing in the
  repository looks for either; they are what finding 1 shows, for deletions.
* `Creation`: weak fairness of each request's next step; a transaction that waits
  for a lock is not enabled. No deadlock is assumed away: two transactions that
  waited for each other would violate `RequestsEnd`.
* `Outbox`: some dispatcher claims when something is due (beat), a running one
  goes on, lock timeouts and retry delays pass. Failures are bounded by
  `MaxFailures`; a broker that never accepts is outside the claim.

`diagnosis_progress` leaves out six faults, on purpose. With
`prepare_ack_lost`, `mark_error`, `finalize_error`, `retry_unpublished`,
`worker_lost` or `photo_purged` a job can stay unsettled for ever; all six come
down to what finding 1 shows, that nothing scans for jobs left behind.
`diagnosis_safety` includes all of them.

### Findings

1. **A worker that dies loses its job** (`diagnosis_lost`,
   `modules/diagnosis/executor.py:250`). The message of the dead worker is
   delivered again while its own lease is live, is skipped and acknowledged; the
   job stays `PROCESSING` and its quota reserved. `docs/13` line 334 says a
   restart of worker or dispatcher loses no task.
2. **A published event is published again** (`outbox_final`,
   `modules/events/repository.py:101`). `mark_failed` does not look at
   `status` or `locked_by`: a dispatcher that outlived its lock turns
   `PUBLISHED` back to `FAILED`. `docs/02` line 135 and `docs/03` line 114 end
   the life of an event at `PUBLISHED`. The duplicate is harmless to the
   job: `diagnosis_safety` includes duplicate sends.
3. **A deleted photo leaves an image behind** (`media_deleted`,
   `modules/optimization/executor.py:257`). An executor that passed
   `_is_current` puts its image after the deletion looked for objects the last
   time; `_complete` finds no rows and returns, and the object stays. `docs/16`
   line 76 asks that COS and database be cleared of everything made from the
   photo. Without a deletion the same gap leaves objects behind only after a
   lapsed lease or a fault (`OrphansExplained`).
4. **Feedback outlives the account** (`deletion_feedback`,
   `modules/governance/deletion_repository.py:281`). `purge_account` deletes table
   by table but not `beta_feedback`, and keeps the users row, so that the foreign
   key's cascade never fires. `docs/13` line 472 lists the cascade as done.
5. **An event outlives the share** (`events_left`,
   `modules/governance/deletion_repository.py:256`). A friend who passed
   `get_scene` before the deletion commits inserts his event after the statement
   that deletes events looked.

Met while modelling, and not stated as findings because no document of the
repository promises otherwise, or no property here is about it:

* `COST_LIMIT` is final to the gateway, but the diagnosis executor does not list
  it among its terminal codes (`modules/diagnosis/executor.py`, near line 147) and
  retries the job.
* A friend who votes again as he did before, and deletes his account between the read
  and the write of that request, leaves a vote without an event: the purge took both,
  the write inserts the vote anew, and `upsert_vote` reports a repetition
  (`modules/growth/repository.py:211`). `VoteHasEvent` names this one exception.
* A vote and a deletion of the share can lock each other's rows in opposite
  order; PostgreSQL aborts one (`FailVisit`).
* The page of a diagnosis repeats a failed creation with `forceNew`
  (`miniapp/src/pages/diagnosis/index.vue:104`), so that after a lost answer a
  second job is created; its comment speaks of the preserved key. `JobKnown`
  counts such a key as `forsaken`.

## 4. The proofs

All theorems are of `Spec` (in `ServicesProofs` and `RateLimitProofs` of the
specification of the part, or of `FairSpec`, which has all parts), use no
fairness, and hold for every value of the constants that satisfies the named
assumptions of the module. Three have an assumption of their own, on the kinds of
faults: `NothingLeftBehind` (twice) and `NoDeletionLeftBehind`.

| Module | Theorems |
|---|---|
| `JobExecutionProofs` | lemmas on the job row and on who carries a job on, shared by the executors |
| `DiagnosisExecutionProofs` | `TypeCorrect`, `Settlement`, `Fencing`, `RetryCount`, `SettlementIsFinal`, `Refinement`, `CallsFollowLeases`, `AttemptsWithinBudget`, `OneJobPerFault`, `NothingLeftBehind` |
| `QuotaProofs` | `TypeCorrect`, `NoLostUpdate`, `QuotaIsALimit`, `AlwaysSettles`, `ImplementsLedger`, `DeadlockFree` |
| `OutboxProofs` | `TypeCorrect`, `PublishedMeansSent`, `NoUnexplainedDuplicate`, `OnlyExpiryUnpublishes` |
| `MediaExecutionProofs` | `TypeCorrect`, `Settlement`, `Fencing`, `SettlementIsFinal`, `Refinement`, `OrphansHaveACause`, `OnlyLateImages`, `OneJobPerFault`, `NothingLeftBehind` |
| `DeletionProofs` | `TypeCorrect`, `Agreement`, `PurgeIsFinal`, `Refinement`, `OneDeletionPerFault`, `NoDeletionLeftBehind` |
| `RateLimitProofs` | `TypeCorrect`, `CostlyLimited` |
| `ServicesProofs` | `CreationTypeCorrect`, `OneRowPerKey`, `RetriesFindTheirJob`, `QuotaIsKept`; `VotesTypeCorrect`, `VotesHaveEvents`, `NoVoteIsLeft`; `GatewayTypeCorrect`, `AttemptsAreRecorded`; `MiniTypeCorrect`, `JobsKnown`; `PartsTypeCorrect`, `PartsCorrect` |

**DiagnosisExecution** (any number of jobs, workers, retries, sends, lapses and
faults; assumes `RetriesAssumption`, `NoMessageAssumption`, `BoundsAssumption`,
`FaultsAssumption`). The safety properties are not inductive alone. What carries
them is `ClaimsOnRow`: a pending job was never claimed, and a running or
retryable one carries the token of its latest claim. With it, a worker whose
token the row still shows is the latest claimant, hence `author = claims` on
completion. `IInv` joins it to the row types and to `SettledTogether`,
`ResultFromLatestClaim` and `RetryCountHonest`. It speaks of the rows only, so
the proof first shows that each action either keeps the rows or is one of the
few row steps (claim, mark, complete, finalize, lapse, purge), whatever the
workers and messages are, and then takes these one by one. The claim is reduced
to the lemmas of `JobExecutionProofs` (`ClaimedRow`, `CompletedRow`, `FailedRow`,
`RetryableRow`), which compute what each guarded change makes of a row.
The refinement maps each claim to
`BeginAttempt`, each effective completion or failure to `Succeed` or `Fail`, and
everything else to a stutter.

Two more properties are about the workers, each with an invariant that counts
them. `CallInv`: workers on one job hold different tokens, so at most
one is the one a live lease names; the workers at the provider that are not are
finitely many and at most as many as leases have lapsed, since a worker leaves
the lease of its own accord only as it leaves the call. `AttemptInv`: the claims of
a job, the turns its queued messages may still bring (`MaxRetries + 1` less the
retries a message has behind it) and those of the messages in the hands of workers
are together at most `MaxRetries + 1` for each event published and each fault.

**Jobs left behind** (`DiagnosisExecution`, `MediaExecution` and `Deletion`). A job
that runs is *carried on* by the worker with the token on its row; a retryable one
by a message, or by a worker that holds its token or none and has yet to claim or to
raise; a pending one may also have its event unpublished (`CarriedOn` of
`JobExecutionProofs`, which also has the lemma that a step of one worker takes away
only what that worker carried). `LeftBehind` is the set of open jobs that nobody
carries on, or whose rows are gone. No step adds to it but a fault, and a fault adds
one job at most: that is `OneJobPerFault` (`OneDeletionPerFault`), for every kind of
fault, lost workers, lost acknowledgements and a mark, a retry or a finalization that
fails included. Under the faults the executor
answers by itself (`AnsweredFaults`, for each executor those its `except` branches
bring back to a message or to a settled row) the set stays empty
(`NothingLeftBehind`, for the diagnosis as `NoJobLost`; `NoDeletionLeftBehind`). An
error in `_prepare` is answered in a diagnosis and a deletion, where it can
only come before the commit of the claim; an optimization still reads its source then.
The run `diagnosis_lost` shows that a lost worker is not answered. For deletions,
`Unpublished` is needed too: an event is published only for a row that is there, so a
new deletion has its event still to come.

**Quota** (any finite set of jobs, any calendar with non-decreasing months, any
limits; `CalendarAssumption`, `LimitsAssumption`, `JobsAssumption`). The
invariant adds to `CountersExact` that a transaction past a key holds its lock
and that what it read is what the counter still is (`LocksHeld`), that a
settlement handles the keys the reservation recorded (`OwnKeys`), and, for
`AlwaysSettles`, that the rows of a reservation are stored (`RowsThere`). `CountersExact` is about cardinalities of sets of jobs; adding
and removing one job is a lemma from the finite-set theorems. `WithinLimit`
is then a consequence of the guard of `Reserve` and the lock, and the ledger's
guard equals the code's because the counters are exact. For `NoDeadlock`,
`HoldersArePast` says that whoever holds the lock of a key, or an uncommitted row
for it, is an open transaction that is past that key in the order of
`_locked_counters`. A transaction that waits therefore waits for one that is further
on, and such a chain is no longer than the list of keys: the proof follows it and
needs no count of the transactions.

**Outbox** (any events, finitely many dispatchers, any batch size and bounds;
`OutboxAssumption`). Sends are paid for in advance: `Budget` says that the sends
so far, plus the dispatchers whose batch still holds the event, plus one if the
event is open to a claim, are at most one plus its recorded failures plus its
expired claims. `PublishedWasSent` needs `SuccessWasSent`: a dispatcher about to
record a success has sent the event. `PublishedIsFinal` does not hold; `OnlyExpiryUnpublishes` says how far
it is from it: while no claim on an event has outlived its lock, at most one
dispatcher has the event in hand, only while the row says PROCESSING
(`Undisputed`), and no step takes it out of PUBLISHED.

**MediaExecution** (any jobs, workers, generations and faults;
`GenerationsAssumption` with those of `JobExecution`). As for the diagnosis, with
the object store beside the rows. `ImageOfLatestClaim` needs that an execution
about to complete has put its own object, unless a deletion has begun to
take it: `AllUnderway` says for each worker what it has done by the step it is at,
and objects only grow but for deletions. The
proof splits steps into those that keep the rows and the few that write them.
`OrphansExplained` counts objects, and only holds together with what may yet become
one: `OrphanInv` bounds by the lapsed leases and the faults the *loose* objects (named
by no row and held by no worker about to write one) plus the *stale* workers (on
their way to COS, without a live lease of their own). A step that adds a loose
object meets a fault, or it is the last of a stale worker, which then counts no
longer; a lease that lapses makes one worker stale at most, because tokens differ
(`TokensApart`). TLC checked this invariant on the instance of the run before.
`SettlementIsFinal` is an action property of the row steps. `OnlyLateImages` is what
remains of `DeletedLeavesNoImage` (finding 3): once the rows are purged, the workers
between `_is_current` and `put_object` only become fewer, and each image that still
comes is that of one of them leaving.

**Deletion** (any assets, requests, deletions, workers and rounds;
`NumberedAssumption`, `AssetsAssumption`, `RoundsAssumption`, and
`DepthAssumption`: what is made of an image made of a photo is not used again, as
in the code, photo, result, card). `IInv` adds to the properties: `RowsInOrder`
(no object before its row, and a derived asset lives only while its source
does), `NamedExist` and `NumbersUnused` (a request names rows that exist, and a
deletion nobody else inserts), `NothingUnderway` (once the account is purged, no
image is being made and every row a request names is purged) and `AllWiping` (a
worker holds only keys its deletion covers, and what it has wiped is gone or was
put again later). All steps are first classified by what they do to the
rows (`CoreStep`), so that most actions are handled by what they leave alone.
`Complete` maps to `Erase`, `DeleteObject` to `Wipe`, an inserted deletion to
`Ask`.

**RateLimit** (any capacities, window and clock; `LimitAssumption`). `Spent`
bounds, for each past time, the tokens still in the bucket plus what passed
since by a full bucket plus the refill; `CostlyLimit` is what is left when the
bucket is ignored.

**Creation** (any requests, keys, sources and limit; `CreationAssumption`).
`CreatedOnce` and `NeverIncomplete` are about what a request was told some steps ago.
`CreationInv` holds for each step of a request what it may rely on (`Explained`):
that the row it was refused for is committed, that the record of the job it follows
is there, that the answer it is about to give is that row's; and that quota is used
once per row (`Reserved`). What keeps these true is who holds which lock: a request
past its insert is the only one with its key and finds no committed row
(`KeysHeld`), and a source whose lock is held is not deleted (`SourcesHeld`). After
an account deletion nothing of this is claimed. `QuotaIsKept` is claimed always:
requests with different keys meet at the counter, and who has reserved and not yet
committed holds it alone (`CounterHeld`).

**Votes** (any friends, choices and visits; `VotesAssumption`). A request decides
by the vote it read, which may be stale, whether its own is new. Inductive
(`VotesInv`) is that, as long as the share is there, the vote it read had its event or
the purge of its friend's account is done (`ReadsHadEvents`), that an event it found
is still there when it commits (`EventFound`), and that once the purge has deleted the
friend's votes no request of his has one to commit (`PurgeAlone`: a changed vote makes
the purge wait, a new one waits for the lock on the users row). `EventsGoWithShare` does not hold; `NoVoteIsLeft` is what does:
the votes themselves go with the share, because its foreign key makes a vote and the
deletion wait for each other, or the vote fail (`NobodyVotes`: once the share is gone
no transaction has a vote to commit).

**AIGateway** (any executions, deployments and users; `GatewayAssumption`). At
every step of a call, `RowsInOrder` says that the rows of the routes behind it
are settled with the code of their failure, that of the route in hand is as far
as the call, and those ahead are not there. A step of one execution leaves the
rows of the others alone.

**MiniProgram** (any taps and subjects, up to 20 keys, which is where the lists
are cut; `MiniAssumption`). Memory and storage agree between steps, and every key
that was sent is kept: in the task list, as the last job, as the pending request,
or counted as forsaken.

**MCServices** (`PartsAssumption`: the sets that the idle states take a member of
are not empty). `PartsTypeCorrect` and `PartsCorrect` carry the theorems of the parts
over to `FairSpec`, the specification the run `services` checks: `PartsInv` joins the
parts' invariants, which the idle states satisfy as well.

Every safety property of a passing run is stated by one of these theorems. Only
model-checked are the liveness properties (`EveryJobSettles`, `TransactionsEnd`,
`EveryEventPublished`, `EveryDeletionEnds`, `RequestsEnd`), which the provers do not
handle: of `EveryJobSettles`, `NoJobLost` is the part that is a safety property, of
`EveryDeletionEnds`, `OneDeletionPerFault`, and of `TransactionsEnd`, `NoDeadlock`.

## 5. Not modelled

* Texts, timestamps, progress percentages, error codes, logging, metrics: no
  guard reads them.
* Prompt building, schema and image validation, cost estimates: pure functions
  whose result is the outcome of `CallProvider`, `Giveup` and `Criticise`.
* The broker's own persistence. A message of `queue` is not lost.
* `TIMED_OUT` and `CANCELLED`: no code sets them. `TypeOK` of
  `DiagnosisExecution` says so.
* Tokens, encryption, consent texts and the WeChat client: I/O or pure.
* The mini program's upload draft (`assets.ts`) and its two deletion stores. The
  stores in memory are not cleared when the phone's storage is after an account
  deletion; what of that matters to a user is a question of the pages.
* Row locks of all transactions together. Each module has the locks its own
  transactions contend for; across modules PostgreSQL aborts one of two
  transactions that wait for each other, which is an error branch of each.
* Configuration checks, middleware, telemetry, readiness, evaluation, scripts,
  migrations and infrastructure hold no state of the business logic.

## 6. What is left

* A composition of creation, `Outbox`, execution and `Quota`. Their interfaces are
  narrow (one outbox row, one message, one reservation) and stated in each
  module's initial states, but no run checks them together: two of the modules
  alone fill a run.
* The lock order across tables, as a model of its own.
* Theorems: how many objects a deletion leaves in COS in all, with a history of who
  had passed `_is_current` (`OnlyLateImages` says it step by step); the contract's own
  consequences, from which those of the executors follow.
