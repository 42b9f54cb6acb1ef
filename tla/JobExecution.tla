---------------------------- MODULE JobExecution ----------------------------
(***************************************************************************)
(* What the executors of diagnosis, optimization and share jobs have in    *)
(* common: the rules by which an execution claims and settles a job row,   *)
(* each repeated in every executor, and the Celery task around it          *)
(* (worker/tasks.py, worker/celery_app.py).                                *)
(*                                                                         *)
(* A worker takes a message and goes through separate transactions with    *)
(* awaits between them.  acks_late keeps the message with the broker until *)
(* the task ends.  The steps of a worker are the executor's: see the       *)
(* modules that extend this one.                                           *)
(*                                                                         *)
(* Definitions named Bug_X are plausible mistakes in the definition that   *)
(* follows; no specification uses them.                                    *)
(***************************************************************************)
EXTENDS JobStateMachine

CONSTANTS Jobs,         \* jobs, each created with its outbox event
          Workers,      \* Celery worker processes
          NoMessage,    \* what an idle worker holds
          MaxRetries,   \* max_retries of the Celery task
          MaxPublish,   \* bound: sends of one job's event (outbox: at least 1)
          MaxFaults,    \* bound: faults in a behaviour
          Faults        \* the kinds of fault that may happen

Messages == [job : Jobs, retries : 0 .. MaxRetries]

ASSUME RetriesAssumption == MaxRetries \in Nat
ASSUME NoMessageAssumption == NoMessage \notin Messages
ASSUME BoundsAssumption == {MaxPublish, MaxFaults} \subseteq Nat

VARIABLES
  queue,        \* copies of each message the broker can deliver
  pc, held, tok,\* per worker: next step, message held, token in hand
  published,    \* sends of the job's outbox event
  faults        \* faults so far

procs == <<pc, held, tok>>
delivery == <<queue, procs, published, faults>>
-----------------------------------------------------------------------------
(***************************************************************************)
(* _prepare.                                                               *)
(***************************************************************************)
Bug_ClaimWhateverFree(row) == ~LeaseHolds(row)

Claimable(row) == row.status \notin TerminalJobStatuses /\ ~LeaseHolds(row)

Bug_ClaimWithoutRequeue(row, token) ==
  [row EXCEPT !.status = "PROCESSING", !.token = token, !.lease = "live"]

(***************************************************************************)
(* A running job with a lapsed lease is first put back to                  *)
(* FAILED_RETRYABLE; then QUEUED, PROCESSING and a fresh token and lease.  *)
(***************************************************************************)
Claimed(row, token) ==
  LET recovered == IF row.status \in RunningJobStatuses
                     THEN Transition(row, "FAILED_RETRYABLE") ELSE row
      queued == IF recovered.status \in {"PENDING", "FAILED_RETRYABLE"}
                  THEN Transition(recovered, "QUEUED") ELSE recovered
  IN [Transition(queued, "PROCESSING") EXCEPT !.token = token, !.lease = "live"]

(***************************************************************************)
(* _complete.                                                              *)
(***************************************************************************)
Executing(row, token) == row.status = "PROCESSING" /\ row.token = token

Completed(row) == Transition(Transition(row, "QUALITY_CHECKING"), "COMPLETED")

(***************************************************************************)
(* finalize_failure.  With no expected token a live lease protects the     *)
(* job; with one, only the token is compared.                              *)
(***************************************************************************)
Finalizable(row, token) ==
  /\ row.status \notin {"COMPLETED", "FAILED_FINAL", "CANCELLED"}
  /\ token # NoToken => row.token = token
  /\ token = NoToken => ~LeaseHolds(row)

FailedFinal(row) ==
  Transition(IF row.status = "PENDING" THEN Transition(row, "QUEUED") ELSE row,
             "FAILED_FINAL")

(***************************************************************************)
(* _mark_retryable.  The token stays on the row, so the same execution may *)
(* still finalize it once its retries are used up.                         *)
(***************************************************************************)
Retryable(row, token) == row.token = token /\ row.status \in RunningJobStatuses

(***************************************************************************)
(* The statuses transactions leave behind, for the type invariants.        *)
(* QUEUED and QUALITY_CHECKING exist only inside a transaction, and no     *)
(* code sets TIMED_OUT or CANCELLED: a client that polls sees none of them.*)
(***************************************************************************)
CommittedStatuses ==
  {"PENDING", "PROCESSING", "FAILED_RETRYABLE", "COMPLETED", "FAILED_FINAL"}
-----------------------------------------------------------------------------
InitDelivery ==
  /\ queue = [m \in Messages |-> 0]
  /\ pc = [w \in Workers |-> "idle"]
  /\ held = [w \in Workers |-> NoMessage]
  /\ tok = [w \in Workers |-> NoToken]
  /\ published = [j \in Jobs |-> 0]
  /\ faults = 0

Fault(kind) ==
  /\ kind \in Faults
  /\ faults < MaxFaults
  /\ faults' = faults + 1

Goto(w, step) ==
  /\ pc' = [pc EXCEPT ![w] = step]
  /\ UNCHANGED <<held, tok>>

(***************************************************************************)
(* The outbox sends the event at least once; a dispatcher that died or     *)
(* lost its mark sends it again.                                           *)
(***************************************************************************)
SendEvent(j) ==
  /\ published[j] < MaxPublish
  /\ published' = [published EXCEPT ![j] = @ + 1]
  /\ queue' = [queue EXCEPT ![[job |-> j, retries |-> 0]] = @ + 1]
  /\ UNCHANGED <<procs, faults>>

Take(w, m) ==
  /\ pc[w] = "idle"
  /\ queue[m] > 0
  /\ queue' = [queue EXCEPT ![m] = @ - 1]
  /\ pc' = [pc EXCEPT ![w] = "prepare"]
  /\ held' = [held EXCEPT ![w] = m]
  /\ tok' = [tok EXCEPT ![w] = NoToken]
  /\ UNCHANGED <<published, faults>>

(***************************************************************************)
(* The task ends and its message is acknowledged.                          *)
(***************************************************************************)
Acknowledge(w) ==
  /\ pc[w] = "ack"
  /\ pc' = [pc EXCEPT ![w] = "idle"]
  /\ held' = [held EXCEPT ![w] = NoMessage]
  /\ tok' = [tok EXCEPT ![w] = NoToken]
  /\ UNCHANGED <<queue, published, faults>>

(***************************************************************************)
(* The task's handler of the executor's retryable error: a new message     *)
(* until max_retries are used up.                                          *)
(***************************************************************************)
Bug_OneRetryTooMany(w) == held[w].retries > MaxRetries

RetriesExhausted(w) == held[w].retries >= MaxRetries

Bug_FreshMessage(w) == [job |-> held[w].job, retries |-> 0]

NextAttempt(w) == [job |-> held[w].job, retries |-> held[w].retries + 1]

PublishRetry(w) ==
  /\ pc[w] = "raised"
  /\ ~RetriesExhausted(w)
  /\ queue' = [queue EXCEPT ![NextAttempt(w)] = @ + 1]
  /\ Goto(w, "ack")
  /\ UNCHANGED <<published, faults>>

(***************************************************************************)
(* Celery rejects the message without requeueing it when a retry cannot be *)
(* published.                                                              *)
(***************************************************************************)
LoseRetry(w) ==
  /\ pc[w] = "raised"
  /\ ~RetriesExhausted(w)
  /\ Fault("retry_unpublished")
  /\ Goto(w, "ack")
  /\ UNCHANGED <<queue, published>>

(***************************************************************************)
(* task_reject_on_worker_lost: the message of a dead worker is delivered   *)
(* again as it was.  The database keeps what was committed.                *)
(***************************************************************************)
LoseWorker(w) ==
  /\ pc[w] # "idle"
  /\ Fault("worker_lost")
  /\ queue' = [queue EXCEPT ![held[w]] = @ + 1]
  /\ pc' = [pc EXCEPT ![w] = "idle"]
  /\ held' = [held EXCEPT ![w] = NoMessage]
  /\ tok' = [tok EXCEPT ![w] = NoToken]
  /\ UNCHANGED published
=============================================================================
