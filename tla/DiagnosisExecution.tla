------------------------- MODULE DiagnosisExecution -------------------------
(***************************************************************************)
(* The run of a diagnosis job: the transactions of DiagnosisExecutor       *)
(* (modules/diagnosis/executor.py) in the Celery task of JobExecution.     *)
(*                                                                         *)
(* _prepare claims the job, the provider is called, then one of _complete, *)
(* finalize_failure and _mark_retryable writes the outcome.  Each          *)
(* transaction locks the rows it reads, so it is one step; between two of  *)
(* them every other worker may run.                                        *)
(*                                                                         *)
(* Time is abstract: a lease that is live may lapse at any moment.         *)
(*                                                                         *)
(* A definition named Bug_X is a plausible mistake in the definition that  *)
(* follows it.  The specification never uses one: they show that the       *)
(* properties notice the mistake.                                          *)
(***************************************************************************)
EXTENDS JobExecution, FiniteSets

CONSTANT MaxLapses      \* bound: leases that lapse, per job

FaultKinds ==
  {"prepare_error",      \* an exception before _prepare commits
   "prepare_ack_lost",   \* _prepare commits, its caller sees an exception
   "outcome_error",      \* _complete / _finalize_input_failure rolls back
   "outcome_ack_lost",   \* the same, but the commit went through
   "mark_error",         \* _mark_retryable raises: the task fails
   "finalize_error",     \* finalize_failure raises outside run's try
   "retry_unpublished",  \* task.retry cannot reach the broker
   "worker_lost",        \* the worker process dies
   "photo_purged"}       \* the photo deletion removes the diagnosis row

ASSUME FaultsAssumption == Faults \subseteq FaultKinds /\ MaxLapses \in Nat

VARIABLES
  job,          \* generation_jobs rows
  diagnosis,    \* style_diagnoses.status; "DELETED" when the row is gone
  reservation,  \* quota_reservations.status
  claims,       \* execution tokens drawn per job
  author,       \* history: the claim whose output the diagnosis shows
  lapses        \* history: leases that lapsed, per job

rows == <<job, diagnosis, reservation, claims, author>>
vars == <<rows, delivery, lapses>>

Steps == {"idle", "prepare", "call", "complete", "reject", "finalize",
          "mark", "raised", "ack"}
-----------------------------------------------------------------------------
Init ==
  /\ job = [j \in Jobs |-> NewJob]
  /\ diagnosis = [j \in Jobs |-> "PENDING"]
  /\ reservation = [j \in Jobs |-> "RESERVED"]
  /\ claims = [j \in Jobs |-> 0]
  /\ author = [j \in Jobs |-> 0]
  /\ lapses = [j \in Jobs |-> 0]
  /\ InitDelivery

Publish(j) == SendEvent(j) /\ UNCHANGED <<rows, lapses>>

Deliver(w, m) == Take(w, m) /\ UNCHANGED <<rows, lapses>>

Ack(w) == Acknowledge(w) /\ UNCHANGED <<rows, lapses>>

(***************************************************************************)
(* The lease matters only while the job is running: see LeaseHolds.        *)
(***************************************************************************)
LapseLease(j) ==
  /\ LeaseHolds(job[j])
  /\ lapses[j] < MaxLapses
  /\ job' = [job EXCEPT ![j].lease = "lapsed"]
  /\ lapses' = [lapses EXCEPT ![j] = @ + 1]
  /\ UNCHANGED <<diagnosis, reservation, claims, author, delivery>>
-----------------------------------------------------------------------------
(***************************************************************************)
(* _prepare.  execution_context joins the job to its diagnosis and photo:  *)
(* with the diagnosis row gone there is no context.                        *)
(***************************************************************************)
HasContext(j) == diagnosis[j] # "DELETED"

Bug_ClaimTerminal(j) == HasContext(j) /\ ~LeaseHolds(job[j])

Bug_IgnoreLease(j) ==
  /\ HasContext(j)
  /\ job[j].status \notin TerminalJobStatuses

MayClaim(j) == HasContext(j) /\ Claimable(job[j])

PrepareSkip(w) ==
  /\ pc[w] = "prepare"
  /\ ~MayClaim(held[w].job)
  /\ Goto(w, "ack")
  /\ UNCHANGED <<rows, queue, published, lapses, faults>>

(***************************************************************************)
(* The claim committed by _prepare, as the row `new`, with the token       *)
(* `t` returned or raised to the caller.                                   *)
(***************************************************************************)
ClaimWrites(w, new, step, t) ==
  LET j == held[w].job IN
  /\ pc[w] = "prepare"
  /\ MayClaim(j)
  /\ claims' = [claims EXCEPT ![j] = @ + 1]
  /\ job' = [job EXCEPT ![j] = new]
  /\ pc' = [pc EXCEPT ![w] = step]
  /\ tok' = [tok EXCEPT ![w] = t]
  /\ UNCHANGED <<diagnosis, reservation, author, held, queue, published, lapses>>

PrepareClaim(w) ==
  LET j == held[w].job
      t == claims[j] + 1
  IN /\ ClaimWrites(w, Claimed(job[j], t), "call", t)
     /\ UNCHANGED faults

(***************************************************************************)
(* The photo's URL cannot be signed: the claim is committed as             *)
(* FAILED_RETRYABLE and the error carries its token.                       *)
(***************************************************************************)
PrepareStorageUnavailable(w) ==
  LET j == held[w].job
      t == claims[j] + 1
  IN /\ ClaimWrites(w, Transition(Claimed(job[j], t), "FAILED_RETRYABLE"),
                    "raised", t)
     /\ UNCHANGED faults

(***************************************************************************)
(* run turns any other exception of _prepare into a retryable error with   *)
(* no token, whether or not the commit reached the database.               *)
(***************************************************************************)
PrepareError(w) ==
  /\ pc[w] = "prepare"
  /\ Fault("prepare_error")
  /\ Goto(w, "raised")
  /\ UNCHANGED <<rows, queue, published, lapses>>

PrepareAckLost(w) ==
  LET j == held[w].job IN
  /\ Fault("prepare_ack_lost")
  /\ ClaimWrites(w, Claimed(job[j], claims[j] + 1), "raised", NoToken)
-----------------------------------------------------------------------------
(***************************************************************************)
(* The policy snapshot check and the provider call, outside any            *)
(* transaction: an acceptable output, an output that rejects the photo, a  *)
(* terminal error (invalid snapshot, INVALID_INPUT, CONTENT_POLICY), or    *)
(* anything else, which is worth a retry.                                  *)
(***************************************************************************)
CallProvider(w, next) ==
  /\ pc[w] = "call"
  /\ Goto(w, next)
  /\ UNCHANGED <<rows, queue, published, lapses, faults>>
-----------------------------------------------------------------------------
(***************************************************************************)
(* QuotaRepository._settle refuses a reservation settled the other way.    *)
(* SettledTogether makes this true wherever it is asked, so a refusal,     *)
(* which would raise and leave the rows alone, needs no action.            *)
(***************************************************************************)
MaySettle(j, target) == reservation[j] \in {"RESERVED", target}

Bug_AnyToken(j, token) ==
  /\ HasContext(j)
  /\ job[j].status = "PROCESSING"

IsExecuting(j, token) == HasContext(j) /\ Executing(job[j], token)

Bug_StopAtQualityCheck(j, token) ==
  /\ job' = [job EXCEPT ![j] = Transition(@, "QUALITY_CHECKING")]
  /\ diagnosis' = [diagnosis EXCEPT ![j] = "COMPLETED"]
  /\ author' = [author EXCEPT ![j] = token]
  /\ reservation' = [reservation EXCEPT ![j] = "COMMITTED"]
  /\ UNCHANGED claims

Bug_CompleteWithoutCharge(j, token) ==
  /\ job' = [job EXCEPT ![j] = Completed(@)]
  /\ diagnosis' = [diagnosis EXCEPT ![j] = "COMPLETED"]
  /\ author' = [author EXCEPT ![j] = token]
  /\ UNCHANGED <<reservation, claims>>

CompleteWrites(j, token) ==
  /\ job' = [job EXCEPT ![j] = Completed(@)]
  /\ diagnosis' = [diagnosis EXCEPT ![j] = "COMPLETED"]
  /\ author' = [author EXCEPT ![j] = token]
  /\ reservation' = [reservation EXCEPT ![j] = "COMMITTED"]
  /\ UNCHANGED claims

Complete(w) ==
  LET j == held[w].job IN
  /\ pc[w] = "complete"
  /\ IF IsExecuting(j, tok[w])
       THEN MaySettle(j, "COMMITTED") /\ CompleteWrites(j, tok[w])
       ELSE UNCHANGED rows
  /\ Goto(w, "ack")
  /\ UNCHANGED <<queue, published, lapses, faults>>

CompleteAckLost(w) ==
  LET j == held[w].job IN
  /\ pc[w] = "complete"
  /\ Fault("outcome_ack_lost")
  /\ IsExecuting(j, tok[w])
  /\ MaySettle(j, "COMMITTED")
  /\ CompleteWrites(j, tok[w])
  /\ Goto(w, "mark")
  /\ UNCHANGED <<queue, published, lapses>>
-----------------------------------------------------------------------------
Bug_TokenRequired(j, token) ==
  /\ HasContext(j)
  /\ job[j].status \notin {"COMPLETED", "FAILED_FINAL", "CANCELLED"}
  /\ job[j].token = token

MayFinalize(j, token) == HasContext(j) /\ Finalizable(job[j], token)

Bug_KeepReservation(j) ==
  /\ job' = [job EXCEPT ![j] = FailedFinal(@)]
  /\ diagnosis' = [diagnosis EXCEPT ![j] = "FAILED"]
  /\ UNCHANGED <<reservation, claims, author>>

FinalizeWrites(j) ==
  /\ job' = [job EXCEPT ![j] = FailedFinal(@)]
  /\ diagnosis' = [diagnosis EXCEPT ![j] = "FAILED"]
  /\ reservation' = [reservation EXCEPT ![j] = "RELEASED"]
  /\ UNCHANGED <<claims, author>>

FinalizeFailure(w) ==
  LET j == held[w].job IN
  /\ IF MayFinalize(j, tok[w])
       THEN MaySettle(j, "RELEASED") /\ FinalizeWrites(j)
       ELSE UNCHANGED rows
  /\ Goto(w, "ack")
  /\ UNCHANGED <<queue, published, lapses, faults>>

(***************************************************************************)
(* _finalize_input_failure runs inside run's try: an exception there, even *)
(* one raised after the commit, is answered by _mark_retryable.            *)
(***************************************************************************)
Reject(w) == pc[w] = "reject" /\ FinalizeFailure(w)

RejectAckLost(w) ==
  LET j == held[w].job IN
  /\ pc[w] = "reject"
  /\ Fault("outcome_ack_lost")
  /\ MayFinalize(j, tok[w])
  /\ MaySettle(j, "RELEASED")
  /\ FinalizeWrites(j)
  /\ Goto(w, "mark")
  /\ UNCHANGED <<queue, published, lapses>>

OutcomeError(w) ==
  /\ pc[w] \in {"complete", "reject"}
  /\ Fault("outcome_error")
  /\ Goto(w, "mark")
  /\ UNCHANGED <<rows, queue, published, lapses>>

(***************************************************************************)
(* A terminal error is finalized outside the try.                          *)
(***************************************************************************)
Finalize(w) == pc[w] = "finalize" /\ FinalizeFailure(w)

MayMark(j, token) == HasContext(j) /\ Retryable(job[j], token)

MarkRetryable(w) ==
  LET j == held[w].job IN
  /\ pc[w] = "mark"
  /\ IF MayMark(j, tok[w])
       THEN /\ job' = [job EXCEPT ![j] = Transition(@, "FAILED_RETRYABLE")]
            /\ Goto(w, "raised")
       ELSE /\ UNCHANGED job
            /\ Goto(w, "ack")
  /\ UNCHANGED <<diagnosis, reservation, claims, author, queue, published,
                 lapses, faults>>

MarkError(w) ==
  /\ pc[w] = "mark"
  /\ Fault("mark_error")
  /\ Goto(w, "ack")
  /\ UNCHANGED <<rows, queue, published, lapses>>

MarkAckLost(w) ==
  LET j == held[w].job IN
  /\ pc[w] = "mark"
  /\ MayMark(j, tok[w])
  /\ Fault("mark_error")
  /\ job' = [job EXCEPT ![j] = Transition(@, "FAILED_RETRYABLE")]
  /\ Goto(w, "ack")
  /\ UNCHANGED <<diagnosis, reservation, claims, author, queue, published, lapses>>
-----------------------------------------------------------------------------
(***************************************************************************)
(* run_style_diagnosis's handler of RetryableDiagnosisError: retry until   *)
(* max_retries, then finalize.                                             *)
(***************************************************************************)
Retry(w) == PublishRetry(w) /\ UNCHANGED <<rows, lapses>>

RetryUnpublished(w) == LoseRetry(w) /\ UNCHANGED <<rows, lapses>>

Exhaust(w) ==
  /\ pc[w] = "raised"
  /\ RetriesExhausted(w)
  /\ FinalizeFailure(w)

FinalizeError(w) ==
  /\ pc[w] = "finalize" \/ (pc[w] = "raised" /\ RetriesExhausted(w))
  /\ Fault("finalize_error")
  /\ Goto(w, "ack")
  /\ UNCHANGED <<rows, queue, published, lapses>>
-----------------------------------------------------------------------------
WorkerLost(w) == LoseWorker(w) /\ UNCHANGED <<rows, lapses>>

(***************************************************************************)
(* DeletionRepository.purge_asset removes the diagnosis of a deleted photo *)
(* and leaves the job and the reservation.                                 *)
(***************************************************************************)
PurgePhoto(j) ==
  /\ Fault("photo_purged")
  /\ HasContext(j)
  /\ diagnosis' = [diagnosis EXCEPT ![j] = "DELETED"]
  /\ UNCHANGED <<job, reservation, claims, author, queue, procs, published, lapses>>
-----------------------------------------------------------------------------
WorkerStep(w) ==
  \/ PrepareSkip(w)
  \/ PrepareClaim(w)
  \/ PrepareStorageUnavailable(w)
  \/ PrepareError(w)
  \/ PrepareAckLost(w)
  \/ \E next \in {"complete", "reject", "finalize", "mark"} : CallProvider(w, next)
  \/ Complete(w)
  \/ CompleteAckLost(w)
  \/ Reject(w)
  \/ RejectAckLost(w)
  \/ OutcomeError(w)
  \/ Finalize(w)
  \/ MarkRetryable(w)
  \/ MarkError(w)
  \/ MarkAckLost(w)
  \/ Retry(w)
  \/ RetryUnpublished(w)
  \/ Exhaust(w)
  \/ FinalizeError(w)
  \/ Ack(w)

Next ==
  \/ \E j \in Jobs : Publish(j) \/ LapseLease(j) \/ PurgePhoto(j)
  \/ \E w \in Workers : \/ \E m \in Messages : Deliver(w, m)
                        \/ WorkerStep(w)
                        \/ WorkerLost(w)

Spec == Init /\ [][Next]_vars

(***************************************************************************)
(* The outbox retries until its event is sent; the broker delivers what it *)
(* has to some idle worker; a worker that holds a message goes on.         *)
(***************************************************************************)
FairSpec ==
  /\ Spec
  /\ \A j \in Jobs : WF_vars(published[j] = 0 /\ Publish(j))
  /\ WF_vars(\E w \in Workers, m \in Messages : Deliver(w, m))
  /\ \A w \in Workers : WF_vars(WorkerStep(w))
-----------------------------------------------------------------------------
(***************************************************************************)
(* The values the variables take.                                          *)
(***************************************************************************)
TypeOK ==
  /\ job \in [Jobs -> JobRows]
  /\ \A j \in Jobs : job[j].status \in CommittedStatuses
  /\ diagnosis \in [Jobs -> {"PENDING", "COMPLETED", "FAILED", "DELETED"}]
  /\ reservation \in [Jobs -> {"RESERVED", "COMMITTED", "RELEASED"}]
  /\ claims \in [Jobs -> Nat]
  /\ author \in [Jobs -> Nat]
  /\ queue \in [Messages -> Nat]
  /\ pc \in [Workers -> Steps]
  /\ held \in [Workers -> Messages \cup {NoMessage}]
  /\ \A w \in Workers : pc[w] # "idle" => held[w] \in Messages
  /\ tok \in [Workers -> Nat]
  /\ published \in [Jobs -> Nat]
  /\ lapses \in [Jobs -> Nat]
  /\ faults \in Nat

(***************************************************************************)
(* Job, diagnosis and quota are settled by different columns of different  *)
(* tables; whatever the interleaving, a user never sees a result that was  *)
(* not charged, a charge without a result, or a failed job that keeps the  *)
(* free use it reserved.                                                   *)
(***************************************************************************)
SettledTogether ==
  \A j \in Jobs :
    /\ job[j].status = "COMPLETED" <=> reservation[j] = "COMMITTED"
    /\ job[j].status = "FAILED_FINAL" <=> reservation[j] = "RELEASED"
    /\ HasContext(j) =>
         /\ job[j].status = "COMPLETED" <=> diagnosis[j] = "COMPLETED"
         /\ job[j].status = "FAILED_FINAL" <=> diagnosis[j] = "FAILED"

(***************************************************************************)
(* Fencing: the output a completed job shows comes from the last execution *)
(* that claimed it, never from a worker whose lease was taken over.        *)
(***************************************************************************)
ResultFromLatestClaim ==
  \A j \in Jobs : job[j].status = "COMPLETED" => author[j] = claims[j]

(***************************************************************************)
(* retry_count, which the API shows, is the number of executions after the *)
(* first: takeovers of lapsed leases are counted and skips are not.        *)
(***************************************************************************)
RetryCountHonest ==
  \A j \in Jobs :
    job[j].retry_count = IF claims[j] = 0 THEN 0 ELSE claims[j] - 1

(***************************************************************************)
(* Two workers are inside the provider call of one job only if a lease     *)
(* lapsed: duplicate messages and retries alone never pay the provider     *)
(* twice at the same time.                                                 *)
(***************************************************************************)
Calling(j) == {w \in Workers : pc[w] = "call" /\ held[w].job = j}

OneCallPerLease == \A j \in Jobs : Cardinality(Calling(j)) <= 1 + lapses[j]

(***************************************************************************)
(* The provider is called at most max_retries + 1 times for each message   *)
(* the outbox sent and each delivery repeated after a crash: a worker that *)
(* dies after task.retry leaves both the old and the new message behind.   *)
(***************************************************************************)
AttemptsBounded ==
  \A j \in Jobs : claims[j] <= (published[j] + faults) * (MaxRetries + 1)

(***************************************************************************)
(* A job nobody has settled is still on its way: its event is unsent, the  *)
(* broker has a message for it, or a worker is handling one.  Nothing in   *)
(* the code looks for jobs that are left behind.                           *)
(***************************************************************************)
Unsettled(j) == job[j].status \notin TerminalJobStatuses

OnItsWay(j) ==
  \/ published[j] = 0
  \/ \E m \in Messages : m.job = j /\ queue[m] > 0
  \/ \E w \in Workers : pc[w] \notin {"idle", "ack"} /\ held[w].job = j

NoJobLost == \A j \in Jobs : Unsettled(j) => OnItsWay(j)

(***************************************************************************)
(* A settled job stays as it is, in all three tables.                      *)
(***************************************************************************)
SettledIsFinal ==
  [][\A j \in Jobs :
       ~Unsettled(j) => job'[j] = job[j] /\ reservation'[j] = reservation[j]]_vars

(***************************************************************************)
(* Every job ends with a result or a refund.                               *)
(***************************************************************************)
EveryJobSettles == \A j \in Jobs : <>~Unsettled(j)

(***************************************************************************)
(* The refinement: an attempt begins with each claim; the row's terminal   *)
(* status is the verdict and the reservation is the charge.                *)
(***************************************************************************)
Verdict(row) ==
  CASE row.status = "COMPLETED"    -> "succeeded"
    [] row.status = "FAILED_FINAL" -> "failed"
    [] OTHER                       -> "open"

Contract == INSTANCE JobContract
  WITH epoch <- claims,
       verdict <- [j \in Jobs |-> Verdict(job[j])],
       charge <- reservation

KeepsContract == Contract!Spec
=============================================================================
