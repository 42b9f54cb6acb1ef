--------------------------- MODULE MediaExecution ---------------------------
(***************************************************************************)
(* The run of an optimization job and of a share job: the transactions of  *)
(* OptimizationExecutor (modules/optimization/executor.py) and             *)
(* ShareAssetExecutor (modules/growth/executor.py) in the Celery task of   *)
(* JobExecution.                                                           *)
(*                                                                         *)
(* Both read their source image from COS, make a new one, put it to COS    *)
(* under a key that holds the execution token, and only then write the     *)
(* asset row that names it.  COS takes part in no transaction: what a      *)
(* crash, a takeover or a deletion leaves between the two is the subject   *)
(* of this module.  An optimization is generated and criticised up to      *)
(* MaxGenerations times and is paid for with quota; a share is rendered    *)
(* once and is free.                                                       *)
(*                                                                         *)
(* Time is abstract: a lease that is live may lapse at any moment.  Each   *)
(* transaction locks the rows it reads, so it is one step.  Definitions    *)
(* named Bug_X are plausible mistakes in the definition that follows; the  *)
(* specification never uses them.                                          *)
(***************************************************************************)
EXTENDS JobExecution, FiniteSets

CONSTANTS MaxGenerations,  \* max_generation_attempts of the policy snapshot
          MaxLapses        \* bound: leases that lapse, per job

FaultKinds ==
  {"prepare_error",      \* an exception in _prepare, its last write undone
   "prepare_ack_lost",   \* the same, but the commit went through
   "put_ack_lost",       \* COS took the object, the caller sees an exception
   "outcome_error",      \* a transaction inside run's try rolls back
   "outcome_ack_lost",   \* the same, but the commit went through
   "mark_error",         \* _mark_retryable raises: the task fails
   "finalize_error",     \* finalize_failure raises outside run's try
   "retry_unpublished",  \* task.retry cannot reach the broker
   "worker_lost",        \* the worker process dies
   "deleted"}            \* a photo deletion that takes this job's rows too

ASSUME FaultsAssumption == Faults \subseteq FaultKinds
ASSUME GenerationsAssumption == MaxGenerations \in Nat \ {0} /\ MaxLapses \in Nat

VARIABLES
  kind,         \* "optimization" or "share"; never changes
  job,          \* generation_jobs rows
  context,      \* what the executor's joins find, see below
  subject,      \* status of the optimization or share; ACTIVE is COMPLETED
  reservation,  \* quota_reservations.status; "NONE" for a share
  asset,        \* the token in the key the result's asset row names, 0: no row
  objects,      \* the tokens whose keys have an object in COS
  deleting,     \* a deletion has removed the named object, not yet the rows
  claims,       \* execution tokens drawn per job
  author,       \* history: the claim whose image the job completed with
  generation,   \* per worker: images it generated in this execution
  lapses        \* history: leases that lapsed, per job

rows == <<kind, job, context, subject, reservation, asset, claims, author>>
store == <<objects, deleting>>
vars == <<rows, store, delivery, generation, lapses>>

(***************************************************************************)
(* "usable"   the subject's row and everything it is made from             *)
(* "unusable" the same, but the stored change plan does not validate, as   *)
(*            one from another release may not                             *)
(* "gone"     no row: the joins find nothing                               *)
(*                                                                         *)
(* A share never outlives its optimization: create_share locks the         *)
(* optimization row and its job row the user's, a deletion locks both.     *)
(* The branches for a share without sources are therefore not reached.     *)
(***************************************************************************)
Contexts == {"usable", "unusable", "gone"}

Steps == {"idle", "prepare", "read", "missing", "unavailable", "generate",
          "criticise", "criticise again", "check", "put", "complete", "reject",
          "finalize", "mark", "raised", "ack"}
-----------------------------------------------------------------------------
Init ==
  /\ kind \in [Jobs -> {"optimization", "share"}]
  /\ context \in [Jobs -> {"usable", "unusable"}]
  /\ \A j \in Jobs : kind[j] = "share" => context[j] = "usable"
  /\ job = [j \in Jobs |-> NewJob]
  /\ subject = [j \in Jobs |-> "PENDING"]
  /\ reservation = [j \in Jobs |-> IF kind[j] = "share" THEN "NONE" ELSE "RESERVED"]
  /\ asset = [j \in Jobs |-> 0]
  /\ objects = [j \in Jobs |-> {}]
  /\ deleting = [j \in Jobs |-> FALSE]
  /\ claims = [j \in Jobs |-> 0]
  /\ author = [j \in Jobs |-> 0]
  /\ generation = [w \in Workers |-> 0]
  /\ lapses = [j \in Jobs |-> 0]
  /\ InitDelivery

Publish(j) == SendEvent(j) /\ UNCHANGED <<rows, store, generation, lapses>>

Deliver(w, m) ==
  /\ Take(w, m)
  /\ generation' = [generation EXCEPT ![w] = 0]
  /\ UNCHANGED <<rows, store, lapses>>

Ack(w) == Acknowledge(w) /\ UNCHANGED <<rows, store, generation, lapses>>

LapseLease(j) ==
  /\ LeaseHolds(job[j])
  /\ lapses[j] < MaxLapses
  /\ job' = [job EXCEPT ![j].lease = "lapsed"]
  /\ lapses' = [lapses EXCEPT ![j] = @ + 1]
  /\ UNCHANGED <<kind, context, subject, reservation, asset, claims, author,
                 store, delivery, generation>>

(***************************************************************************)
(* What a transition of worker w leaves alone outside the rows.            *)
(***************************************************************************)
Elsewhere == UNCHANGED <<store, queue, published, generation, lapses>>

HasContext(j) == context[j] # "gone"

(***************************************************************************)
(* The writes a settlement makes to the tables.  QuotaRepository._settle   *)
(* refuses a reservation settled the other way, which SettledTogether      *)
(* excludes.  A share has no reservation.                                  *)
(***************************************************************************)
Settled(j, target) ==
  IF kind[j] = "share" THEN reservation ELSE [reservation EXCEPT ![j] = target]

Bug_KeepReservation(j, verdict) ==
  /\ job' = [job EXCEPT ![j] = FailedFinal(@)]
  /\ subject' = [subject EXCEPT ![j] = verdict]
  /\ UNCHANGED <<kind, context, reservation, asset, claims, author>>

FailWrites(j, verdict) ==
  /\ job' = [job EXCEPT ![j] = FailedFinal(@)]
  /\ subject' = [subject EXCEPT ![j] = verdict]
  /\ reservation' = Settled(j, "RELEASED")
  /\ UNCHANGED <<kind, context, asset, claims, author>>
-----------------------------------------------------------------------------
(***************************************************************************)
(* _prepare: the claim.  An optimization without a valid plan fails in the *)
(* same transaction.                                                       *)
(***************************************************************************)
MayClaim(j) == HasContext(j) /\ Claimable(job[j])

PrepareSkip(w) ==
  /\ pc[w] = "prepare"
  /\ ~MayClaim(held[w].job)
  /\ Goto(w, "ack")
  /\ UNCHANGED <<rows, faults>> /\ Elsewhere

ClaimWrites(j) ==
  /\ claims' = [claims EXCEPT ![j] = @ + 1]
  /\ IF context[j] = "usable"
       THEN /\ job' = [job EXCEPT ![j] = Claimed(@, claims[j] + 1)]
            /\ UNCHANGED <<subject, reservation>>
       ELSE /\ job' = [job EXCEPT ![j] = FailedFinal(Claimed(@, claims[j] + 1))]
            /\ subject' = [subject EXCEPT ![j] = "FAILED"]
            /\ reservation' = Settled(j, "RELEASED")
  /\ UNCHANGED <<kind, context, asset, author>>

PrepareClaim(w) ==
  LET j == held[w].job IN
  /\ pc[w] = "prepare"
  /\ MayClaim(j)
  /\ ClaimWrites(j)
  /\ pc' = [pc EXCEPT ![w] = IF context[j] = "usable" THEN "read" ELSE "ack"]
  /\ tok' = [tok EXCEPT ![w] = claims[j] + 1]
  /\ UNCHANGED <<held, faults>> /\ Elsewhere

(***************************************************************************)
(* The source images are read after the commit.  For an optimization run   *)
(* then checks the policy snapshot and the photo's metadata.               *)
(***************************************************************************)
ReadSource(w, next) ==
  /\ pc[w] = "read"
  /\ next = "finalize" => kind[held[w].job] = "optimization"
  /\ Goto(w, next)
  /\ UNCHANGED <<rows, faults>> /\ Elsewhere

MayFinalize(j, token) == HasContext(j) /\ Finalizable(job[j], token)

FinalizeFailure(w, verdict) ==
  LET j == held[w].job IN
  IF MayFinalize(j, tok[w]) THEN FailWrites(j, verdict) ELSE UNCHANGED rows

(***************************************************************************)
(* Still _prepare: an object that is not there fails the job; COS being    *)
(* unavailable marks it and raises, whether or not the mark applied.       *)
(***************************************************************************)
SourceMissing(w) ==
  /\ pc[w] = "missing"
  /\ FinalizeFailure(w, "FAILED")
  /\ Goto(w, "ack")
  /\ UNCHANGED faults /\ Elsewhere

MayMark(j, token) == HasContext(j) /\ Retryable(job[j], token)

MarkWrites(w) ==
  LET j == held[w].job IN
  /\ job' = IF MayMark(j, tok[w])
              THEN [job EXCEPT ![j] = Transition(@, "FAILED_RETRYABLE")] ELSE job
  /\ UNCHANGED <<kind, context, subject, reservation, asset, claims, author>>

SourceUnavailable(w) ==
  /\ pc[w] = "unavailable"
  /\ MarkWrites(w)
  /\ Goto(w, "raised")
  /\ UNCHANGED faults /\ Elsewhere

(***************************************************************************)
(* Any other exception in _prepare is retried with no token, whether or    *)
(* not the last transaction reached the database.                          *)
(***************************************************************************)
RaiseWithoutToken(w) ==
  /\ pc' = [pc EXCEPT ![w] = "raised"]
  /\ tok' = [tok EXCEPT ![w] = NoToken]
  /\ UNCHANGED held

PrepareError(w) ==
  /\ pc[w] \in {"prepare", "read", "missing", "unavailable"}
  /\ Fault("prepare_error")
  /\ RaiseWithoutToken(w)
  /\ UNCHANGED rows /\ Elsewhere

PrepareAckLost(w) ==
  /\ Fault("prepare_ack_lost")
  /\ \/ pc[w] = "prepare" /\ MayClaim(held[w].job) /\ ClaimWrites(held[w].job)
     \/ pc[w] = "missing" /\ FinalizeFailure(w, "FAILED")
     \/ pc[w] = "unavailable" /\ MarkWrites(w)
  /\ RaiseWithoutToken(w)
  /\ Elsewhere
-----------------------------------------------------------------------------
(***************************************************************************)
(* Making the image, outside any transaction.  A failing provider, a       *)
(* refused request or an image that cannot be rendered may end it          *)
(* anywhere.                                                               *)
(***************************************************************************)
Giveup(w, next) ==
  /\ pc[w] \in {"generate", "criticise", "criticise again"}
  /\ Goto(w, next)
  /\ UNCHANGED <<rows, faults>> /\ Elsewhere

Render(w) ==
  /\ pc[w] = "generate" /\ kind[held[w].job] = "share"
  /\ Goto(w, "check")
  /\ UNCHANGED <<rows, faults>> /\ Elsewhere

(***************************************************************************)
(* One turn of the generation loop begins.  An image that does not         *)
(* validate, or that the critic fails, goes on to the next turn.           *)
(***************************************************************************)
Bug_OneTurnTooMany(turns) == IF turns <= MaxGenerations THEN "generate" ELSE "reject"

NextTurn(turns) == IF turns < MaxGenerations THEN "generate" ELSE "reject"

Generate(w) ==
  /\ pc[w] = "generate" /\ kind[held[w].job] = "optimization"
  /\ generation' = [generation EXCEPT ![w] = @ + 1]
  /\ \/ Goto(w, "criticise")
     \/ Goto(w, NextTurn(generation[w] + 1))
  /\ UNCHANGED <<rows, faults, store, queue, published, lapses>>

(***************************************************************************)
(* The critic is asked again once when its answer does not validate.       *)
(***************************************************************************)
Criticise(w) ==
  /\ pc[w] \in {"criticise", "criticise again"}
  /\ \/ Goto(w, "check")
     \/ Goto(w, NextTurn(generation[w]))
     \/ pc[w] = "criticise" /\ Goto(w, "criticise again")
  /\ UNCHANGED <<rows, faults>> /\ Elsewhere
-----------------------------------------------------------------------------
Bug_AnyToken(j, token) == HasContext(j) /\ job[j].status = "PROCESSING"

IsExecuting(j, token) == HasContext(j) /\ Executing(job[j], token)

(***************************************************************************)
(* _is_current, then put_object, then _complete.                           *)
(***************************************************************************)
CheckCurrent(w) ==
  /\ pc[w] = "check"
  /\ Goto(w, IF IsExecuting(held[w].job, tok[w]) THEN "put" ELSE "ack")
  /\ UNCHANGED <<rows, faults>> /\ Elsewhere

ObjectPut(w) == objects' = [objects EXCEPT ![held[w].job] = @ \cup {tok[w]}]

Put(w) ==
  /\ pc[w] = "put"
  /\ ObjectPut(w)
  /\ Goto(w, "complete")
  /\ UNCHANGED <<rows, faults, deleting, queue, published, generation, lapses>>

PutFails(w) ==
  /\ pc[w] = "put"
  /\ Goto(w, "mark")
  /\ UNCHANGED <<rows, faults>> /\ Elsewhere

PutAckLost(w) ==
  /\ pc[w] = "put"
  /\ Fault("put_ack_lost")
  /\ ObjectPut(w)
  /\ Goto(w, "mark")
  /\ UNCHANGED <<rows, deleting, queue, published, generation, lapses>>

Bug_ForgetAsset(j, token) ==
  /\ job' = [job EXCEPT ![j] = Completed(@)]
  /\ subject' = [subject EXCEPT ![j] = "COMPLETED"]
  /\ reservation' = Settled(j, "COMMITTED")
  /\ author' = [author EXCEPT ![j] = token]
  /\ UNCHANGED <<kind, context, claims, asset>>

Bug_ChargeLater(j, token) ==
  /\ job' = [job EXCEPT ![j] = Completed(@)]
  /\ subject' = [subject EXCEPT ![j] = "COMPLETED"]
  /\ asset' = [asset EXCEPT ![j] = token]
  /\ author' = [author EXCEPT ![j] = token]
  /\ UNCHANGED <<kind, context, claims, reservation>>

CompleteWrites(j, token) ==
  /\ job' = [job EXCEPT ![j] = Completed(@)]
  /\ subject' = [subject EXCEPT ![j] = "COMPLETED"]
  /\ asset' = [asset EXCEPT ![j] = token]
  /\ reservation' = Settled(j, "COMMITTED")
  /\ author' = [author EXCEPT ![j] = token]
  /\ UNCHANGED <<kind, context, claims>>

Outcome(w) ==
  LET j == held[w].job IN
  IF IsExecuting(j, tok[w]) THEN CompleteWrites(j, tok[w]) ELSE UNCHANGED rows

Complete(w) ==
  /\ pc[w] = "complete"
  /\ Outcome(w)
  /\ Goto(w, "ack")
  /\ UNCHANGED faults /\ Elsewhere

(***************************************************************************)
(* Every generation was rejected; this finalize is inside run's try.       *)
(***************************************************************************)
Reject(w) ==
  /\ pc[w] = "reject"
  /\ FinalizeFailure(w, "REJECTED_BY_CRITIC")
  /\ Goto(w, "ack")
  /\ UNCHANGED faults /\ Elsewhere

(***************************************************************************)
(* An exception inside run's try, even one raised after a commit, is       *)
(* answered by _mark_retryable.                                            *)
(***************************************************************************)
OutcomeError(w) ==
  /\ pc[w] \in {"check", "complete", "reject"}
  /\ Fault("outcome_error")
  /\ Goto(w, "mark")
  /\ UNCHANGED rows /\ Elsewhere

OutcomeAckLost(w) ==
  /\ Fault("outcome_ack_lost")
  /\ \/ pc[w] = "complete" /\ Outcome(w)
     \/ pc[w] = "reject" /\ FinalizeFailure(w, "REJECTED_BY_CRITIC")
  /\ Goto(w, "mark")
  /\ Elsewhere

Finalize(w) ==
  /\ pc[w] = "finalize"
  /\ FinalizeFailure(w, "FAILED")
  /\ Goto(w, "ack")
  /\ UNCHANGED faults /\ Elsewhere

MarkRetryable(w) ==
  /\ pc[w] = "mark"
  /\ MarkWrites(w)
  /\ Goto(w, IF MayMark(held[w].job, tok[w]) THEN "raised" ELSE "ack")
  /\ UNCHANGED faults /\ Elsewhere

(***************************************************************************)
(* The task fails, with its transaction committed or not.                  *)
(***************************************************************************)
MarkError(w) ==
  /\ pc[w] = "mark"
  /\ Fault("mark_error")
  /\ MarkWrites(w) \/ UNCHANGED rows
  /\ Goto(w, "ack")
  /\ Elsewhere
-----------------------------------------------------------------------------
(***************************************************************************)
(* run_style_optimization and run_share_asset: retry, then finalize.       *)
(***************************************************************************)
Retry(w) == PublishRetry(w) /\ UNCHANGED <<rows, store, generation, lapses>>

RetryUnpublished(w) == LoseRetry(w) /\ UNCHANGED <<rows, store, generation, lapses>>

Exhaust(w) ==
  /\ pc[w] = "raised"
  /\ RetriesExhausted(w)
  /\ FinalizeFailure(w, "FAILED")
  /\ Goto(w, "ack")
  /\ UNCHANGED faults /\ Elsewhere

FinalizeError(w) ==
  /\ pc[w] = "finalize" \/ (pc[w] = "raised" /\ RetriesExhausted(w))
  /\ Fault("finalize_error")
  /\ Goto(w, "ack")
  /\ UNCHANGED rows /\ Elsewhere

WorkerLost(w) == LoseWorker(w) /\ UNCHANGED <<rows, store, generation, lapses>>
-----------------------------------------------------------------------------
(***************************************************************************)
(* A photo deletion removes the object the asset row names, then, in a     *)
(* transaction that finds no other named object, the rows.  The job and    *)
(* its reservation stay.                                                   *)
(***************************************************************************)
DeleteObject(j) ==
  /\ "deleted" \in Faults
  /\ HasContext(j)
  /\ asset[j] \in objects[j]
  /\ objects' = [objects EXCEPT ![j] = @ \ {asset[j]}]
  /\ deleting' = [deleting EXCEPT ![j] = TRUE]
  /\ UNCHANGED <<rows, delivery, generation, lapses>>

Purge(j) ==
  /\ Fault("deleted")
  /\ HasContext(j)
  /\ asset[j] \notin objects[j]
  /\ context' = [context EXCEPT ![j] = "gone"]
  /\ asset' = [asset EXCEPT ![j] = 0]
  /\ UNCHANGED <<kind, job, subject, reservation, claims, author, store,
                 queue, procs, published, generation, lapses>>
-----------------------------------------------------------------------------
WorkerStep(w) ==
  \/ PrepareSkip(w)
  \/ PrepareClaim(w)
  \/ \E next \in {"generate", "missing", "unavailable", "finalize"} : ReadSource(w, next)
  \/ SourceMissing(w)
  \/ SourceUnavailable(w)
  \/ PrepareError(w)
  \/ PrepareAckLost(w)
  \/ \E next \in {"mark", "finalize"} : Giveup(w, next)
  \/ Render(w)
  \/ Generate(w)
  \/ Criticise(w)
  \/ CheckCurrent(w)
  \/ Put(w)
  \/ PutFails(w)
  \/ PutAckLost(w)
  \/ Complete(w)
  \/ Reject(w)
  \/ OutcomeError(w)
  \/ OutcomeAckLost(w)
  \/ Finalize(w)
  \/ MarkRetryable(w)
  \/ MarkError(w)
  \/ Retry(w)
  \/ RetryUnpublished(w)
  \/ Exhaust(w)
  \/ FinalizeError(w)
  \/ Ack(w)

Next ==
  \/ \E j \in Jobs : \/ Publish(j) \/ LapseLease(j)
                     \/ DeleteObject(j) \/ Purge(j)
  \/ \E w \in Workers : \/ \E m \in Messages : Deliver(w, m)
                        \/ WorkerStep(w)
                        \/ WorkerLost(w)

Spec == Init /\ [][Next]_vars
-----------------------------------------------------------------------------
TypeOK ==
  /\ kind \in [Jobs -> {"optimization", "share"}]
  /\ job \in [Jobs -> JobRows]
  /\ \A j \in Jobs : job[j].status \in CommittedStatuses
  /\ context \in [Jobs -> Contexts]
  /\ subject \in [Jobs -> {"PENDING", "COMPLETED", "FAILED", "REJECTED_BY_CRITIC"}]
  /\ reservation \in [Jobs -> {"NONE", "RESERVED", "COMMITTED", "RELEASED"}]
  /\ asset \in [Jobs -> Nat]
  /\ objects \in [Jobs -> SUBSET (Nat \ {0})]
  /\ deleting \in [Jobs -> BOOLEAN]
  /\ claims \in [Jobs -> Nat]
  /\ author \in [Jobs -> Nat]
  /\ generation \in [Workers -> 0 .. MaxGenerations]
  /\ queue \in [Messages -> Nat]
  /\ pc \in [Workers -> Steps]
  /\ held \in [Workers -> Messages \cup {NoMessage}]
  /\ \A w \in Workers : pc[w] # "idle" => held[w] \in Messages
  /\ tok \in [Workers -> Nat]
  /\ published \in [Jobs -> Nat]
  /\ lapses \in [Jobs -> Nat]
  /\ faults \in Nat

(***************************************************************************)
(* Job, result and quota are settled together, whatever the interleaving;  *)
(* a share is never rejected by a critic and never charged.  After a       *)
(* deletion subject keeps the last status of the row.                      *)
(***************************************************************************)
SettledTogether ==
  \A j \in Jobs :
    /\ job[j].status = "COMPLETED" <=> subject[j] = "COMPLETED"
    /\ job[j].status = "FAILED_FINAL" <=> subject[j] \in {"FAILED", "REJECTED_BY_CRITIC"}
    /\ IF kind[j] = "share"
         THEN reservation[j] = "NONE" /\ subject[j] # "REJECTED_BY_CRITIC"
         ELSE /\ job[j].status = "COMPLETED" <=> reservation[j] = "COMMITTED"
              /\ job[j].status = "FAILED_FINAL" <=> reservation[j] = "RELEASED"

(***************************************************************************)
(* The image of a completed job is in COS and is the one its latest        *)
(* execution made: a worker that was taken over neither overwrites it nor  *)
(* has its own image shown.  While a deletion is removing it, the row      *)
(* still names the missing object.                                         *)
(***************************************************************************)
ImageOfLatestClaim ==
  \A j \in Jobs :
    job[j].status = "COMPLETED" /\ HasContext(j) =>
      /\ asset[j] = claims[j]
      /\ asset[j] \in objects[j] \/ deleting[j]

(***************************************************************************)
(* Once nobody executes the job, an object that no row names has a cause:  *)
(* a lapsed lease, a fault or a deletion for each.  Retries, duplicate     *)
(* messages and rejected images alone leave nothing behind in COS.         *)
(***************************************************************************)
Orphans(j) == objects[j] \ {asset[j]}

Completing(j) == {w \in Workers : pc[w] = "complete" /\ held[w].job = j}

OrphansExplained ==
  \A j \in Jobs : Cardinality(Orphans(j)) <= Cardinality(Completing(j)) + lapses[j] + faults

(***************************************************************************)
(* What the acceptance list promises of a photo deletion: once it is done  *)
(* and nobody executes the job any more, COS has no image made of it.  The *)
(* executor breaks this: an image put after the deletion's last look is    *)
(* named by no row, and a stale execution leaves it where it is.           *)
(***************************************************************************)
DeletedLeavesNoImage ==
  \A j \in Jobs :
    ~HasContext(j) /\ (\A w \in Workers : pc[w] # "idle" => held[w].job # j) => objects[j] = {}

(***************************************************************************)
(* The refinement.  A share has no reservation: its charge is the status   *)
(* of its own row.                                                         *)
(***************************************************************************)
Verdict(row) ==
  CASE row.status = "COMPLETED"    -> "succeeded"
    [] row.status = "FAILED_FINAL" -> "failed"
    [] OTHER                       -> "open"

Charge(j) ==
  CASE kind[j] = "optimization"  -> reservation[j]
    [] subject[j] = "PENDING"    -> "RESERVED"
    [] subject[j] = "COMPLETED"  -> "COMMITTED"
    [] OTHER                     -> "RELEASED"

Contract == INSTANCE JobContract
  WITH epoch <- claims,
       verdict <- [j \in Jobs |-> Verdict(job[j])],
       charge <- [j \in Jobs |-> Charge(j)]

KeepsContract == Contract!Spec
=============================================================================
