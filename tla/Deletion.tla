------------------------------ MODULE Deletion ------------------------------
(***************************************************************************)
(* Photo and account deletion for one user: the API requests that ask for  *)
(* it (governance/deletion_service.py), the DeletionExecutor in the Celery *)
(* task of JobExecution, and what goes on meanwhile: uploads               *)
(* (assets/service.py), images derived from a photo, feedback.             *)
(*                                                                         *)
(* A deletion removes objects from COS one at a time, looks again under a  *)
(* lock whether there are more, and only then purges the rows that name    *)
(* them.  A request reads (its user, an asset, the latest deletion) and    *)
(* writes later, without a lock in between; MediaExecution has the steps   *)
(* of an executor that derives an image, here they are one.                *)
(*                                                                         *)
(* Jobs are deletion jobs, numbered in the order of created_at (the start  *)
(* of the request's transaction), and every request has a fresh            *)
(* idempotency key.  Of other requests that are alike one is under way at  *)
(* once.  Definitions named Bug_X are plausible mistakes in the definition *)
(* that follows; the specification never uses them.                        *)
(***************************************************************************)
EXTENDS JobExecution, FiniteSets

CONSTANTS Assets,      \* keys of uploads and derived images
          NoAsset,     \* no source: the asset is an upload
          SourceOf,    \* the asset a derived image is made from
          Account,     \* the target of an account deletion
          MaxRequests, \* bound: API requests that run at once
          Operations,  \* bound: what the client asks for
          MaxRounds,   \* looks before the executor gives up (5)
          MaxLapses,   \* bound: leases that lapse
          MaxLoad      \* bound: deletions, at 2 each, faults and lapses together

ASSUME NumberedAssumption == Jobs \subseteq Nat \ {0}
ASSUME AssetsAssumption ==
  /\ NoAsset \notin Assets \cup {Account} /\ Account \notin Assets
  /\ SourceOf \in [Assets -> Assets \cup {NoAsset}]
ASSUME RoundsAssumption ==
  MaxRounds \in Nat \ {0} /\ {MaxRequests, MaxLapses, MaxLoad} \subseteq Nat

VARIABLES
  user,      \* users.status
  asset,     \* user_assets.status, "NONE" before the row, "PURGED" after it
  object,    \* what COS has under the key, see below
  making,    \* derived images whose job is under way
  feedback,  \* beta_feedback has a row of the user
  requests,  \* under way: what each read before its writes
  target,    \* what each deletion is of
  deletion,  \* deletion_jobs.status, "NONE" before the row, "GONE" after it
  job,       \* generation_jobs rows of the deletions
  claims,    \* execution tokens drawn per deletion
  keys,      \* per worker: keys it has still to delete
  wiped,     \* per worker: keys it deleted in this execution
  rounds,    \* per worker: looks that found more keys
  lapses     \* leases that lapsed so far

data == <<user, asset, object, making, feedback>>
ledger == <<target, deletion, job, claims>>
progress == <<keys, wiped, rounds>>
vars == <<data, requests, ledger, progress, delivery, lapses>>

(***************************************************************************)
(* An object is "none" until the first PUT, "wiped" once a deletion        *)
(* removed it, and "rewritten" by a PUT after that.                        *)
(***************************************************************************)
Objects == {"none", "stored", "wiped", "rewritten"}

AssetStatuses == {"UPLOADING", "READY", "FAILED", "DELETION_PENDING"}

Present == {a \in Assets : asset[a] \in AssetStatuses}

Source(a) == IF a \in Assets THEN SourceOf[a] ELSE NoAsset

(***************************************************************************)
(* A photo, a result made from it, a card made of the result.              *)
(***************************************************************************)
ASSUME DepthAssumption == \A a \in Assets : Source(Source(Source(a))) = NoAsset

Targets == Assets \cup {Account}

HasContext(d) == deletion[d] \notin {"NONE", "GONE"}

Steps == {"idle", "prepare", "delete", "mark", "raised", "ack"}
-----------------------------------------------------------------------------
Init ==
  /\ user = "ACTIVE"
  /\ asset = [a \in Assets |-> "NONE"]
  /\ object = [a \in Assets |-> "none"]
  /\ making = {}
  /\ feedback = FALSE
  /\ requests = {}
  /\ target = [d \in Jobs |-> Account]
  /\ deletion = [d \in Jobs |-> "NONE"]
  /\ job = [d \in Jobs |-> NewJob]
  /\ claims = [d \in Jobs |-> 0]
  /\ keys = [w \in Workers |-> {}]
  /\ wiped = [w \in Workers |-> {}]
  /\ rounds = [w \in Workers |-> 0]
  /\ lapses = 0
  /\ InitDelivery

Created == {d \in Jobs : deletion[d] # "NONE"}

Numbered == Created \cup {r.job : r \in {q \in requests : q.op = "delete"}}

RoomFor(load) ==
  2 * Cardinality(Numbered) + faults + lapses + load <= MaxLoad

Disturbed(kind) == RoomFor(1) /\ Fault(kind)

Executors == UNCHANGED <<progress, delivery, lapses>>

Begin(r) ==
  /\ Cardinality(requests) < MaxRequests
  /\ r.op \in Operations
  /\ requests' = requests \cup {r}
  /\ UNCHANGED <<data, ledger>> /\ Executors

(***************************************************************************)
(* A request commits, or fails for whatever reason and is rolled back.     *)
(***************************************************************************)
End(r) == requests' = requests \ {r}

RequestFails(r) ==
  /\ End(r)
  /\ UNCHANGED <<data, ledger>> /\ Executors
-----------------------------------------------------------------------------
(***************************************************************************)
(* current_user: the status is read once, without a lock.                  *)
(***************************************************************************)
CurrentUser == user = "ACTIVE"

(***************************************************************************)
(* Requests that read nothing else: an upload ticket, a diagnosis (and     *)
(* what is made from it), feedback.  Keys bound the first two.             *)
(***************************************************************************)
Unused == {a \in Assets : asset[a] = "NONE"}

Authenticate(op) ==
  /\ CurrentUser
  /\ op = "ticket" => \E a \in Unused : SourceOf[a] = NoAsset
  /\ op = "derive" => \E a \in Unused \ making : SourceOf[a] # NoAsset
  /\ op = "feedback" => ~feedback
  /\ Begin([op |-> op])

CreateUploadTicket(r) ==
  /\ r.op = "ticket"
  /\ \E a \in Unused :
       /\ SourceOf[a] = NoAsset
       /\ asset' = [asset EXCEPT ![a] = "UPLOADING"]
  /\ End(r)
  /\ UNCHANGED <<user, object, making, feedback, ledger>> /\ Executors

(***************************************************************************)
(* The client PUTs to the presigned URL, which knows nothing of the row.   *)
(* Its lifetime is not modelled: an upload may come late.                  *)
(***************************************************************************)
Written(content) == IF content \in {"none", "stored"} THEN "stored" ELSE "rewritten"

Upload(a) ==
  /\ SourceOf[a] = NoAsset
  /\ asset[a] # "NONE"
  /\ object' = [object EXCEPT ![a] = Written(@)]
  /\ UNCHANGED <<user, asset, making, feedback, requests, ledger>> /\ Executors

(***************************************************************************)
(* complete_upload reads the row, reads the object, and writes the row by  *)
(* its primary key whatever it says by then; a row that is gone makes the  *)
(* flush fail.                                                             *)
(***************************************************************************)
Bug_Upsert(a) == asset[a] # "NONE"

Writable(a) == a \in Present

ReadUpload(a) ==
  /\ CurrentUser
  /\ asset[a] = "UPLOADING"
  /\ Begin([op |-> "complete", asset |-> a])

ReadObject(r) ==
  /\ r.op = "complete"
  /\ object[r.asset] \in {"stored", "rewritten"}
  /\ requests' = (requests \ {r}) \cup {[r EXCEPT !.op = "validated"]}
  /\ UNCHANGED <<data, ledger>> /\ Executors

CompleteUpload(r) ==
  /\ r.op = "validated"
  /\ Writable(r.asset)
  /\ \E verdict \in {"READY", "FAILED"} : asset' = [asset EXCEPT ![r.asset] = verdict]
  /\ End(r)
  /\ UNCHANGED <<user, object, making, feedback, ledger>> /\ Executors

(***************************************************************************)
(* A request that starts the making of a derived image locks its READY     *)
(* source; the image appears if the source is still there when it is done. *)
(***************************************************************************)
StartDerived(r) ==
  /\ r.op = "derive"
  /\ \E a \in Assets :
       /\ Source(a) \in Assets
       /\ asset[Source(a)] = "READY"
       /\ asset[a] = "NONE"
       /\ making' = making \cup {a}
  /\ End(r)
  /\ UNCHANGED <<user, asset, object, feedback, ledger>> /\ Executors

FinishDerived(a) ==
  /\ a \in making
  /\ making' = making \ {a}
  /\ IF Source(a) \in Present
       THEN /\ asset' = [asset EXCEPT ![a] = "READY"]
            /\ object' = [object EXCEPT ![a] = Written(@)]
       ELSE UNCHANGED <<asset, object>>
  /\ UNCHANGED <<user, feedback, requests, ledger>> /\ Executors

CreateFeedback(r) ==
  /\ r.op = "feedback"
  /\ feedback' = TRUE
  /\ End(r)
  /\ UNCHANGED <<user, asset, object, making, ledger>> /\ Executors
-----------------------------------------------------------------------------
(***************************************************************************)
(* A deletion is asked for.  The latest one of the same target is returned *)
(* instead unless it failed for good; nothing is locked until then.        *)
(***************************************************************************)
Of(t) == {d \in Jobs : HasContext(d) /\ target[d] = t}

Latest(t) == CHOOSE d \in Of(t) : \A e \in Of(t) : e <= d

MayAsk(t) == Of(t) # {} => deletion[Latest(t)] = "FAILED_FINAL"

AskDeletion(t, d) ==
  /\ IF t = Account THEN user # "DELETED" ELSE CurrentUser /\ t \in Present
  /\ MayAsk(t)
  /\ d \notin Numbered /\ \A e \in Created : e < d
  /\ RoomFor(2)
  /\ Begin([op |-> "delete", target |-> t, user |-> user, job |-> d])

(***************************************************************************)
(* Then the job and the deletion are inserted, a photo (under its lock) or *)
(* the user is marked.  The ORM writes the user's status only if the       *)
(* request read another one.                                               *)
(***************************************************************************)
InsertDeletion(r) ==
  /\ r.op = "delete"
  /\ deletion' = [deletion EXCEPT ![r.job] = "PENDING"]
  /\ target' = [target EXCEPT ![r.job] = r.target]
  /\ End(r)
  /\ UNCHANGED <<job, claims, object, making, feedback>> /\ Executors

RequestAccountDeletion(r) ==
  /\ InsertDeletion(r)
  /\ r.target = Account
  /\ user' = IF r.user = "DELETION_PENDING" THEN user ELSE "DELETION_PENDING"
  /\ UNCHANGED asset

RequestPhotoDeletion(r) ==
  /\ InsertDeletion(r)
  /\ r.target \in Present
  /\ asset' = [asset EXCEPT ![r.target] = "DELETION_PENDING"]
  /\ UNCHANGED user
-----------------------------------------------------------------------------
(***************************************************************************)
(* What a deletion covers.  A photo has results, a result has cards:       *)
(* asset_deletion_plan follows the rows twice.                             *)
(***************************************************************************)
Covered(t) == {a \in Assets : t \in {Account, a, Source(a), Source(Source(a))}}

Plan(t) == IF t = Account \/ t \in Present THEN Covered(t) \cap Present ELSE {}

Outside == UNCHANGED <<data, requests>>

(***************************************************************************)
(* The transactions of a worker read and write the rows under their locks. *)
(***************************************************************************)
MayClaim(d) == HasContext(d) /\ deletion[d] # "COMPLETED" /\ Claimable(job[d])

Forget(w) ==
  /\ keys' = [keys EXCEPT ![w] = {}]
  /\ wiped' = [wiped EXCEPT ![w] = {}]
  /\ rounds' = [rounds EXCEPT ![w] = 0]

PrepareSkip(w) ==
  /\ pc[w] = "prepare"
  /\ ~MayClaim(held[w].job)
  /\ Goto(w, "ack")
  /\ Outside /\ UNCHANGED <<ledger, progress, queue, published, faults, lapses>>

ClaimWrites(d) ==
  /\ job' = [job EXCEPT ![d] = Claimed(@, claims[d] + 1)]
  /\ claims' = [claims EXCEPT ![d] = @ + 1]
  /\ deletion' = [deletion EXCEPT ![d] = "PROCESSING"]
  /\ UNCHANGED target

PrepareClaim(w) ==
  LET d == held[w].job IN
  /\ pc[w] = "prepare"
  /\ MayClaim(d)
  /\ ClaimWrites(d)
  /\ keys' = [keys EXCEPT ![w] = Plan(target[d])]
  /\ wiped' = [wiped EXCEPT ![w] = {}]
  /\ rounds' = [rounds EXCEPT ![w] = 0]
  /\ pc' = [pc EXCEPT ![w] = "delete"]
  /\ tok' = [tok EXCEPT ![w] = claims[d] + 1]
  /\ Outside /\ UNCHANGED <<queue, held, published, faults, lapses>>

(***************************************************************************)
(* An exception in _prepare is retried without a token, whether or not its *)
(* commit went through.                                                    *)
(***************************************************************************)
PrepareError(w) ==
  /\ pc[w] = "prepare"
  /\ \/ Disturbed("prepare_error") /\ UNCHANGED ledger
     \/ Disturbed("prepare_ack_lost") /\ MayClaim(held[w].job) /\ ClaimWrites(held[w].job)
  /\ Goto(w, "raised")
  /\ Outside /\ UNCHANGED <<progress, queue, published, lapses>>

DeleteObject(w, a) ==
  /\ pc[w] = "delete"
  /\ a \in keys[w]
  /\ object' = [object EXCEPT ![a] = "wiped"]
  /\ keys' = [keys EXCEPT ![w] = @ \ {a}]
  /\ wiped' = [wiped EXCEPT ![w] = @ \cup {a}]
  /\ UNCHANGED <<user, asset, making, feedback, requests, ledger, rounds, delivery, lapses>>

StorageFails(w) ==
  /\ pc[w] = "delete"
  /\ keys[w] # {}
  /\ Goto(w, "mark")
  /\ Forget(w)
  /\ Outside /\ UNCHANGED <<ledger, queue, published, faults, lapses>>

(***************************************************************************)
(* purge_asset_plan and purge_account.  An account deletion takes every    *)
(* other deletion and job of the user with it.                             *)
(***************************************************************************)
PurgedRows(t) == [a \in Assets |-> IF a \in Plan(t) THEN "PURGED" ELSE asset[a]]

Purge(d) ==
  /\ asset' = PurgedRows(target[d])
  /\ job' = [job EXCEPT ![d] = Completed(@)]
  /\ IF target[d] = Account
       THEN /\ user' = "DELETED"
            /\ making' = {}
            /\ deletion' = [e \in Jobs |-> IF e = d THEN "COMPLETED"
                                           ELSE IF HasContext(e) THEN "GONE" ELSE deletion[e]]
       ELSE /\ deletion' = [deletion EXCEPT ![d] = "COMPLETED"]
            /\ UNCHANGED <<user, making>>
  /\ UNCHANGED <<object, feedback, requests, target, claims>>

IsExecuting(d, token) == HasContext(d) /\ Executing(job[d], token)

(***************************************************************************)
(* _complete_if_stable, when everything known has been deleted.            *)
(***************************************************************************)
Bug_NoSecondLook(w) == {}

Additional(w) == Plan(target[held[w].job]) \ wiped[w]

Deciding(w) == pc[w] = "delete" /\ keys[w] = {}

Stale(w) ==
  /\ Deciding(w)
  /\ ~IsExecuting(held[w].job, tok[w])
  /\ Goto(w, "ack")
  /\ Forget(w)
  /\ Outside /\ UNCHANGED <<ledger, queue, published, faults, lapses>>

FindMore(w) ==
  /\ Deciding(w)
  /\ IsExecuting(held[w].job, tok[w])
  /\ Additional(w) # {}
  /\ IF rounds[w] + 1 < MaxRounds
       THEN /\ rounds' = [rounds EXCEPT ![w] = @ + 1]
            /\ keys' = [keys EXCEPT ![w] = Additional(w)]
            /\ UNCHANGED <<wiped, procs>>
       ELSE Goto(w, "mark") /\ Forget(w)
  /\ Outside /\ UNCHANGED <<ledger, queue, published, faults, lapses>>

CompleteWrites(w) ==
  /\ Deciding(w)
  /\ IsExecuting(held[w].job, tok[w])
  /\ Additional(w) = {}
  /\ Purge(held[w].job)

Complete(w) ==
  /\ CompleteWrites(w)
  /\ Goto(w, "ack")
  /\ Forget(w)
  /\ UNCHANGED <<queue, published, faults, lapses>>

(***************************************************************************)
(* The transaction fails (it may lose a deadlock with an executor that     *)
(* locked a job first and needs the user's row), or it went through and    *)
(* its answer is lost.                                                     *)
(***************************************************************************)
OutcomeError(w) ==
  /\ Deciding(w)
  /\ \/ Disturbed("outcome_error") /\ Outside /\ UNCHANGED ledger
     \/ Disturbed("outcome_ack_lost") /\ CompleteWrites(w)
  /\ Goto(w, "mark")
  /\ Forget(w)
  /\ UNCHANGED <<queue, published, lapses>>

MayMark(d, token) == HasContext(d) /\ Retryable(job[d], token)

MarkWrites(d) ==
  /\ job' = [job EXCEPT ![d] = Transition(@, "FAILED_RETRYABLE")]
  /\ deletion' = [deletion EXCEPT ![d] = "FAILED_RETRYABLE"]
  /\ UNCHANGED <<target, claims>>

MarkRetryable(w) ==
  LET d == held[w].job IN
  /\ pc[w] = "mark"
  /\ IF MayMark(d, tok[w])
       THEN MarkWrites(d) /\ Goto(w, "raised")
       ELSE UNCHANGED ledger /\ Goto(w, "ack")
  /\ Outside /\ UNCHANGED <<progress, queue, published, faults, lapses>>

(***************************************************************************)
(* An exception of _mark_retryable, before or after its commit, leaves run *)
(* as it is: the task has no retry for it, fails and is acknowledged.      *)
(***************************************************************************)
MarkError(w) ==
  LET d == held[w].job IN
  /\ pc[w] = "mark"
  /\ Disturbed("mark_error")
  /\ UNCHANGED ledger \/ (MayMark(d, tok[w]) /\ MarkWrites(d))
  /\ Goto(w, "ack")
  /\ Outside /\ UNCHANGED <<progress, queue, published, lapses>>

(***************************************************************************)
(* run_deletion: retry, which may fail to be published, then               *)
(* finalize_failure, whose exception fails the task as well.               *)
(***************************************************************************)
Retry(w) == PublishRetry(w) /\ Outside /\ UNCHANGED <<ledger, progress, lapses>>

RetryUnpublished(w) ==
  RoomFor(1) /\ LoseRetry(w) /\ Outside /\ UNCHANGED <<ledger, progress, lapses>>

MayFinalize(d, token) == HasContext(d) /\ Finalizable(job[d], token)

Bug_FinalizeJobOnly(d) == deletion

FinalizedDeletion(d) == [deletion EXCEPT ![d] = "FAILED_FINAL"]

FinalizeWrites(d) ==
  /\ job' = [job EXCEPT ![d] = FailedFinal(@)]
  /\ deletion' = FinalizedDeletion(d)
  /\ UNCHANGED <<target, claims>>

Exhausted(w) == pc[w] = "raised" /\ RetriesExhausted(w)

Exhaust(w) ==
  LET d == held[w].job IN
  /\ Exhausted(w)
  /\ IF MayFinalize(d, tok[w]) THEN FinalizeWrites(d) ELSE UNCHANGED ledger
  /\ Goto(w, "ack")
  /\ Outside /\ UNCHANGED <<progress, queue, published, faults, lapses>>

FinalizeError(w) ==
  LET d == held[w].job IN
  /\ Exhausted(w)
  /\ Disturbed("finalize_error")
  /\ UNCHANGED ledger \/ (MayFinalize(d, tok[w]) /\ FinalizeWrites(d))
  /\ Goto(w, "ack")
  /\ Outside /\ UNCHANGED <<progress, queue, published, lapses>>

WorkerLost(w) == RoomFor(1) /\ LoseWorker(w) /\ Forget(w) /\ Outside /\ UNCHANGED <<ledger, lapses>>

Ack(w) == Acknowledge(w) /\ Outside /\ UNCHANGED <<ledger, progress, lapses>>
-----------------------------------------------------------------------------
(***************************************************************************)
(* purge_account deletes the outbox event of its own job as well.          *)
(***************************************************************************)
Publish(d) ==
  /\ HasContext(d)
  /\ target[d] = Account => deletion[d] # "COMPLETED"
  /\ SendEvent(d)
  /\ Outside /\ UNCHANGED <<ledger, progress, lapses>>

Deliver(w, m) == Take(w, m) /\ Outside /\ UNCHANGED <<ledger, progress, lapses>>

LapseLease(d) ==
  /\ LeaseHolds(job[d])
  /\ lapses < MaxLapses /\ RoomFor(1)
  /\ job' = [job EXCEPT ![d].lease = "lapsed"]
  /\ lapses' = lapses + 1
  /\ Outside /\ UNCHANGED <<target, deletion, claims, progress, delivery>>
-----------------------------------------------------------------------------
WorkerStep(w) ==
  \/ PrepareSkip(w)
  \/ PrepareClaim(w)
  \/ PrepareError(w)
  \/ \E a \in Assets : DeleteObject(w, a)
  \/ StorageFails(w)
  \/ Stale(w)
  \/ FindMore(w)
  \/ Complete(w)
  \/ OutcomeError(w)
  \/ MarkRetryable(w)
  \/ MarkError(w)
  \/ Retry(w)
  \/ RetryUnpublished(w)
  \/ Exhaust(w)
  \/ FinalizeError(w)
  \/ Ack(w)

RequestStep(r) ==
  \/ CreateUploadTicket(r)
  \/ ReadObject(r)
  \/ CompleteUpload(r)
  \/ StartDerived(r)
  \/ CreateFeedback(r)
  \/ RequestAccountDeletion(r)
  \/ RequestPhotoDeletion(r)
  \/ RequestFails(r)

Next ==
  \/ \E op \in {"ticket", "derive", "feedback"} : Authenticate(op)
  \/ \E t \in Targets, d \in Jobs : AskDeletion(t, d)
  \/ \E r \in requests : RequestStep(r)
  \/ \E a \in Assets : ReadUpload(a) \/ Upload(a) \/ FinishDerived(a)
  \/ \E d \in Jobs : Publish(d) \/ LapseLease(d)
  \/ \E w \in Workers : \/ \E m \in Messages : Deliver(w, m)
                        \/ WorkerStep(w)
                        \/ WorkerLost(w)

Spec == Init /\ [][Next]_vars

(***************************************************************************)
(* As in DiagnosisExecution: the outbox sends an event, the broker         *)
(* delivers, and a task under way goes on.                                 *)
(***************************************************************************)
FairSpec ==
  /\ Spec
  /\ \A d \in Jobs : WF_vars(published[d] = 0 /\ Publish(d))
  /\ WF_vars(\E w \in Workers, m \in Messages : Deliver(w, m))
  /\ \A w \in Workers : WF_vars(WorkerStep(w))
-----------------------------------------------------------------------------
UserStatuses == {"ACTIVE", "DELETION_PENDING", "DELETED"}

Requests ==
  [op : {"ticket", "derive", "feedback"}]
    \cup [op : {"complete", "validated"}, asset : Assets]
    \cup [op : {"delete"}, target : Targets, user : UserStatuses, job : Jobs]

DeletionStatuses == {"PENDING", "PROCESSING", "FAILED_RETRYABLE", "COMPLETED", "FAILED_FINAL"}

TypeOK ==
  /\ user \in UserStatuses
  /\ asset \in [Assets -> AssetStatuses \cup {"NONE", "PURGED"}]
  /\ object \in [Assets -> Objects]
  /\ making \subseteq Assets
  /\ requests \subseteq Requests
  /\ feedback \in BOOLEAN
  /\ target \in [Jobs -> Targets]
  /\ deletion \in [Jobs -> DeletionStatuses \cup {"NONE", "GONE"}]
  /\ job \in [Jobs -> JobRows]
  /\ \A d \in Jobs : job[d].status \in CommittedStatuses
  /\ claims \in [Jobs -> Nat]
  /\ keys \in [Workers -> SUBSET Assets]
  /\ wiped \in [Workers -> SUBSET Assets]
  /\ rounds \in [Workers -> 0 .. MaxRounds]
  /\ queue \in [Messages -> Nat]
  /\ pc \in [Workers -> Steps]
  /\ held \in [Workers -> Messages \cup {NoMessage}]
  /\ \A w \in Workers : pc[w] # "idle" => held[w] \in Messages
  /\ tok \in [Workers -> Nat]
  /\ published \in [Jobs -> Nat]
  /\ lapses \in Nat
  /\ faults \in Nat

(***************************************************************************)
(* The client polls deletion_jobs.status while the workers decide on       *)
(* generation_jobs.status: two tables, written in nine places, never       *)
(* disagree.                                                               *)
(***************************************************************************)
StatusesAgree == \A d \in Jobs : HasContext(d) => deletion[d] = job[d].status

(***************************************************************************)
(* GOV-002: whatever requests, uploads and executors were under way when   *)
(* the account was purged, nothing the user could look at is left or comes *)
(* back: at most the row of an upload ticket, never an image that may be   *)
(* shown.                                                                  *)
(***************************************************************************)
NothingComesBack ==
  user = "DELETED" => \A a \in Assets : asset[a] \in {"NONE", "PURGED", "UPLOADING"}

(***************************************************************************)
(* Every deletion ends: it is completed, it fails for good, or an account  *)
(* deletion took its row.  What stays behind is no more than one deletion  *)
(* for each fault, and only in two ways: its claim can be settled by no    *)
(* task any more, because its worker died, never learnt of it or could not *)
(* write; or its last task ended without a message to follow, because it   *)
(* could not mark, publish the retry or finalize.                          *)
(***************************************************************************)
Ended(d) == deletion[d] \in {"COMPLETED", "FAILED_FINAL", "GONE"}

Underway(d) ==
  \/ published[d] = 0
  \/ \E m \in Messages : m.job = d /\ queue[m] > 0
  \/ \E w \in Workers : pc[w] # "idle" /\ held[w].job = d

Abandoned(d) ==
  IF deletion[d] = "PROCESSING"
    THEN \A w \in Workers : tok[w] # job[d].token
    ELSE ~Underway(d)

EveryDeletionEnds ==
  []<>(LET open == {d \in Created : ~Ended(d)} IN
         Cardinality(open) <= faults /\ \A d \in open : Abandoned(d))

(***************************************************************************)
(* docs/13, W6 Beta Feedback: deleting the account cleans the feedback.    *)
(***************************************************************************)
FeedbackCleaned == user = "DELETED" => ~feedback

(***************************************************************************)
(* The refinement: rows, objects and requests as Erasure sees them.        *)
(***************************************************************************)
Promise == INSTANCE Erasure
  WITH rows <- [a \in Assets |-> IF a \in Present THEN "live" ELSE
                                 IF asset[a] = "PURGED" THEN "erased" ELSE "none"],
       asked <- {target[d] : d \in {e \in Jobs : deletion[e] # "NONE"}}

KeepsPromise == Promise!Spec
=============================================================================
