--------------------------- MODULE DeletionProofs ---------------------------
(***************************************************************************)
(* Theorems about Deletion, for every number of assets, requests,          *)
(* deletions, workers, retries, rounds, lapsed leases and faults.          *)
(***************************************************************************)
EXTENDS Deletion, JobExecutionProofs

-----------------------------------------------------------------------------
(***************************************************************************)
(* Every step does at most one of these things to the user, the assets,    *)
(* the objects and the deletions.                                          *)
(***************************************************************************)
core == <<user, asset, object, making, target, deletion, job, claims>>

RowAdded(a) ==
  /\ asset[a] = "NONE" /\ SourceOf[a] = NoAsset
  /\ asset' = [asset EXCEPT ![a] = "UPLOADING"]
  /\ UNCHANGED <<user, object, making, target, deletion, job, claims>>

ObjectPut(a) ==
  /\ asset[a] # "NONE"
  /\ object' = [object EXCEPT ![a] = Written(@)]
  /\ UNCHANGED <<user, asset, making, target, deletion, job, claims>>

Judged(a) ==
  /\ a \in Present /\ user # "DELETED"
  /\ \E verdict \in {"READY", "FAILED"} : asset' = [asset EXCEPT ![a] = verdict]
  /\ UNCHANGED <<user, object, making, target, deletion, job, claims>>

MakingStarted(a) ==
  /\ asset[a] = "NONE" /\ Source(a) \in Assets /\ asset[Source(a)] = "READY"
  /\ making' = making \cup {a}
  /\ UNCHANGED <<user, asset, object, target, deletion, job, claims>>

ImageMade(a) ==
  /\ a \in making /\ Source(a) \in Present
  /\ making' = making \ {a}
  /\ asset' = [asset EXCEPT ![a] = "READY"]
  /\ object' = [object EXCEPT ![a] = Written(@)]
  /\ UNCHANGED <<user, target, deletion, job, claims>>

MakingDropped(a) ==
  /\ making' = making \ {a}
  /\ UNCHANGED <<user, asset, object, target, deletion, job, claims>>

DeletionAdded(d, t) ==
  /\ deletion[d] = "NONE"
  /\ deletion' = [deletion EXCEPT ![d] = "PENDING"]
  /\ target' = [target EXCEPT ![d] = t]
  /\ UNCHANGED <<object, making, job, claims>>

AccountAsked(d) ==
  /\ DeletionAdded(d, Account)
  /\ user' \in {user, "DELETION_PENDING"}
  /\ UNCHANGED asset

PhotoAsked(d, t) ==
  /\ DeletionAdded(d, t)
  /\ t \in Present /\ user # "DELETED"
  /\ asset' = [asset EXCEPT ![t] = "DELETION_PENDING"]
  /\ UNCHANGED user

ObjectWiped(a) ==
  /\ asset[a] # "NONE"
  /\ \E d \in Jobs : deletion[d] # "NONE" /\ a \in Covered(target[d])
  /\ object' = [object EXCEPT ![a] = "wiped"]
  /\ UNCHANGED <<user, asset, making, target, deletion, job, claims>>

Purged(d) ==
  /\ HasContext(d)
  /\ job[d].status = "PROCESSING"
  /\ \A a \in Plan(target[d]) : object[a] \in {"wiped", "rewritten"}
  /\ asset' = PurgedRows(target[d])
  /\ job' = [job EXCEPT ![d] =
               [status |-> "COMPLETED", retry_count |-> @.retry_count,
                token |-> NoToken, lease |-> "none"]]
  /\ IF target[d] = Account
       THEN /\ user' = "DELETED"
            /\ making' = {}
            /\ deletion' = [e \in Jobs |-> IF e = d THEN "COMPLETED"
                                           ELSE IF HasContext(e) THEN "GONE" ELSE deletion[e]]
       ELSE /\ deletion' = [deletion EXCEPT ![d] = "COMPLETED"]
            /\ UNCHANGED <<user, making>>
  /\ UNCHANGED <<object, target, claims>>

NextRetryCount(row) ==
  IF row.status = "PENDING" THEN row.retry_count ELSE row.retry_count + 1

DeletionClaimed(d) ==
  /\ HasContext(d)
  /\ job' = [job EXCEPT ![d] =
               [status |-> "PROCESSING", retry_count |-> NextRetryCount(@),
                token |-> claims[d] + 1, lease |-> "live"]]
  /\ claims' = [claims EXCEPT ![d] = @ + 1]
  /\ deletion' = [deletion EXCEPT ![d] = "PROCESSING"]
  /\ UNCHANGED <<user, asset, object, making, target>>

DeletionMarked(d) ==
  /\ HasContext(d)
  /\ job' = [job EXCEPT ![d] =
               [status |-> "FAILED_RETRYABLE", retry_count |-> @.retry_count,
                token |-> @.token, lease |-> @.lease]]
  /\ deletion' = [deletion EXCEPT ![d] = "FAILED_RETRYABLE"]
  /\ UNCHANGED <<user, asset, object, making, target, claims>>

DeletionFailed(d) ==
  /\ HasContext(d)
  /\ job' = [job EXCEPT ![d] =
               [status |-> "FAILED_FINAL", retry_count |-> @.retry_count,
                token |-> NoToken, lease |-> "none"]]
  /\ deletion' = [deletion EXCEPT ![d] = "FAILED_FINAL"]
  /\ UNCHANGED <<user, asset, object, making, target, claims>>

LeaseLapsed(d) ==
  /\ LeaseHolds(job[d])
  /\ job' = [job EXCEPT ![d].lease = "lapsed"]
  /\ UNCHANGED <<user, asset, object, making, target, deletion, claims>>

AssetStep(a) ==
  \/ RowAdded(a) \/ ObjectPut(a) \/ Judged(a) \/ MakingStarted(a)
  \/ ImageMade(a) \/ MakingDropped(a) \/ ObjectWiped(a)

DeletionStep(d) ==
  \/ AccountAsked(d) \/ (\E t \in Assets : PhotoAsked(d, t)) \/ Purged(d)
  \/ DeletionClaimed(d) \/ DeletionMarked(d) \/ DeletionFailed(d) \/ LeaseLapsed(d)

CoreStep == (\E a \in Assets : AssetStep(a)) \/ (\E d \in Jobs : DeletionStep(d))

CoreKept == UNCHANGED core
-----------------------------------------------------------------------------
(***************************************************************************)
(* The parts of the inductive invariant.                                   *)
(***************************************************************************)
CoreTypes ==
  /\ user \in UserStatuses
  /\ asset \in [Assets -> AssetStatuses \cup {"NONE", "PURGED"}]
  /\ object \in [Assets -> Objects]
  /\ making \subseteq Assets
  /\ target \in [Jobs -> Targets]
  /\ deletion \in [Jobs -> DeletionStatuses \cup {"NONE", "GONE"}]
  /\ job \in [Jobs -> JobRows]
  /\ \A d \in Jobs : job[d].status \in CommittedStatuses
  /\ claims \in [Jobs -> Nat]

(***************************************************************************)
(* An asset has no object before its row, a derived one appears later than *)
(* its source and goes no later, and a deletion's job waits for its row.   *)
(***************************************************************************)
RowsInOrder ==
  /\ \A a \in making : asset[a] = "NONE" /\ Source(a) \in Assets
  /\ \A a \in Assets : asset[a] = "NONE" => object[a] = "none"
  /\ \A a \in Present : Source(a) \in Assets => Source(a) \in Present
  /\ \A d \in Jobs : deletion[d] = "NONE" => job[d] = NewJob

(***************************************************************************)
(* What a request has read stays true as far as it matters: the row it     *)
(* names existed, and nobody else inserts its deletion.                    *)
(***************************************************************************)
Named(r) ==
  CASE r.op \in {"complete", "validated"} -> {r.asset}
    [] r.op = "delete"                    -> {r.target} \ {Account}
    [] OTHER                              -> {}

NamedExist == \A r \in requests : \A a \in Named(r) : asset[a] # "NONE"

NumbersUnused ==
  \A r \in requests : r.op = "delete" =>
    /\ deletion[r.job] = "NONE"
    /\ \A q \in requests : q.op = "delete" /\ q.job = r.job => q = r

(***************************************************************************)
(* Once the account is purged, no request names a row that is left, and no *)
(* image is being made.                                                    *)
(***************************************************************************)
NothingUnderway ==
  user = "DELETED" =>
    /\ making = {}
    /\ \A r \in requests : \A a \in Named(r) : asset[a] = "PURGED"

(***************************************************************************)
(* A worker only holds keys its deletion covers, and what it has wiped is  *)
(* gone, or was put again later.                                           *)
(***************************************************************************)
Wiping(w) ==
  /\ pc[w] = "delete" =>
       /\ deletion[held[w].job] # "NONE"
       /\ keys[w] \subseteq Covered(target[held[w].job])
  /\ \A a \in keys[w] \cup wiped[w] : asset[a] # "NONE"
  /\ \A a \in wiped[w] : object[a] \in {"wiped", "rewritten"}

AllWiping == \A w \in Workers : Wiping(w)

IInv ==
  /\ TypeOK
  /\ RowsInOrder
  /\ StatusesAgree
  /\ NamedExist
  /\ NumbersUnused
  /\ NothingComesBack
  /\ NothingUnderway
  /\ AllWiping
-----------------------------------------------------------------------------
LEMMA TypeParts ==
  ASSUME IInv
  PROVE  /\ CoreTypes
         /\ requests \subseteq Requests
         /\ \A w \in Workers : pc[w] # "idle" => held[w] \in Messages /\ held[w].job \in Jobs
BY DEF IInv, TypeOK, CoreTypes, Messages

LEMMA ClaimCore ==
  ASSUME CoreTypes, NEW d \in Jobs, MayClaim(d), ClaimWrites(d), UNCHANGED data
  PROVE  DeletionClaimed(d)
<1>1. job[d] \in JobRows /\ claims[d] + 1 \in Nat /\ HasContext(d)
  BY DEF CoreTypes, MayClaim
<1>2. job[d].status \in OpenStatuses
  BY DEF CoreTypes, MayClaim, Claimable, TerminalJobStatuses, CommittedStatuses,
         OpenStatuses
<1>3. Claimed(job[d], claims[d] + 1) =
        [status |-> "PROCESSING", retry_count |-> NextRetryCount(job[d]),
         token |-> claims[d] + 1, lease |-> "live"]
  BY <1>1, <1>2, ClaimedRow DEF NextRetryCount
<1>4. QED
  BY <1>1, <1>3 DEF ClaimWrites, DeletionClaimed, data

LEMMA PurgeCore ==
  ASSUME IInv, NEW w \in Workers, CompleteWrites(w)
  PROVE  held[w].job \in Jobs /\ Purged(held[w].job) /\ requests' = requests
<1> DEFINE d == held[w].job
<1>1. pc[w] = "delete" /\ IsExecuting(d, tok[w]) /\ Additional(w) = {} /\ Purge(d)
  BY DEF CompleteWrites, Deciding
<1>2. d \in Jobs /\ CoreTypes
  BY <1>1, TypeParts
<1>3. HasContext(d) /\ job[d].status = "PROCESSING" /\ job[d] \in JobRows
  BY <1>1, <1>2 DEF IsExecuting, Executing, CoreTypes
<1>4. Completed(job[d]) =
        [status |-> "COMPLETED", retry_count |-> job[d].retry_count,
         token |-> NoToken, lease |-> "none"]
  BY <1>3, CompletedRow
<1>5. \A a \in Plan(target[d]) : object[a] \in {"wiped", "rewritten"}
  BY <1>1 DEF Additional, IInv, AllWiping, Wiping
<1>6. QED
  BY <1>1, <1>2, <1>3, <1>4, <1>5 DEF Purge, Purged

LEMMA WorkerCore ==
  ASSUME IInv, NEW w \in Workers, WorkerStep(w)
  PROVE  (CoreKept \/ CoreStep) /\ requests' = requests
<1> DEFINE d == held[w].job
<1>0. CoreTypes /\ (pc[w] # "idle" => d \in Jobs)
  BY TypeParts
<1> USE DEF CoreStep, DeletionStep
<1>1. ASSUME pc[w] # "idle", MayClaim(d), ClaimWrites(d), Outside
      PROVE  CoreStep /\ requests' = requests
  BY <1>0, <1>1, ClaimCore DEF Outside
<1>2. CASE PrepareClaim(w) \/ PrepareError(w)
  BY <1>1, <1>2 DEF PrepareClaim, PrepareError, CoreKept, core, Outside, data, ledger
<1>3. CASE \E a \in Assets : DeleteObject(w, a)
  <2>1. PICK a \in Assets : DeleteObject(w, a)
    BY <1>3
  <2>2. pc[w] = "delete" /\ a \in keys[w] /\ Wiping(w) /\ d \in Jobs
    BY <2>1, <1>0 DEF DeleteObject, IInv, AllWiping
  <2>3. ObjectWiped(a) /\ requests' = requests
    BY <2>1, <2>2 DEF Wiping, ObjectWiped, DeleteObject, ledger
  <2>4. QED
    BY <2>3 DEF AssetStep
<1>4. CASE Complete(w) \/ OutcomeError(w)
  BY <1>4, PurgeCore DEF Complete, OutcomeError, CoreKept, core, Outside, data, ledger
<1>5. CASE MarkRetryable(w) \/ MarkError(w)
  <2>1. pc[w] = "mark" /\ Outside /\ (UNCHANGED ledger \/ (MayMark(d, tok[w]) /\ MarkWrites(d)))
    BY <1>5 DEF MarkRetryable, MarkError
  <2>2. CASE MayMark(d, tok[w]) /\ MarkWrites(d)
    <3>1. d \in Jobs /\ HasContext(d) /\ job[d].status = "PROCESSING" /\ job[d] \in JobRows
      BY <1>0, <2>1, <2>2 DEF MayMark, Retryable, RunningJobStatuses, CoreTypes,
                              CommittedStatuses
    <3>2. DeletionMarked(d) /\ requests' = requests
      BY <2>1, <2>2, <3>1, RetryableRow DEF MarkWrites, DeletionMarked, Outside, data
    <3>3. QED
      BY <3>1, <3>2
  <2>3. CASE UNCHANGED ledger
    BY <2>1, <2>3 DEF CoreKept, core, Outside, data, ledger
  <2>4. QED
    BY <2>1, <2>2, <2>3
<1>6. CASE Exhaust(w) \/ FinalizeError(w)
  <2>1. /\ pc[w] = "raised" /\ Outside
        /\ UNCHANGED ledger \/ (MayFinalize(d, tok[w]) /\ FinalizeWrites(d))
    BY <1>6 DEF Exhaust, FinalizeError, Exhausted
  <2>2. CASE MayFinalize(d, tok[w]) /\ FinalizeWrites(d)
    <3>1. d \in Jobs /\ HasContext(d) /\ job[d].status \in OpenStatuses /\ job[d] \in JobRows
      BY <1>0, <2>1, <2>2 DEF MayFinalize, Finalizable, CoreTypes, CommittedStatuses,
                              OpenStatuses
    <3>2. DeletionFailed(d) /\ requests' = requests
      BY <2>1, <2>2, <3>1, FailedRow
         DEF FinalizeWrites, FinalizedDeletion, DeletionFailed, Outside, data
    <3>3. QED
      BY <3>1, <3>2
  <2>3. CASE UNCHANGED ledger
    BY <2>1, <2>3 DEF CoreKept, core, Outside, data, ledger
  <2>4. QED
    BY <2>1, <2>2, <2>3
<1>7. CASE \/ PrepareSkip(w) \/ StorageFails(w) \/ Stale(w) \/ FindMore(w) \/ Retry(w)
           \/ RetryUnpublished(w) \/ Ack(w)
  BY <1>7 DEF PrepareSkip, StorageFails, Stale, FindMore, Retry, RetryUnpublished, Ack,
              CoreKept, core, Outside, data, ledger
<1>8. QED
  BY <1>2, <1>3, <1>4, <1>5, <1>6, <1>7 DEF WorkerStep

LEMMA RequestCore ==
  ASSUME IInv, NEW r \in requests, RequestStep(r)
  PROVE  CoreKept \/ CoreStep
<1>0. CoreTypes /\ r \in Requests
  BY TypeParts
<1> USE DEF CoreStep, AssetStep, DeletionStep
<1>1. CASE CreateUploadTicket(r)
  <2>1. PICK a \in Unused : SourceOf[a] = NoAsset /\ asset' = [asset EXCEPT ![a] = "UPLOADING"]
    BY <1>1 DEF CreateUploadTicket
  <2>2. a \in Assets /\ RowAdded(a)
    BY <1>1, <2>1 DEF CreateUploadTicket, Unused, RowAdded, ledger
  <2>3. QED
    BY <2>2
<1>2. CASE CompleteUpload(r)
  <2>1. r.asset \in Present /\ r.op = "validated"
    BY <1>2 DEF CompleteUpload, Writable
  <2>2. r.asset \in Assets /\ asset[r.asset] # "PURGED"
    BY <2>1 DEF Present, AssetStatuses
  <2>3. user # "DELETED"
    BY <2>1, <2>2 DEF IInv, NothingUnderway, Named
  <2>4. Judged(r.asset)
    BY <1>2, <2>1, <2>3 DEF CompleteUpload, Judged, ledger
  <2>5. QED
    BY <2>2, <2>4
<1>3. CASE StartDerived(r)
  BY <1>3 DEF StartDerived, MakingStarted, ledger
<1>4. CASE RequestAccountDeletion(r)
  <2>1. r.op = "delete" /\ r.target = Account
    BY <1>4 DEF RequestAccountDeletion, InsertDeletion
  <2>2. r.job \in Jobs /\ deletion[r.job] = "NONE"
    BY <1>0, <2>1 DEF Requests, IInv, NumbersUnused
  <2>3. AccountAsked(r.job)
    BY <1>4, <2>1, <2>2 DEF RequestAccountDeletion, InsertDeletion, AccountAsked, DeletionAdded
  <2>4. QED
    BY <2>2, <2>3
<1>5. CASE RequestPhotoDeletion(r)
  <2>1. r.op = "delete" /\ r.target \in Present
    BY <1>5 DEF RequestPhotoDeletion, InsertDeletion
  <2>2. r.job \in Jobs /\ deletion[r.job] = "NONE"
    BY <1>0, <2>1 DEF Requests, IInv, NumbersUnused
  <2>3. r.target \in Assets /\ asset[r.target] # "PURGED" /\ r.target # Account
    BY <2>1, AssetsAssumption DEF Present, AssetStatuses
  <2>4. user # "DELETED"
    BY <2>1, <2>3 DEF IInv, NothingUnderway, Named
  <2>5. PhotoAsked(r.job, r.target)
    BY <1>5, <2>1, <2>2, <2>4 DEF RequestPhotoDeletion, InsertDeletion, PhotoAsked, DeletionAdded
  <2>6. QED
    BY <2>2, <2>3, <2>5
<1>6. CASE ReadObject(r) \/ CreateFeedback(r) \/ RequestFails(r)
  BY <1>6 DEF ReadObject, CreateFeedback, RequestFails, CoreKept, core, data, ledger
<1>7. QED
  BY <1>1, <1>2, <1>3, <1>4, <1>5, <1>6 DEF RequestStep

LEMMA StepCore ==
  ASSUME IInv, [Next]_vars
  PROVE  CoreKept \/ CoreStep
<1>0. CoreTypes
  BY TypeParts
<1> USE DEF CoreStep, AssetStep, DeletionStep
<1>1. CASE \/ \E op \in {"ticket", "derive", "feedback"} : Authenticate(op)
           \/ \E t \in Targets, d \in Jobs : AskDeletion(t, d)
           \/ \E a \in Assets : ReadUpload(a)
  BY <1>1 DEF Authenticate, AskDeletion, ReadUpload, Begin, CoreKept, core, data, ledger
<1>2. ASSUME NEW a \in Assets, Upload(a)
      PROVE  CoreStep
  BY <1>2 DEF Upload, ObjectPut, ledger
<1>3. ASSUME NEW a \in Assets, FinishDerived(a)
      PROVE  CoreStep
  BY <1>3 DEF FinishDerived, ImageMade, MakingDropped, ledger
<1>4. ASSUME NEW d \in Jobs, Publish(d) \/ LapseLease(d)
      PROVE  CoreKept \/ CoreStep
  BY <1>4 DEF Publish, LapseLease, LeaseLapsed, CoreKept, core, Outside, data, ledger
<1>5. ASSUME NEW w \in Workers, WorkerLost(w) \/ \E m \in Messages : Deliver(w, m)
      PROVE  CoreKept
  BY <1>5 DEF WorkerLost, Deliver, CoreKept, core, Outside, data, ledger
<1>6. CASE UNCHANGED vars
  BY <1>6 DEF vars, CoreKept, core, data, ledger
<1>7. QED
  BY <1>1, <1>2, <1>3, <1>4, <1>5, <1>6, WorkerCore, RequestCore DEF Next
-----------------------------------------------------------------------------
(***************************************************************************)
(* What the core steps preserve.                                           *)
(***************************************************************************)
LEMMA CoreStepTypes ==
  ASSUME CoreTypes, CoreKept \/ CoreStep
  PROVE  CoreTypes'
<1> USE DEF CoreTypes, AssetStatuses
<1>1. CASE CoreKept
  BY <1>1 DEF CoreKept, core
<1>2. ASSUME NEW a \in Assets, AssetStep(a)
      PROVE  CoreTypes'
  <2>1. CASE RowAdded(a)
    BY <2>1 DEF RowAdded
  <2>2. CASE ObjectPut(a)
    BY <2>2 DEF ObjectPut, Written, Objects
  <2>3. CASE Judged(a)
    BY <2>3 DEF Judged
  <2>4. CASE MakingStarted(a)
    BY <2>4 DEF MakingStarted
  <2>5. CASE ImageMade(a)
    BY <2>5 DEF ImageMade, Written, Objects
  <2>6. CASE MakingDropped(a)
    BY <2>6 DEF MakingDropped
  <2>7. CASE ObjectWiped(a)
    BY <2>7 DEF ObjectWiped, Objects
  <2>8. QED
    BY <1>2, <2>1, <2>2, <2>3, <2>4, <2>5, <2>6, <2>7 DEF AssetStep
<1>3. ASSUME NEW d \in Jobs, DeletionStep(d)
      PROVE  CoreTypes'
  <2> USE DEF CommittedStatuses, JobRows, JobStatuses, Leases, NoToken, NextRetryCount,
              DeletionStatuses, UserStatuses, Targets
  <2>1. CASE AccountAsked(d)
    BY <2>1 DEF AccountAsked, DeletionAdded
  <2>2. ASSUME NEW t \in Assets, PhotoAsked(d, t)
        PROVE  CoreTypes'
    BY <2>2 DEF PhotoAsked, DeletionAdded
  <2>3. CASE Purged(d)
    <3>1. asset' \in [Assets -> AssetStatuses \cup {"NONE", "PURGED"}]
      BY <2>3 DEF Purged, PurgedRows
    <3>2. deletion' \in [Jobs -> DeletionStatuses \cup {"NONE", "GONE"}]
      BY <2>3 DEF Purged
    <3>3. job' \in [Jobs -> JobRows] /\ \A e \in Jobs : job'[e].status \in CommittedStatuses
      BY <2>3 DEF Purged
    <3>4. user' \in UserStatuses /\ making' \subseteq Assets
      BY <2>3 DEF Purged
    <3>5. QED
      BY <2>3, <3>1, <3>2, <3>3, <3>4 DEF Purged
  <2>4. CASE DeletionClaimed(d)
    BY <2>4 DEF DeletionClaimed
  <2>5. CASE DeletionMarked(d)
    BY <2>5 DEF DeletionMarked
  <2>6. CASE DeletionFailed(d)
    BY <2>6 DEF DeletionFailed
  <2>7. CASE LeaseLapsed(d)
    BY <2>7 DEF LeaseLapsed
  <2>8. QED
    BY <1>3, <2>1, <2>2, <2>3, <2>4, <2>5, <2>6, <2>7 DEF DeletionStep
<1>4. QED
  BY <1>1, <1>2, <1>3 DEF CoreStep

(***************************************************************************)
(* Nothing is undone: rows do not vanish without a trace, purged ones stay *)
(* so, wiped objects are at most put again, deletions keep their target.   *)
(***************************************************************************)
Lasting ==
  /\ \A a \in Assets :
       /\ asset[a] # "NONE" => asset'[a] # "NONE"
       /\ asset[a] = "PURGED" => asset'[a] = "PURGED"
       /\ object[a] \in {"wiped", "rewritten"} => object'[a] \in {"wiped", "rewritten"}
  /\ \A d \in Jobs :
       deletion[d] # "NONE" => deletion'[d] # "NONE" /\ target'[d] = target[d]

LEMMA CoreLasts ==
  ASSUME CoreTypes, RowsInOrder, CoreKept \/ CoreStep
  PROVE  Lasting
<1> USE DEF CoreTypes, Lasting
<1>1. CASE CoreKept
  BY <1>1 DEF CoreKept, core
<1>2. ASSUME NEW a \in Assets, AssetStep(a)
      PROVE  Lasting
  <2>1. CASE RowAdded(a)
    BY <2>1 DEF RowAdded
  <2>2. CASE ObjectPut(a)
    BY <2>2 DEF ObjectPut, Written
  <2>3. CASE Judged(a)
    BY <2>3 DEF Judged, Present, AssetStatuses
  <2>4. CASE MakingStarted(a)
    BY <2>4 DEF MakingStarted
  <2>5. CASE ImageMade(a)
    BY <2>5 DEF ImageMade, Written, RowsInOrder
  <2>6. CASE MakingDropped(a)
    BY <2>6 DEF MakingDropped
  <2>7. CASE ObjectWiped(a)
    BY <2>7 DEF ObjectWiped
  <2>8. QED
    BY <1>2, <2>1, <2>2, <2>3, <2>4, <2>5, <2>6, <2>7 DEF AssetStep
<1>3. ASSUME NEW d \in Jobs, DeletionStep(d)
      PROVE  Lasting
  <2>1. CASE AccountAsked(d)
    BY <2>1 DEF AccountAsked, DeletionAdded
  <2>2. ASSUME NEW t \in Assets, PhotoAsked(d, t)
        PROVE  Lasting
    BY <2>2 DEF PhotoAsked, DeletionAdded, Present, AssetStatuses
  <2>3. CASE Purged(d)
    <3>1. \A a \in Assets : asset'[a] \in {asset[a], "PURGED"}
      BY <2>3 DEF Purged, PurgedRows
    <3>2. \A e \in Jobs : deletion[e] # "NONE" => deletion'[e] # "NONE"
      BY <2>3 DEF Purged
    <3>3. QED
      BY <2>3, <3>1, <3>2 DEF Purged
  <2>4. CASE DeletionClaimed(d)
    BY <2>4 DEF DeletionClaimed
  <2>5. CASE DeletionMarked(d)
    BY <2>5 DEF DeletionMarked
  <2>6. CASE DeletionFailed(d)
    BY <2>6 DEF DeletionFailed
  <2>7. CASE LeaseLapsed(d)
    BY <2>7 DEF LeaseLapsed
  <2>8. QED
    BY <1>3, <2>1, <2>2, <2>3, <2>4, <2>5, <2>6, <2>7 DEF DeletionStep
<1>4. QED
  BY <1>1, <1>2, <1>3 DEF CoreStep

(***************************************************************************)
(* A purge takes the derived images along with their source: what is made  *)
(* from an image a deletion covers is covered too, down to the cards.      *)
(***************************************************************************)
LEMMA CoveredTogether ==
  ASSUME NEW t \in Targets, NEW a \in Assets, Source(a) \in Assets,
         Source(a) \in Covered(t)
  PROVE  a \in Covered(t)
<1>1. t \in {Account, Source(a), Source(Source(a)), Source(Source(Source(a)))}
  BY DEF Covered
<1>2. Source(Source(Source(a))) = NoAsset /\ NoAsset \notin Targets
  BY DepthAssumption, AssetsAssumption DEF Targets
<1>3. QED
  BY <1>1, <1>2 DEF Covered

LEMMA CoreStepOrder ==
  ASSUME CoreTypes, RowsInOrder, CoreKept \/ CoreStep
  PROVE  RowsInOrder'
<1> USE DEF CoreTypes, RowsInOrder, Present, AssetStatuses
<1>0. \A a : Source(a)' = Source(a)
  OBVIOUS
<1>1. CASE CoreKept
  BY <1>1 DEF CoreKept, core
<1>2. ASSUME NEW a \in Assets, AssetStep(a)
      PROVE  RowsInOrder'
  <2>1. CASE RowAdded(a)
    <3>1. Source(a) = NoAsset /\ NoAsset \notin Assets
      BY <2>1, AssetsAssumption DEF RowAdded, Source
    <3>2. QED
      BY <2>1, <3>1 DEF RowAdded
  <2>2. CASE ObjectPut(a)
    BY <2>2 DEF ObjectPut
  <2>3. CASE Judged(a)
    BY <2>3 DEF Judged
  <2>4. CASE MakingStarted(a)
    BY <2>4 DEF MakingStarted
  <2>5. CASE ImageMade(a)
    BY <2>5 DEF ImageMade
  <2>6. CASE MakingDropped(a)
    BY <2>6 DEF MakingDropped
  <2>7. CASE ObjectWiped(a)
    BY <2>7 DEF ObjectWiped
  <2>8. QED
    BY <1>2, <2>1, <2>2, <2>3, <2>4, <2>5, <2>6, <2>7 DEF AssetStep
<1>3. ASSUME NEW d \in Jobs, DeletionStep(d)
      PROVE  RowsInOrder'
  <2>1. CASE AccountAsked(d)
    BY <2>1 DEF AccountAsked, DeletionAdded
  <2>2. ASSUME NEW t \in Assets, PhotoAsked(d, t)
        PROVE  RowsInOrder'
    BY <2>2 DEF PhotoAsked, DeletionAdded
  <2>3. CASE Purged(d)
    <3>1. \A a \in Assets : asset'[a] = IF a \in Plan(target[d]) THEN "PURGED" ELSE asset[a]
      BY <2>3 DEF Purged, PurgedRows
    <3>2. Plan(target[d]) \subseteq Present
      BY DEF Plan
    <3>3. \A a \in making' : asset'[a] = "NONE" /\ Source(a) \in Assets
      BY <2>3, <3>1, <3>2 DEF Purged
    <3>4. \A a \in Assets : asset'[a] = "NONE" => object'[a] = "none"
      BY <2>3, <3>1 DEF Purged
    <3>5. ASSUME NEW a \in Present', Source(a) \in Assets
          PROVE  Source(a) \in Present'
      <4>1. a \in Present /\ a \notin Plan(target[d]) /\ Source(a) \in Present
        BY <3>1, <3>5
      <4>2. Source(a) \notin Plan(target[d])
        BY <4>1, <3>5, CoveredTogether DEF Plan
      <4>3. QED
        BY <3>1, <3>5, <4>1, <4>2
    <3>6. \A e \in Jobs : deletion'[e] = "NONE" => job'[e] = NewJob
      BY <2>3 DEF Purged, HasContext
    <3>7. QED
      BY <3>3, <3>4, <3>5, <3>6
  <2>4. CASE DeletionClaimed(d)
    BY <2>4 DEF DeletionClaimed, HasContext
  <2>5. CASE DeletionMarked(d)
    BY <2>5 DEF DeletionMarked, HasContext
  <2>6. CASE DeletionFailed(d)
    BY <2>6 DEF DeletionFailed, HasContext
  <2>7. CASE LeaseLapsed(d)
    BY <2>7 DEF LeaseLapsed, LeaseHolds, RunningJobStatuses, NewJob
  <2>8. QED
    BY <1>3, <2>1, <2>2, <2>3, <2>4, <2>5, <2>6, <2>7 DEF DeletionStep
<1>4. QED
  BY <1>1, <1>2, <1>3 DEF CoreStep

LEMMA CoreStepStatuses ==
  ASSUME CoreTypes, RowsInOrder, StatusesAgree, CoreKept \/ CoreStep
  PROVE  StatusesAgree'
<1> USE DEF CoreTypes, StatusesAgree, HasContext
<1>1. CASE CoreKept
  BY <1>1 DEF CoreKept, core
<1>2. ASSUME NEW a \in Assets, AssetStep(a)
      PROVE  StatusesAgree'
  BY <1>2 DEF AssetStep, RowAdded, ObjectPut, Judged, MakingStarted, ImageMade,
              MakingDropped, ObjectWiped
<1>3. ASSUME NEW d \in Jobs, DeletionStep(d)
      PROVE  StatusesAgree'
  <2>1. CASE AccountAsked(d)
    BY <2>1 DEF AccountAsked, DeletionAdded, RowsInOrder, NewJob
  <2>2. ASSUME NEW t \in Assets, PhotoAsked(d, t)
        PROVE  StatusesAgree'
    BY <2>2 DEF PhotoAsked, DeletionAdded, RowsInOrder, NewJob
  <2>3. CASE Purged(d)
    BY <2>3 DEF Purged
  <2>4. CASE DeletionClaimed(d)
    BY <2>4 DEF DeletionClaimed
  <2>5. CASE DeletionMarked(d)
    BY <2>5 DEF DeletionMarked
  <2>6. CASE DeletionFailed(d)
    BY <2>6 DEF DeletionFailed
  <2>7. CASE LeaseLapsed(d)
    BY <2>7 DEF LeaseLapsed, JobRows
  <2>8. QED
    BY <1>3, <2>1, <2>2, <2>3, <2>4, <2>5, <2>6, <2>7 DEF DeletionStep
<1>4. QED
  BY <1>1, <1>2, <1>3 DEF CoreStep

(***************************************************************************)
(* The step that purges the account takes every row; after it no step      *)
(* brings one back but an upload ticket's.                                 *)
(***************************************************************************)
LEMMA AccountPurge ==
  ASSUME CoreTypes, CoreStep, user # "DELETED", user' = "DELETED"
  PROVE  /\ making' = {}
         /\ \A a \in Assets : /\ asset[a] = "NONE" => asset'[a] = "NONE"
                              /\ asset[a] # "NONE" => asset'[a] = "PURGED"
<1> USE DEF CoreTypes
<1>1. ASSUME NEW a \in Assets, AssetStep(a)
      PROVE  FALSE
  BY <1>1 DEF AssetStep, RowAdded, ObjectPut, Judged, MakingStarted, ImageMade,
              MakingDropped, ObjectWiped
<1>2. PICK d \in Jobs : DeletionStep(d)
  BY <1>1 DEF CoreStep
<1>3. Purged(d) /\ target[d] = Account
  BY <1>2 DEF DeletionStep, AccountAsked, PhotoAsked, DeletionClaimed, DeletionMarked,
              DeletionFailed, LeaseLapsed, Purged
<1>4. Plan(Account) = Present
  BY DEF Plan, Covered, Present
<1>5. \A a \in Assets : asset'[a] = IF a \in Present THEN "PURGED" ELSE asset[a]
  BY <1>3, <1>4 DEF Purged, PurgedRows
<1>6. \A a \in Assets : asset[a] # "NONE" /\ a \notin Present => asset[a] = "PURGED"
  BY DEF Present, AssetStatuses
<1>7. "NONE" \notin AssetStatuses
  BY DEF AssetStatuses
<1>8. QED
  BY <1>3, <1>5, <1>6, <1>7 DEF Purged, Present

LEMMA AfterPurge ==
  ASSUME CoreTypes, NothingComesBack, user = "DELETED", making = {},
         CoreKept \/ CoreStep
  PROVE  /\ making' = {}
         /\ \A a \in Assets : asset'[a] \in {"NONE", "PURGED", "UPLOADING"}
<1> USE DEF CoreTypes, NothingComesBack
<1>1. CASE CoreKept
  BY <1>1 DEF CoreKept, core
<1>2. ASSUME NEW a \in Assets, AssetStep(a)
      PROVE  /\ making' = {}
             /\ \A b \in Assets : asset'[b] \in {"NONE", "PURGED", "UPLOADING"}
  BY <1>2 DEF AssetStep, RowAdded, ObjectPut, Judged, MakingStarted, ImageMade,
              MakingDropped, ObjectWiped
<1>3. ASSUME NEW d \in Jobs, DeletionStep(d)
      PROVE  /\ making' = {}
             /\ \A b \in Assets : asset'[b] \in {"NONE", "PURGED", "UPLOADING"}
  <2>1. CASE Purged(d)
    BY <2>1 DEF Purged, PurgedRows
  <2>2. CASE ~Purged(d)
    BY <1>3, <2>2 DEF DeletionStep, AccountAsked, PhotoAsked, DeletionAdded,
                      DeletionClaimed, DeletionMarked, DeletionFailed, LeaseLapsed
  <2>3. QED
    BY <2>1, <2>2
<1>4. QED
  BY <1>1, <1>2, <1>3 DEF CoreStep

LEMMA NextComesBack ==
  ASSUME CoreTypes, NothingComesBack, user = "DELETED" => making = {},
         CoreKept \/ CoreStep
  PROVE  NothingComesBack' /\ (user' = "DELETED" => making' = {})
<1>1. CASE user = "DELETED"
  BY <1>1, AfterPurge DEF NothingComesBack
<1>2. CASE user # "DELETED"
  <2>1. CASE CoreKept
    BY <1>2, <2>1 DEF CoreKept, core, NothingComesBack
  <2>2. CASE CoreStep
    BY <1>2, <2>2, AccountPurge DEF NothingComesBack
  <2>3. QED
    BY <2>1, <2>2
<1>3. QED
  BY <1>1, <1>2
-----------------------------------------------------------------------------
(***************************************************************************)
(* The requests: the rows one of them names were named before, or have     *)
(* just been read while the user was there.                                *)
(***************************************************************************)
JustRead(a) == asset[a] # "NONE" /\ UNCHANGED core /\ user # "DELETED"

NamesHeldBefore ==
  \A r \in requests' : \A a \in Named(r) :
    a \in Assets /\ (JustRead(a) \/ \E q \in requests : a \in Named(q))

LEMMA BeginNames ==
  ASSUME requests \subseteq Requests, NEW r \in Requests, Begin(r),
         \A a \in Named(r) : JustRead(a)
  PROVE  requests' \subseteq Requests /\ NamesHeldBefore
<1>1. requests' = requests \cup {r}
  BY DEF Begin
<1>2. \A q \in Requests : Named(q) \subseteq Assets
  BY DEF Requests, Named, Targets
<1>3. QED
  BY <1>1, <1>2 DEF NamesHeldBefore

LEMMA EndNames ==
  ASSUME requests \subseteq Requests, requests' \subseteq requests
  PROVE  requests' \subseteq Requests /\ NamesHeldBefore
<1>1. \A q \in Requests : Named(q) \subseteq Assets
  BY DEF Requests, Named, Targets
<1>2. QED
  BY <1>1 DEF NamesHeldBefore

LEMMA StepNames ==
  ASSUME IInv, [Next]_vars
  PROVE  requests' \subseteq Requests /\ NamesHeldBefore
<1>0. CoreTypes /\ requests \subseteq Requests
  BY TypeParts
<1>1. ASSUME NEW r \in Requests, Begin(r)
      PROVE  UNCHANGED core
  BY <1>1 DEF Begin, core, data, ledger
<1>2. ASSUME NEW op \in {"ticket", "derive", "feedback"}, Authenticate(op)
      PROVE  requests' \subseteq Requests /\ NamesHeldBefore
  <2>1. [op |-> op] \in Requests /\ Named([op |-> op]) = {} /\ Begin([op |-> op])
    BY <1>2 DEF Requests, Named, Authenticate
  <2>2. QED
    BY <1>0, <2>1, BeginNames
<1>3. ASSUME NEW a \in Assets, ReadUpload(a)
      PROVE  requests' \subseteq Requests /\ NamesHeldBefore
  <2> DEFINE r == [op |-> "complete", asset |-> a]
  <2>1. r \in Requests /\ Named(r) = {a} /\ Begin(r)
    BY <1>3 DEF Requests, Named, ReadUpload
  <2>2. asset[a] # "NONE" /\ user # "DELETED"
    BY <1>3 DEF ReadUpload, CurrentUser
  <2> HIDE DEF r
  <2>3. QED
    BY <1>0, <1>1, <2>1, <2>2, BeginNames DEF JustRead
<1>4. ASSUME NEW t \in Targets, NEW d \in Jobs, AskDeletion(t, d)
      PROVE  requests' \subseteq Requests /\ NamesHeldBefore
  <2> DEFINE r == [op |-> "delete", target |-> t, user |-> user, job |-> d]
  <2>1. r \in Requests /\ Named(r) = {t} \ {Account} /\ Begin(r)
    BY <1>4, <1>0 DEF Requests, Named, AskDeletion, CoreTypes
  <2>2. t # Account => asset[t] # "NONE" /\ user # "DELETED"
    BY <1>4 DEF AskDeletion, CurrentUser, Present, AssetStatuses
  <2> HIDE DEF r
  <2>3. QED
    BY <1>0, <1>1, <2>1, <2>2, BeginNames DEF JustRead
<1>5. ASSUME NEW r \in requests, ReadObject(r)
      PROVE  requests' \subseteq Requests /\ NamesHeldBefore
  <2> DEFINE q == [r EXCEPT !.op = "validated"]
  <2>1. r \in [op : {"complete", "validated"}, asset : Assets] /\ r.op = "complete"
    BY <1>0, <1>5 DEF ReadObject, Requests
  <2>2. q \in Requests /\ q.op = "validated" /\ q.asset = r.asset /\ r.asset \in Assets
    BY <2>1 DEF Requests
  <2>3. requests' = (requests \ {r}) \cup {q}
    BY <1>5 DEF ReadObject
  <2> HIDE DEF q
  <2>4. Named(q) = {r.asset} /\ Named(r) = {r.asset}
    BY <2>1, <2>2 DEF Named
  <2>5. \A p \in Requests : Named(p) \subseteq Assets
    BY DEF Requests, Named, Targets
  <2>6. QED
    BY <1>0, <2>2, <2>3, <2>4, <2>5 DEF NamesHeldBefore
<1>6. ASSUME NEW r \in requests, RequestStep(r), ~ReadObject(r)
      PROVE  requests' \subseteq requests
  BY <1>6 DEF RequestStep, CreateUploadTicket, CompleteUpload, StartDerived,
              CreateFeedback, RequestAccountDeletion, RequestPhotoDeletion,
              InsertDeletion, RequestFails, End
<1>7. ASSUME NEW a \in Assets, Upload(a) \/ FinishDerived(a)
      PROVE  requests' \subseteq requests
  BY <1>7 DEF Upload, FinishDerived
<1>8. ASSUME NEW d \in Jobs, Publish(d) \/ LapseLease(d)
      PROVE  requests' \subseteq requests
  BY <1>8 DEF Publish, LapseLease, Outside
<1>9. ASSUME NEW w \in Workers, WorkerLost(w) \/ \E m \in Messages : Deliver(w, m)
      PROVE  requests' \subseteq requests
  BY <1>9 DEF WorkerLost, Deliver, Outside
<1>10. CASE UNCHANGED vars
  BY <1>0, <1>10, EndNames DEF vars
<1>11. QED
  BY <1>0, <1>2, <1>3, <1>4, <1>5, <1>6, <1>7, <1>8, <1>9, <1>10, EndNames, WorkerCore
     DEF Next

LEMMA NamesStay ==
  ASSUME CoreTypes, Lasting, NamesHeldBefore, NamedExist
  PROVE  NamedExist'
<1> SUFFICES ASSUME NEW r \in requests', NEW a \in Named(r)
             PROVE  asset'[a] # "NONE"
  BY DEF NamedExist, Named
<1>1. a \in Assets
  BY DEF NamesHeldBefore
<1>2. asset[a] # "NONE"
  BY DEF NamesHeldBefore, JustRead, NamedExist
<1>3. QED
  BY <1>1, <1>2 DEF Lasting

LEMMA NothingNamedLeft ==
  ASSUME IInv, CoreTypes, Lasting, NamesHeldBefore, CoreKept \/ CoreStep,
         user' = "DELETED", NEW r \in requests', NEW a \in Named(r)
  PROVE  asset'[a] = "PURGED"
<1>1. a \in Assets
  BY DEF NamesHeldBefore
<1>2. PICK q \in requests : a \in Named(q)
  BY DEF NamesHeldBefore, JustRead, core
<1>3. CASE user = "DELETED"
  BY <1>1, <1>2, <1>3 DEF IInv, NothingUnderway, Lasting
<1>4. CASE user # "DELETED"
  <2>1. CoreStep
    BY <1>4 DEF CoreKept, core
  <2>2. asset[a] # "NONE"
    BY <1>2 DEF IInv, NamedExist
  <2>3. QED
    BY <1>1, <1>4, <2>1, <2>2, AccountPurge
<1>5. QED
  BY <1>3, <1>4
-----------------------------------------------------------------------------
(***************************************************************************)
(* A deletion is inserted by the one request that drew its number.         *)
(***************************************************************************)
Unborn(d) == deletion[d] = "NONE" => deletion'[d] = "NONE"

LEMMA WorkerNumbers ==
  ASSUME IInv, NEW w \in Workers, WorkerStep(w)
  PROVE  \A d \in Jobs : Unborn(d)
<1>1. deletion \in [Jobs -> DeletionStatuses \cup {"NONE", "GONE"}]
  BY TypeParts DEF CoreTypes
<1>2. ASSUME deletion' = deletion
      PROVE  \A d \in Jobs : Unborn(d)
  BY <1>2 DEF Unborn
<1>3. ASSUME NEW e, HasContext(e), NEW status, deletion' = [deletion EXCEPT ![e] = status]
      PROVE  \A d \in Jobs : Unborn(d)
  BY <1>1, <1>3 DEF Unborn, HasContext
<1>4. CASE PrepareClaim(w) \/ PrepareError(w)
  BY <1>2, <1>3, <1>4 DEF PrepareClaim, PrepareError, ClaimWrites, MayClaim, ledger
<1>5. ASSUME CompleteWrites(w)
      PROVE  \A d \in Jobs : Unborn(d)
  <2>1. held[w].job \in Jobs /\ Purged(held[w].job)
    BY <1>5, PurgeCore
  <2>2. QED
    BY <1>1, <2>1 DEF Purged, Unborn, HasContext
<1>6. CASE Complete(w) \/ OutcomeError(w)
  BY <1>2, <1>5, <1>6 DEF Complete, OutcomeError, ledger
<1>7. CASE MarkRetryable(w) \/ MarkError(w)
  BY <1>2, <1>3, <1>7 DEF MarkRetryable, MarkError, MarkWrites, MayMark, ledger
<1>8. CASE Exhaust(w) \/ FinalizeError(w)
  BY <1>2, <1>3, <1>8 DEF Exhaust, FinalizeError, FinalizeWrites, MayFinalize,
                          FinalizedDeletion, ledger
<1>9. CASE \/ PrepareSkip(w) \/ StorageFails(w) \/ Stale(w) \/ FindMore(w) \/ Retry(w)
           \/ RetryUnpublished(w) \/ Ack(w) \/ \E a \in Assets : DeleteObject(w, a)
  BY <1>2, <1>9 DEF PrepareSkip, StorageFails, Stale, FindMore, Retry, RetryUnpublished, Ack,
                    DeleteObject, ledger
<1>10. QED
  BY <1>4, <1>6, <1>7, <1>8, <1>9 DEF WorkerStep

LEMMA FewerNumbers ==
  ASSUME IInv, requests' \subseteq requests, \A d \in Jobs : Unborn(d)
  PROVE  NumbersUnused'
<1>1. \A r \in requests : r.op = "delete" => r.job \in Jobs
  BY TypeParts DEF Requests
<1>2. QED
  BY <1>1 DEF IInv, NumbersUnused, Unborn

LEMMA StepNumbers ==
  ASSUME IInv, [Next]_vars
  PROVE  NumbersUnused'
<1>0. CoreTypes /\ requests \subseteq Requests /\ NumbersUnused
  BY TypeParts DEF IInv
<1>1. ASSUME deletion' = deletion
      PROVE  \A d \in Jobs : Unborn(d)
  BY <1>1 DEF Unborn
<1>2. ASSUME NEW r, Begin(r),
             r.op = "delete" => deletion[r.job] = "NONE" /\ r.job \notin Numbered
      PROVE  NumbersUnused'
  <2>1. requests' = requests \cup {r} /\ deletion' = deletion
    BY <1>2 DEF Begin, ledger
  <2>2. \A q \in requests : q.op = "delete" => q.job \in Numbered
    BY DEF Numbered
  <2>3. QED
    BY <1>0, <1>2, <2>1, <2>2 DEF NumbersUnused
<1>3. ASSUME NEW op \in {"ticket", "derive", "feedback"}, Authenticate(op)
      PROVE  NumbersUnused'
  BY <1>2, <1>3 DEF Authenticate
<1>4. ASSUME NEW a \in Assets, ReadUpload(a)
      PROVE  NumbersUnused'
  BY <1>2, <1>4 DEF ReadUpload
<1>5. ASSUME NEW t \in Targets, NEW d \in Jobs, AskDeletion(t, d)
      PROVE  NumbersUnused'
  <2>1. d \notin Numbered /\ deletion[d] = "NONE"
    BY <1>5 DEF AskDeletion, Numbered, Created
  <2>2. QED
    BY <1>2, <1>5, <2>1 DEF AskDeletion
<1>6. ASSUME NEW r \in requests, ReadObject(r)
      PROVE  NumbersUnused'
  <2> DEFINE q == [r EXCEPT !.op = "validated"]
  <2>1. r \in [op : {"complete", "validated"}, asset : Assets]
    BY <1>0, <1>6 DEF ReadObject, Requests
  <2>2. q.op = "validated"
    BY <2>1
  <2>3. requests' = (requests \ {r}) \cup {q} /\ deletion' = deletion
    BY <1>6 DEF ReadObject, ledger
  <2> HIDE DEF q
  <2>4. QED
    BY <1>0, <2>2, <2>3 DEF NumbersUnused
<1>7. ASSUME NEW r \in requests, RequestAccountDeletion(r) \/ RequestPhotoDeletion(r)
      PROVE  NumbersUnused'
  <2>1. /\ r.op = "delete" /\ requests' = requests \ {r}
        /\ deletion' = [deletion EXCEPT ![r.job] = "PENDING"]
    BY <1>7 DEF RequestAccountDeletion, RequestPhotoDeletion, InsertDeletion, End
  <2>2. QED
    BY <1>0, <2>1 DEF NumbersUnused, CoreTypes
<1>8. ASSUME NEW r \in requests, CreateUploadTicket(r) \/ CompleteUpload(r) \/ StartDerived(r)
                                   \/ CreateFeedback(r) \/ RequestFails(r)
      PROVE  NumbersUnused'
  <2>1. deletion' = deletion /\ requests' \subseteq requests
    BY <1>8 DEF CreateUploadTicket, CompleteUpload, StartDerived, CreateFeedback,
                RequestFails, End, ledger
  <2>2. QED
    BY <2>1, <1>1, FewerNumbers
<1>9. ASSUME NEW a \in Assets, Upload(a) \/ FinishDerived(a)
      PROVE  NumbersUnused'
  BY <1>9, <1>1, FewerNumbers DEF Upload, FinishDerived, ledger
<1>10. ASSUME NEW d \in Jobs, Publish(d) \/ LapseLease(d)
       PROVE  NumbersUnused'
  BY <1>10, <1>1, FewerNumbers DEF Publish, LapseLease, Outside, ledger
<1>11. ASSUME NEW w \in Workers, WorkerLost(w) \/ \E m \in Messages : Deliver(w, m)
       PROVE  NumbersUnused'
  BY <1>11, <1>1, FewerNumbers DEF WorkerLost, Deliver, Outside, ledger
<1>12. ASSUME NEW w \in Workers, WorkerStep(w)
       PROVE  NumbersUnused'
  BY <1>12, WorkerNumbers, WorkerCore, FewerNumbers
<1>13. CASE UNCHANGED vars
  BY <1>13, <1>1, FewerNumbers DEF vars, ledger
<1>14. QED
  BY <1>3, <1>4, <1>5, <1>6, <1>7, <1>8, <1>9, <1>10, <1>11, <1>12, <1>13
     DEF Next, RequestStep
-----------------------------------------------------------------------------
(***************************************************************************)
(* The workers: a step moves one of them, and what the others know lasts.  *)
(***************************************************************************)
ProcTypes ==
  /\ keys \in [Workers -> SUBSET Assets]
  /\ wiped \in [Workers -> SUBSET Assets]
  /\ rounds \in [Workers -> 0 .. MaxRounds]
  /\ queue \in [Messages -> Nat]
  /\ pc \in [Workers -> Steps]
  /\ held \in [Workers -> Messages \cup {NoMessage}]
  /\ \A w \in Workers : pc[w] # "idle" => held[w] \in Messages
  /\ tok \in [Workers -> Nat]

Surroundings == ProcTypes /\ AllWiping /\ Lasting

LEMMA StayWiping ==
  ASSUME Surroundings, NEW v \in Workers, pc'[v] \in {pc[v], "ack", "mark", "raised", "idle"},
         pc'[v] = "delete" => held'[v] = held[v],
         keys'[v] \subseteq keys[v], wiped'[v] \subseteq wiped[v]
  PROVE  Wiping(v)'
<1>1. Wiping(v) /\ keys[v] \subseteq Assets /\ wiped[v] \subseteq Assets
  BY DEF Surroundings, AllWiping, ProcTypes
<1>2. pc[v] = "delete" => held[v].job \in Jobs
  BY DEF Surroundings, ProcTypes, Messages
<1>3. ASSUME pc'[v] = "delete"
      PROVE  /\ deletion'[held'[v].job] # "NONE"
             /\ keys'[v] \subseteq Covered(target'[held'[v].job])
  <2>1. pc[v] = "delete" /\ held'[v] = held[v]
    BY <1>3
  <2>2. deletion[held[v].job] # "NONE" /\ keys[v] \subseteq Covered(target[held[v].job])
    BY <1>1, <2>1 DEF Wiping
  <2>3. QED
    BY <1>2, <2>1, <2>2 DEF Surroundings, Lasting
<1>4. QED
  BY <1>1, <1>3 DEF Wiping, Surroundings, Lasting, Covered

LEMMA WorkerForgets ==
  ASSUME Surroundings, NEW w \in Workers, pc[w] # "idle",
         NEW step \in {"ack", "mark", "raised"}, Goto(w, step),
         Forget(w) \/ UNCHANGED progress, queue' \in [Messages -> Nat]
  PROVE  ProcTypes' /\ AllWiping'
<1>0. ProcTypes /\ 0 \in 0 .. MaxRounds
  BY RoundsAssumption DEF Surroundings
<1>1. ProcTypes'
  <2>1. /\ pc' = [pc EXCEPT ![w] = step] /\ held' = held /\ tok' = tok
        /\ step \in Steps
    BY DEF Goto, Steps
  <2>2. /\ keys' \in [Workers -> SUBSET Assets] /\ wiped' \in [Workers -> SUBSET Assets]
        /\ rounds' \in [Workers -> 0 .. MaxRounds]
    BY <1>0 DEF Forget, progress, ProcTypes
  <2>3. QED
    BY <1>0, <2>1, <2>2 DEF ProcTypes
<1>2. ASSUME NEW v \in Workers
      PROVE  Wiping(v)'
  <2>1. /\ held' = held /\ pc'[v] \in {pc[v], "ack", "mark", "raised", "idle"}
        /\ keys'[v] \subseteq keys[v] /\ wiped'[v] \subseteq wiped[v]
    BY <1>0 DEF ProcTypes, Goto, Forget, progress
  <2>2. QED
    BY <2>1, StayWiping
<1>3. QED
  BY <1>1, <1>2 DEF AllWiping

LEMMA NobodyMoves ==
  ASSUME Surroundings, UNCHANGED <<procs, progress>>, queue' \in [Messages -> Nat]
  PROVE  ProcTypes' /\ AllWiping'
BY StayWiping DEF Surroundings, ProcTypes, procs, progress, AllWiping

LEMMA WorkerRests ==
  ASSUME Surroundings, NEW w \in Workers, pc' = [pc EXCEPT ![w] = "idle"],
         held' = [held EXCEPT ![w] = NoMessage], tok' = [tok EXCEPT ![w] = NoToken],
         Forget(w) \/ UNCHANGED progress, queue' \in [Messages -> Nat]
  PROVE  ProcTypes' /\ AllWiping'
<1>0. ProcTypes /\ 0 \in 0 .. MaxRounds
  BY RoundsAssumption DEF Surroundings
<1>1. ProcTypes'
  <2>1. /\ keys' \in [Workers -> SUBSET Assets] /\ wiped' \in [Workers -> SUBSET Assets]
        /\ rounds' \in [Workers -> 0 .. MaxRounds]
    BY <1>0 DEF Forget, progress, ProcTypes
  <2>2. QED
    BY <1>0, <2>1 DEF ProcTypes, Steps, NoToken
<1>2. ASSUME NEW v \in Workers
      PROVE  Wiping(v)'
  <2>1. /\ pc'[v] \in {pc[v], "ack", "mark", "raised", "idle"}
        /\ pc'[v] = "delete" => held'[v] = held[v]
        /\ keys'[v] \subseteq keys[v] /\ wiped'[v] \subseteq wiped[v]
    BY <1>0 DEF ProcTypes, Forget, progress
  <2>2. QED
    BY <2>1, StayWiping
<1>3. QED
  BY <1>1, <1>2 DEF AllWiping

LEMMA WorkerTakes ==
  ASSUME Surroundings, NEW w \in Workers, NEW m \in Messages, Deliver(w, m)
  PROVE  ProcTypes' /\ AllWiping'
<1>0. ProcTypes
  BY DEF Surroundings
<1>1. /\ pc[w] = "idle" /\ pc' = [pc EXCEPT ![w] = "prepare"]
      /\ held' = [held EXCEPT ![w] = m] /\ tok' = [tok EXCEPT ![w] = 0]
      /\ UNCHANGED progress
  BY DEF Deliver, Take, NoToken
<1>2. queue' \in [Messages -> Nat]
  <2>1. queue' = [queue EXCEPT ![m] = @ - 1] /\ queue[m] > 0 /\ queue[m] \in Nat
    BY <1>0 DEF Deliver, Take, ProcTypes
  <2>2. queue[m] - 1 \in Nat
    BY <2>1
  <2>3. QED
    BY <1>0, <2>1, <2>2 DEF ProcTypes
<1>3. ProcTypes'
  BY <1>0, <1>1, <1>2 DEF ProcTypes, progress, Steps
<1>4. ASSUME NEW v \in Workers
      PROVE  Wiping(v)'
  <2>1. CASE v = w
    <3>1. pc'[w] = "prepare" /\ keys'[w] = keys[w] /\ wiped'[w] = wiped[w]
      BY <1>0, <1>1 DEF ProcTypes, progress
    <3>2. Wiping(w) /\ keys[w] \subseteq Assets /\ wiped[w] \subseteq Assets
      BY <1>0 DEF Surroundings, AllWiping, ProcTypes
    <3>3. QED
      BY <2>1, <3>1, <3>2 DEF Wiping, Surroundings, Lasting
  <2>2. CASE v # w
    BY <2>2, <1>0, <1>1, StayWiping DEF ProcTypes, progress
  <2>3. QED
    BY <2>1, <2>2
<1>5. QED
  BY <1>3, <1>4 DEF AllWiping

LEMMA WorkerPlans ==
  ASSUME Surroundings, NEW w \in Workers, held[w] \in Messages, held' = held,
         pc' = [pc EXCEPT ![w] = "delete"],
         NEW t \in Nat, tok' = [tok EXCEPT ![w] = t],
         NEW k \in SUBSET Plan(target[held[w].job]), keys' = [keys EXCEPT ![w] = k],
         wiped' \in {wiped, [wiped EXCEPT ![w] = {}]},
         NEW n \in 0 .. MaxRounds, rounds' = [rounds EXCEPT ![w] = n],
         deletion[held[w].job] # "NONE", queue' \in [Messages -> Nat]
  PROVE  ProcTypes' /\ AllWiping'
<1>0. ProcTypes /\ held[w].job \in Jobs
  BY DEF Surroundings, Messages
<1>1. k \subseteq Covered(target[held[w].job]) /\ k \subseteq Present /\ k \subseteq Assets
  BY DEF Plan, Present
<1>2. ProcTypes'
  <2>1. wiped' \in [Workers -> SUBSET Assets]
    BY <1>0 DEF ProcTypes
  <2>2. QED
    BY <1>0, <1>1, <2>1 DEF ProcTypes, Steps
<1>3. Wiping(w)'
  <2>1. /\ pc'[w] = "delete" /\ held'[w] = held[w] /\ keys'[w] = k
        /\ wiped'[w] \subseteq wiped[w] /\ wiped[w] \subseteq Assets
    BY <1>0 DEF ProcTypes
  <2>2. Wiping(w)
    BY DEF Surroundings, AllWiping
  <2>3. deletion'[held[w].job] # "NONE" /\ target'[held[w].job] = target[held[w].job]
    BY <1>0 DEF Surroundings, Lasting
  <2>4. \A a \in k : asset'[a] # "NONE"
    BY <1>1 DEF Surroundings, Lasting, Present, AssetStatuses
  <2>5. QED
    BY <1>1, <2>1, <2>2, <2>3, <2>4 DEF Wiping, Surroundings, Lasting, Covered
<1>4. ASSUME NEW v \in Workers \ {w}
      PROVE  Wiping(v)'
  <2>1. /\ pc'[v] = pc[v] /\ held'[v] = held[v] /\ keys'[v] = keys[v]
        /\ wiped'[v] = wiped[v]
    BY <1>0 DEF ProcTypes
  <2>2. QED
    BY <2>1, StayWiping
<1>5. QED
  BY <1>2, <1>3, <1>4 DEF AllWiping

LEMMA WorkerWipes ==
  ASSUME Surroundings, NEW w \in Workers, NEW a \in Assets, DeleteObject(w, a),
         object \in [Assets -> Objects]
  PROVE  ProcTypes' /\ AllWiping'
<1>0. ProcTypes
  BY DEF Surroundings
<1>1. /\ object' = [object EXCEPT ![a] = "wiped"] /\ UNCHANGED <<procs, rounds, queue>>
      /\ keys' = [keys EXCEPT ![w] = @ \ {a}] /\ wiped' = [wiped EXCEPT ![w] = @ \cup {a}]
      /\ a \in keys[w] /\ UNCHANGED <<asset, target, deletion>> /\ pc[w] = "delete"
  BY DEF DeleteObject, delivery, ledger
<1>2. ProcTypes'
  BY <1>0, <1>1 DEF ProcTypes, procs
<1>3. Wiping(w)'
  <2>1. keys'[w] = keys[w] \ {a} /\ wiped'[w] = wiped[w] \cup {a} /\ object'[a] = "wiped"
    BY <1>0, <1>1 DEF ProcTypes
  <2>2. Wiping(w) /\ wiped[w] \subseteq Assets
    BY <1>0 DEF Surroundings, AllWiping, ProcTypes
  <2>3. \A b \in wiped[w] \cup {a} : asset'[b] # "NONE" /\ object'[b] \in {"wiped", "rewritten"}
    BY <1>1, <2>1, <2>2 DEF Wiping, Surroundings, Lasting
  <2>4. QED
    BY <1>1, <2>1, <2>2, <2>3 DEF Wiping, procs, Covered
<1>4. ASSUME NEW v \in Workers \ {w}
      PROVE  Wiping(v)'
  <2>1. /\ pc'[v] = pc[v] /\ held'[v] = held[v] /\ keys'[v] = keys[v]
        /\ wiped'[v] = wiped[v]
    BY <1>0, <1>1 DEF ProcTypes, procs
  <2>2. QED
    BY <2>1, StayWiping
<1>5. QED
  BY <1>2, <1>3, <1>4 DEF AllWiping

LEMMA StepProcs ==
  ASSUME IInv, Surroundings, [Next]_vars
  PROVE  ProcTypes' /\ AllWiping'
<1>0. ProcTypes /\ queue \in [Messages -> Nat] /\ CoreTypes
  BY TypeParts DEF Surroundings, ProcTypes
<1>1. CASE \/ \E op \in {"ticket", "derive", "feedback"} : Authenticate(op)
           \/ \E t \in Targets, d \in Jobs : AskDeletion(t, d)
           \/ \E r \in requests : RequestStep(r)
           \/ \E a \in Assets : ReadUpload(a) \/ Upload(a) \/ FinishDerived(a)
  <2>1. UNCHANGED <<procs, progress, queue>>
    BY <1>1 DEF Authenticate, AskDeletion, RequestStep, ReadUpload, Upload, FinishDerived,
                Begin, CreateUploadTicket, ReadObject, CompleteUpload, StartDerived,
                CreateFeedback, RequestAccountDeletion, RequestPhotoDeletion,
                InsertDeletion, RequestFails, Executors, delivery
  <2>2. QED
    BY <1>0, <2>1, NobodyMoves
<1>2. ASSUME NEW d \in Jobs, Publish(d) \/ LapseLease(d)
      PROVE  ProcTypes' /\ AllWiping'
  <2>1. UNCHANGED <<procs, progress>>
    BY <1>2 DEF Publish, SendEvent, LapseLease, delivery
  <2>2. queue' \in [Messages -> Nat]
    BY <1>0, <1>2 DEF Publish, SendEvent, LapseLease, delivery
  <2>3. QED
    BY <2>1, <2>2, NobodyMoves
<1>3. ASSUME NEW w \in Workers, NEW m \in Messages, Deliver(w, m)
      PROVE  ProcTypes' /\ AllWiping'
  BY <1>3, WorkerTakes
<1>4. ASSUME NEW w \in Workers, WorkerLost(w)
      PROVE  ProcTypes' /\ AllWiping'
  <2>1. queue' \in [Messages -> Nat]
    BY <1>0, <1>4 DEF WorkerLost, LoseWorker, ProcTypes
  <2>2. QED
    BY <1>4, <2>1, WorkerRests DEF WorkerLost, LoseWorker
<1>5. ASSUME NEW w \in Workers, WorkerStep(w)
      PROVE  ProcTypes' /\ AllWiping'
  <2>0. pc[w] # "idle" => held[w] \in Messages /\ held[w].job \in Jobs
    BY <1>0 DEF ProcTypes, Messages
  <2>1. CASE \/ PrepareSkip(w) \/ PrepareError(w) \/ StorageFails(w) \/ Stale(w)
             \/ Complete(w) \/ OutcomeError(w) \/ MarkRetryable(w) \/ MarkError(w)
             \/ RetryUnpublished(w) \/ Exhaust(w) \/ FinalizeError(w)
    <3>1. /\ pc[w] # "idle" /\ UNCHANGED queue
          /\ \E step \in {"ack", "mark", "raised"} : Goto(w, step)
          /\ Forget(w) \/ UNCHANGED progress
      BY <2>1 DEF PrepareSkip, PrepareError, StorageFails, Stale, Complete, OutcomeError,
                  CompleteWrites, MarkRetryable, MarkError, RetryUnpublished, LoseRetry,
                  Exhaust, FinalizeError, Exhausted, Deciding
    <3>2. QED
      BY <3>1, <1>0, WorkerForgets
  <2>2. CASE Retry(w)
    <3> DEFINE m == NextAttempt(w)
    <3>1. queue' = [queue EXCEPT ![m] = @ + 1]
      BY <2>2 DEF Retry, PublishRetry
    <3> HIDE DEF m
    <3>2. queue' \in [Messages -> Nat]
      <4>1. CASE m \in Messages
        BY <1>0, <3>1, <4>1
      <4>2. CASE m \notin Messages
        <5>1. queue' = queue
          BY <1>0, <3>1, <4>2
        <5>2. QED
          BY <1>0, <5>1
      <4>3. QED
        BY <4>1, <4>2
    <3>3. QED
      BY <2>2, <3>2, WorkerForgets DEF Retry, PublishRetry
  <2>3. CASE Ack(w)
    BY <1>0, <2>3, WorkerRests DEF Ack, Acknowledge
  <2>4. CASE \E a \in Assets : DeleteObject(w, a)
    BY <1>0, <2>4, WorkerWipes DEF CoreTypes
  <2>5. CASE PrepareClaim(w)
    <3> DEFINE d == held[w].job
               t == claims[d] + 1
               k == Plan(target[d])
    <3>1. /\ pc[w] = "prepare" /\ HasContext(d) /\ UNCHANGED <<held, queue>>
          /\ pc' = [pc EXCEPT ![w] = "delete"] /\ tok' = [tok EXCEPT ![w] = t]
          /\ keys' = [keys EXCEPT ![w] = k] /\ wiped' = [wiped EXCEPT ![w] = {}]
          /\ rounds' = [rounds EXCEPT ![w] = 0]
      BY <2>5 DEF PrepareClaim, MayClaim
    <3>2. t \in Nat /\ 0 \in 0 .. MaxRounds /\ k \in SUBSET Plan(target[held[w].job])
      BY <1>0, <2>0, <3>1, RoundsAssumption DEF CoreTypes
    <3>3. deletion[held[w].job] # "NONE" /\ held[w] \in Messages
      BY <2>0, <3>1 DEF HasContext
    <3> HIDE DEF t, k, d
    <3>4. QED
      BY <1>0, <3>1, <3>2, <3>3, WorkerPlans
  <2>6. CASE FindMore(w)
    <3>1. CASE rounds[w] + 1 < MaxRounds
      <4> DEFINE n == rounds[w] + 1
                 k == Additional(w)
      <4>1. /\ pc[w] = "delete" /\ UNCHANGED <<procs, wiped, queue>>
            /\ keys' = [keys EXCEPT ![w] = k] /\ rounds' = [rounds EXCEPT ![w] = n]
        BY <2>6, <3>1 DEF FindMore, Deciding
      <4>2. n \in 0 .. MaxRounds /\ k \in SUBSET Plan(target[held[w].job])
        BY <1>0, <3>1, RoundsAssumption DEF ProcTypes, Additional
      <4>3. deletion[held[w].job] # "NONE" /\ held[w] \in Messages
        BY <2>0, <4>1 DEF Surroundings, AllWiping, Wiping
      <4>4. /\ pc' = [pc EXCEPT ![w] = "delete"] /\ tok' = [tok EXCEPT ![w] = tok[w]]
            /\ tok[w] \in Nat /\ held' = held
        BY <1>0, <4>1 DEF ProcTypes, procs
      <4> HIDE DEF n, k
      <4>5. QED
        BY <1>0, <4>1, <4>2, <4>3, <4>4, WorkerPlans
    <3>2. CASE ~(rounds[w] + 1 < MaxRounds)
      <4>1. pc[w] # "idle" /\ UNCHANGED queue /\ Goto(w, "mark") /\ Forget(w)
        BY <2>6, <3>2 DEF FindMore, Deciding
      <4>2. QED
        BY <4>1, <1>0, WorkerForgets
    <3>3. QED
      BY <3>1, <3>2
  <2>7. QED
    BY <1>5, <2>1, <2>2, <2>3, <2>4, <2>5, <2>6 DEF WorkerStep
<1>6. CASE UNCHANGED vars
  BY <1>0, <1>6, NobodyMoves DEF vars, delivery
<1>7. QED
  BY <1>1, <1>2, <1>3, <1>4, <1>5, <1>6 DEF Next

EnvTypes ==
  /\ feedback \in BOOLEAN
  /\ published \in [Jobs -> Nat]
  /\ lapses \in Nat
  /\ faults \in Nat

LEMMA StepEnv ==
  ASSUME EnvTypes, [Next]_vars
  PROVE  EnvTypes' /\ faults' \in {faults, faults + 1}
<1> USE DEF EnvTypes
<1>1. ASSUME NEW w \in Workers, WorkerStep(w)
      PROVE  EnvTypes' /\ faults' \in {faults, faults + 1}
  <2>1. /\ UNCHANGED <<feedback, published, lapses>>
        /\ faults' = faults \/ faults' = faults + 1
    BY <1>1 DEF WorkerStep, PrepareSkip, PrepareClaim, PrepareError, DeleteObject,
                StorageFails, Stale, FindMore, Complete, CompleteWrites, Purge,
                OutcomeError, MarkRetryable, MarkError, Retry, PublishRetry,
                RetryUnpublished, LoseRetry, Exhaust, FinalizeError, Ack, Acknowledge, Disturbed, Fault, Outside, data, delivery
  <2>2. QED
    BY <2>1
<1>2. ASSUME NEW d \in Jobs, Publish(d) \/ LapseLease(d)
      PROVE  EnvTypes' /\ faults' \in {faults, faults + 1}
  BY <1>2 DEF Publish, SendEvent, LapseLease, Outside, data, delivery
<1>3. ASSUME NEW w \in Workers, WorkerLost(w) \/ \E m \in Messages : Deliver(w, m)
      PROVE  EnvTypes' /\ faults' \in {faults, faults + 1}
  BY <1>3 DEF WorkerLost, LoseWorker, Deliver, Take, Fault, Outside, data
<1>4. CASE \/ \E op \in {"ticket", "derive", "feedback"} : Authenticate(op)
           \/ \E t \in Targets, d \in Jobs : AskDeletion(t, d)
           \/ \E r \in requests : RequestStep(r)
           \/ \E a \in Assets : ReadUpload(a) \/ Upload(a) \/ FinishDerived(a)
  <2>1. UNCHANGED <<published, lapses, faults>> /\ (feedback' = feedback \/ feedback' = TRUE)
    BY <1>4 DEF Authenticate, AskDeletion, RequestStep, ReadUpload, Upload, FinishDerived,
                Begin, CreateUploadTicket, ReadObject, CompleteUpload, StartDerived,
                CreateFeedback, RequestAccountDeletion, RequestPhotoDeletion,
                InsertDeletion, RequestFails, Executors, delivery, data
  <2>2. QED
    BY <2>1
<1>5. CASE UNCHANGED vars
  BY <1>5 DEF vars, delivery, data
<1>6. QED
  BY <1>1, <1>2, <1>3, <1>4, <1>5 DEF Next
-----------------------------------------------------------------------------
LEMMA InitInv == Init => IInv
<1> SUFFICES ASSUME Init
             PROVE  IInv
  OBVIOUS
<1>1. TypeOK
  <2>1. 0 \in 0 .. MaxRounds
    BY RoundsAssumption
  <2>2. QED
    BY <2>1 DEF Init, InitDelivery, TypeOK, NewJob, JobRows, JobStatuses, Leases,
                CommittedStatuses, NoToken, Steps, UserStatuses, Objects, Targets
<1>2. RowsInOrder /\ StatusesAgree
  BY DEF Init, RowsInOrder, StatusesAgree, HasContext, Present, AssetStatuses
<1>3. NamedExist /\ NumbersUnused /\ NothingComesBack /\ NothingUnderway
  BY DEF Init, NamedExist, NumbersUnused, NothingComesBack, NothingUnderway
<1>4. AllWiping
  BY DEF Init, InitDelivery, AllWiping, Wiping
<1>5. QED
  BY <1>1, <1>2, <1>3, <1>4 DEF IInv

LEMMA NextInv ==
  ASSUME IInv, [Next]_vars
  PROVE  IInv'
<1>1. CoreTypes /\ (CoreKept \/ CoreStep)
  BY StepCore, TypeParts
<1>2. CoreTypes' /\ RowsInOrder' /\ StatusesAgree' /\ Lasting
  BY <1>1, CoreStepTypes, CoreStepOrder, CoreStepStatuses, CoreLasts DEF IInv
<1>3. requests' \subseteq Requests /\ NamesHeldBefore
  BY StepNames
<1>4. NamedExist' /\ NumbersUnused'
  BY <1>1, <1>2, <1>3, NamesStay, StepNumbers DEF IInv
<1>5. NothingComesBack' /\ (user' = "DELETED" => making' = {})
  BY <1>1, NextComesBack DEF IInv, NothingUnderway
<1>6. NothingUnderway'
  <2>1. ASSUME user' = "DELETED", NEW r \in requests', NEW a \in Named(r)
        PROVE  asset'[a] = "PURGED"
    BY <1>1, <1>2, <1>3, <2>1, NothingNamedLeft
  <2>2. QED
    BY <1>5, <2>1 DEF NothingUnderway, Named
<1>7. ProcTypes' /\ AllWiping'
  BY <1>2, StepProcs DEF IInv, TypeOK, ProcTypes, Surroundings
<1>8. EnvTypes'
  BY StepEnv DEF IInv, TypeOK, EnvTypes
<1>9. TypeOK'
  BY <1>2, <1>3, <1>7, <1>8 DEF TypeOK, CoreTypes, ProcTypes, EnvTypes
<1>10. QED
  BY <1>2, <1>4, <1>5, <1>6, <1>7, <1>9 DEF IInv

LEMMA Invariance == Spec => []IInv
BY InitInv, NextInv, PTL DEF Spec

(***************************************************************************)
(* The variables keep their types, and no deletion's job is ever read in   *)
(* QUEUED, QUALITY_CHECKING, TIMED_OUT or CANCELLED.                       *)
(***************************************************************************)
THEOREM TypeCorrect == Spec => []TypeOK
<1>1. IInv => TypeOK
  BY DEF IInv
<1>2. QED
  BY <1>1, Invariance, PTL

(***************************************************************************)
(* The deletion the client polls and its job never disagree.               *)
(***************************************************************************)
THEOREM Agreement == Spec => []StatusesAgree
<1>1. IInv => StatusesAgree
  BY DEF IInv
<1>2. QED
  BY <1>1, Invariance, PTL

(***************************************************************************)
(* After an account deletion no image may be shown, whatever was under way *)
(* when it purged the rows.                                                *)
(***************************************************************************)
THEOREM PurgeIsFinal == Spec => []NothingComesBack
<1>1. IInv => NothingComesBack
  BY DEF IInv
<1>2. QED
  BY <1>1, Invariance, PTL
-----------------------------------------------------------------------------
(***************************************************************************)
(* Deletion keeps the promise of Erasure: rows appear one at a time, what  *)
(* a worker wipes is covered by a deletion somebody asked for, and a purge *)
(* finds every object of its rows removed.                                 *)
(***************************************************************************)
Row(a) == IF a \in Present THEN "live" ELSE IF asset[a] = "PURGED" THEN "erased" ELSE "none"

Asked == {target[d] : d \in {e \in Jobs : deletion[e] # "NONE"}}

LEMMA CoveredIsClosure ==
  ASSUME NEW t \in Targets
  PROVE  Covered(t) = Promise!Closure(t)
BY AssetsAssumption DEF Covered, Promise!Closure, Promise!MadeFrom, Source, Targets

LEMMA KeptPromise ==
  ASSUME UNCHANGED object, \A a \in Assets : Row(a)' = Row(a), Asked' = Asked
  PROVE  UNCHANGED Promise!promiseVars
BY DEF Promise!promiseVars, Row, Asked

LEMMA AssetPromise ==
  ASSUME IInv, NEW a \in Assets, AssetStep(a)
  PROVE  Promise!Next \/ UNCHANGED Promise!promiseVars
<1>0. CoreTypes /\ RowsInOrder
  BY TypeParts DEF IInv
<1> USE DEF CoreTypes
<1>1. ASSUME UNCHANGED <<target, deletion>>
      PROVE  Asked' = Asked
  BY <1>1 DEF Asked
<1>2. ASSUME UNCHANGED asset
      PROVE  \A b \in Assets : Row(b)' = Row(b)
  BY <1>2 DEF Row, Present
<1>3. ASSUME asset[a] = "NONE", NEW status \in AssetStatuses,
             asset' = [asset EXCEPT ![a] = status], UNCHANGED <<target, deletion>>,
             object' \in {object, [object EXCEPT ![a] = "stored"]}
      PROVE  Promise!Next
  <2>1. \A b \in Assets : Row(b)' = IF b = a THEN "live" ELSE Row(b)
    BY <1>0, <1>3 DEF Row, Present
  <2>2. Row(a) = "none"
    BY <1>3 DEF Row, Present, AssetStatuses
  <2>3. Asked' = Asked
    BY <1>1, <1>3
  <2>4. Promise!Add(a)
    BY <1>3, <2>1, <2>2, <2>3 DEF Promise!Add, Row, Asked
  <2>5. QED
    BY <2>4 DEF Promise!Next
<1>4. CASE RowAdded(a)
  BY <1>3, <1>4 DEF RowAdded, AssetStatuses
<1>5. CASE ObjectPut(a)
  <2>1. /\ \A b \in Assets : Row(b)' = Row(b)
        /\ Asked' = Asked
    BY <1>1, <1>2, <1>5 DEF ObjectPut
  <2>2. CASE object[a] = "rewritten"
    <3>1. object' = object
      BY <1>0, <1>5, <2>2 DEF ObjectPut, Written
    <3>2. QED
      BY <2>1, <3>1, KeptPromise
  <2>3. CASE object[a] # "rewritten"
    <3>1. Row(a) # "none"
      BY <1>0, <1>5 DEF ObjectPut, Row, Present
    <3>2. Written(object[a]) = IF object[a] = "wiped" THEN "rewritten" ELSE "stored"
      BY <1>0, <2>3 DEF Written, Objects
    <3>3. object' = [object EXCEPT ![a] = IF @ = "wiped" THEN "rewritten" ELSE "stored"]
      BY <1>0, <1>5, <3>2 DEF ObjectPut
    <3>4. Promise!Put(a)
      BY <2>1, <2>3, <3>1, <3>3 DEF Promise!Put, Row, Asked
    <3>5. QED
      BY <3>4 DEF Promise!Next
  <2>4. QED
    BY <2>2, <2>3
<1>6. CASE Judged(a)
  <2>1. \A b \in Assets : Row(b)' = Row(b)
    BY <1>0, <1>6 DEF Judged, Row, Present, AssetStatuses
  <2>2. QED
    BY <1>1, <1>6, <2>1, KeptPromise DEF Judged
<1>7. CASE MakingStarted(a)
  BY <1>1, <1>2, <1>7, KeptPromise DEF MakingStarted
<1>8. CASE ImageMade(a)
  <2>1. asset[a] = "NONE" /\ object[a] = "none"
    BY <1>0, <1>8 DEF ImageMade, RowsInOrder
  <2>2. object' = [object EXCEPT ![a] = "stored"]
    BY <1>8, <2>1 DEF ImageMade, Written
  <2>3. QED
    BY <1>3, <1>8, <2>1, <2>2 DEF ImageMade, AssetStatuses
<1>9. CASE MakingDropped(a)
  BY <1>1, <1>2, <1>9, KeptPromise DEF MakingDropped
<1>10. CASE ObjectWiped(a)
  <2>1. PICK d \in Jobs : deletion[d] # "NONE" /\ a \in Covered(target[d])
    BY <1>10 DEF ObjectWiped
  <2>2. target[d] \in Asked /\ a \in Promise!Closure(target[d])
    BY <1>0, <2>1, CoveredIsClosure DEF Asked
  <2>3. /\ \A b \in Assets : Row(b)' = Row(b)
        /\ Asked' = Asked
    BY <1>1, <1>2, <1>10 DEF ObjectWiped
  <2>4. Promise!Wipe(a)
    BY <1>10, <2>2, <2>3 DEF ObjectWiped, Promise!Wipe, Row, Asked
  <2>5. QED
    BY <2>4 DEF Promise!Next
<1>11. QED
  BY <1>4, <1>5, <1>6, <1>7, <1>8, <1>9, <1>10 DEF AssetStep

LEMMA DeletionPromise ==
  ASSUME IInv, NEW d \in Jobs, DeletionStep(d)
  PROVE  Promise!Next \/ UNCHANGED Promise!promiseVars
<1>0. CoreTypes /\ RowsInOrder
  BY TypeParts DEF IInv
<1> USE DEF CoreTypes
<1>1. ASSUME NEW t \in Targets, DeletionAdded(d, t), \A a \in Assets : Row(a)' = Row(a)
      PROVE  Promise!Next
  <2>1. \A e \in Jobs : deletion'[e] # "NONE" <=> deletion[e] # "NONE" \/ e = d
    BY <1>0, <1>1 DEF DeletionAdded
  <2>2. \A e \in Jobs : target'[e] = IF e = d THEN t ELSE target[e]
    BY <1>0, <1>1 DEF DeletionAdded
  <2>3. Asked' = Asked \cup {t}
    BY <1>1, <2>1, <2>2 DEF Asked, DeletionAdded
  <2>4. Promise!Ask(t)
    BY <1>1, <2>3 DEF DeletionAdded, Promise!Ask, Row, Asked
  <2>5. QED
    BY <2>4 DEF Promise!Next, Targets
<1>2. CASE AccountAsked(d)
  <2>1. \A a \in Assets : Row(a)' = Row(a)
    BY <1>2 DEF AccountAsked, Row, Present
  <2>2. QED
    BY <1>1, <1>2, <2>1 DEF AccountAsked, Targets
<1>3. ASSUME NEW t \in Assets, PhotoAsked(d, t)
      PROVE  Promise!Next
  <2>1. \A a \in Assets : Row(a)' = Row(a)
    BY <1>0, <1>3 DEF PhotoAsked, Row, Present, AssetStatuses
  <2>2. QED
    BY <1>1, <1>3, <2>1 DEF PhotoAsked, Targets
<1>4. CASE Purged(d)
  <2>0. PICK t \in Targets : t = target[d]
    BY <1>0
  <2>1. t \in Targets /\ t \in Asked
    BY <1>0, <1>4, <2>0 DEF Purged, HasContext, Asked
  <2>2. \A a \in Covered(t) \cap Present : a \in Plan(t)
    <3>1. ASSUME t # Account, t \notin Present, NEW a \in Covered(t) \cap Present
          PROVE  FALSE
      <4>1. t \in {a, Source(a), Source(Source(a))} /\ t \in Assets /\ a \in Assets
        BY <2>1, <3>1 DEF Covered, Targets
      <4>2. Source(a) \in Assets => Source(a) \in Present
        BY <1>0, <3>1 DEF RowsInOrder
      <4>3. Source(a) \notin Assets => Source(Source(a)) = NoAsset
        BY DEF Source
      <4>4. Source(Source(a)) \in Assets => Source(Source(a)) \in Present
        <5>1. Source(Source(a)) \in Assets => Source(a) \in Assets
          BY <4>3, AssetsAssumption
        <5>2. QED
          BY <1>0, <4>2, <5>1 DEF RowsInOrder
      <4>5. QED
        BY <3>1, <4>1, <4>2, <4>4
    <3>2. QED
      BY <3>1 DEF Plan
  <2>3. Plan(t) \subseteq Covered(t) \cap Present
    BY DEF Plan
  <2>4. \A a \in Assets : Row(a)' = IF a \in Covered(t) /\ Row(a) = "live"
                                      THEN "erased" ELSE Row(a)
    <3>1. \A a \in Assets : asset'[a] = IF a \in Plan(t) THEN "PURGED" ELSE asset[a]
      BY <1>4, <2>0 DEF Purged, PurgedRows
    <3>2. "PURGED" \notin AssetStatuses
      BY DEF AssetStatuses
    <3>3. QED
      BY <2>2, <2>3, <3>1, <3>2 DEF Row, Present
  <2>5. \A a \in Covered(t) : Row(a) = "live" => object[a] # "stored"
    BY <1>4, <2>0, <2>2 DEF Purged, Row, Covered
  <2>6. Asked' = Asked
    <3>1. \A e \in Jobs : deletion'[e] # "NONE" <=> deletion[e] # "NONE"
      BY <1>0, <1>4 DEF Purged, HasContext
    <3>2. target' = target
      BY <1>4 DEF Purged
    <3>3. QED
      BY <3>1, <3>2 DEF Asked
  <2>7. Covered(t) = Promise!Closure(t) /\ object' = object
    BY <1>4, <2>1, CoveredIsClosure DEF Purged
  <2>8. Promise!Erase(t)
    BY <2>1, <2>4, <2>5, <2>6, <2>7 DEF Promise!Erase, Row, Asked, Covered
  <2>9. QED
    BY <2>8 DEF Promise!Next, Targets
<1>5. CASE DeletionClaimed(d) \/ DeletionMarked(d) \/ DeletionFailed(d) \/ LeaseLapsed(d)
  <2>1. UNCHANGED <<asset, object, target>>
    BY <1>5 DEF DeletionClaimed, DeletionMarked, DeletionFailed, LeaseLapsed
  <2>2. \A e \in Jobs : deletion'[e] # "NONE" <=> deletion[e] # "NONE"
    BY <1>0, <1>5 DEF DeletionClaimed, DeletionMarked, DeletionFailed, LeaseLapsed,
                      HasContext
  <2>3. Asked' = Asked
    BY <2>1, <2>2 DEF Asked
  <2>4. QED
    BY <2>1, <2>3, KeptPromise DEF Row, Present
<1>6. QED
  BY <1>2, <1>3, <1>4, <1>5 DEF DeletionStep

(***************************************************************************)
(* THEOREM.  The deletions with their workers, retries, leases and racing  *)
(* requests keep the promise of Erasure: what is erased was asked for, had *)
(* its object wiped first, and stays erased                                *)
(* (deletion_executor.py, deletion_repository.py).                         *)
(***************************************************************************)
THEOREM Refinement == Spec => KeepsPromise
<1>1. Init => Promise!Init
  BY DEF Init, Promise!Init, Present, AssetStatuses
<1>2. IInv /\ [Next]_vars => [Promise!Next]_(Promise!promiseVars)
  <2> SUFFICES ASSUME IInv, [Next]_vars
               PROVE  Promise!Next \/ UNCHANGED Promise!promiseVars
    OBVIOUS
  <2>1. CASE CoreKept
    <3>1. UNCHANGED object /\ (\A a \in Assets : Row(a)' = Row(a)) /\ Asked' = Asked
      BY <2>1 DEF CoreKept, core, Row, Present, Asked
    <3>2. QED
      BY <3>1, KeptPromise
  <2>2. QED
    BY <2>1, StepCore, AssetPromise, DeletionPromise DEF CoreStep
<1>3. QED
  BY <1>1, <1>2, Invariance, PTL DEF Spec, KeepsPromise, Promise!Spec

-----------------------------------------------------------------------------
(***************************************************************************)
(* Deletions left behind: open, and without anyone who will go on with     *)
(* them.  A row is inserted before its event is published, never after.    *)
(***************************************************************************)
AnsweredFaults == {"prepare_error", "outcome_error", "outcome_ack_lost"}

Unanswered == \E k \in Faults \ AnsweredFaults : Fault(k)

Safe(d) == CarriedOn(d, deletion[d], job[d].token)

LeftBehind == {d \in Jobs : ~Safe(d)}

Unpublished == \A d \in Jobs : deletion[d] = "NONE" => published[d] = 0

LEMMA StaysSafe ==
  ASSUME NEW w \in Workers, NEW d \in Jobs, Safe(d), OthersStay(w),
         deletion'[d] = deletion[d], job'[d] = job[d], published'[d] = published[d],
         QueuedFor(d) => QueuedFor(d)',
         deletion[d] = "PROCESSING" /\ Owns(w, d, job[d].token) => Owns(w, d, job[d].token)',
         deletion[d] \in {"PENDING", "FAILED_RETRYABLE"} /\ Pursues(w, d, job[d].token) =>
           QueuedFor(d)' \/ Pursues(w, d, job[d].token)'
  PROVE  Safe(d)'
<1>1. PICK s, t : s = deletion[d] /\ t = job[d].token
  OBVIOUS
<1>2. CarriedOn(d, s, t)
  BY <1>1 DEF Safe
<1>3. /\ s = "PROCESSING" /\ Owns(w, d, t) => Owns(w, d, t)'
      /\ s \in {"PENDING", "FAILED_RETRYABLE"} /\ Pursues(w, d, t) =>
           QueuedFor(d)' \/ Pursues(w, d, t)'
  BY <1>1 DEF Owns, Pursues
<1>4. CarriedOn(d, s, t)'
  BY <1>2, <1>3, StillCarried
<1>5. QED
  BY <1>1, <1>4 DEF Safe, CarriedOn, Owns, Pursues

(***************************************************************************)
(* Steps of requests, of uploads and of images.                            *)
(***************************************************************************)
LEMMA InsertSafe ==
  ASSUME IInv, Unpublished, NEW r \in requests, InsertDeletion(r), NEW d \in Jobs, Safe(d)
  PROVE  Safe(d)'
<1>1. /\ r.job \in Jobs /\ deletion[r.job] = "NONE" /\ UNCHANGED <<delivery, job>>
      /\ deletion' = [deletion EXCEPT ![r.job] = "PENDING"]
  <2>1. r.op = "delete" /\ r \in Requests
    BY TypeParts DEF InsertDeletion
  <2>2. r.job \in Jobs
    BY <2>1 DEF Requests
  <2>3. QED
    BY <2>1, <2>2 DEF InsertDeletion, Executors, IInv, NumbersUnused
<1>2. CASE d = r.job
  <2>1. deletion'[d] = "PENDING" /\ published'[d] = 0
    BY <1>1, <1>2 DEF IInv, TypeOK, Unpublished, delivery
  <2>2. QED
    BY <2>1 DEF Safe, CarriedOn
<1>3. CASE d # r.job
  <2>1. deletion'[d] = deletion[d] /\ UNCHANGED <<job, queue, published, pc, held, tok>>
    BY <1>1, <1>3 DEF IInv, TypeOK, delivery, procs
  <2>2. QED
    BY <2>1 DEF Safe, CarriedOn, QueuedFor, Owns, Pursues
<1>4. QED
  BY <1>2, <1>3

LEMMA RequestSafe ==
  ASSUME IInv, Unpublished, NEW r \in requests, RequestStep(r), NEW d \in Jobs, Safe(d)
  PROVE  Safe(d)'
<1>1. CASE InsertDeletion(r)
  BY <1>1, InsertSafe
<1>2. CASE ~InsertDeletion(r)
  <2>1. UNCHANGED <<ledger, delivery>>
    BY <1>2 DEF RequestStep, CreateUploadTicket, ReadObject, CompleteUpload, StartDerived,
                CreateFeedback, RequestAccountDeletion, RequestPhotoDeletion, RequestFails,
                Executors
  <2>2. QED
    BY <2>1 DEF ledger, delivery, procs, Safe, CarriedOn, QueuedFor, Owns, Pursues
<1>3. QED
  BY <1>1, <1>2

(***************************************************************************)
(* What a worker does to any other deletion than the one in its hands:     *)
(* nothing, or it purges the account and takes its row.                    *)
(***************************************************************************)
LEMMA OthersKept ==
  ASSUME IInv, NEW w \in Workers, WorkerStep(w) \/ WorkerLost(w)
  PROVE  /\ OthersStay(w) /\ published' = published
         /\ \A d \in Jobs : d # held[w].job =>
              job'[d] = job[d] /\ deletion'[d] \in {deletion[d], "GONE"}
         /\ \/ queue' = queue
            \/ \E m \in Messages : queue' = [queue EXCEPT ![m] = @ + 1]
<1>0. TypeOK /\ CoreTypes
  BY TypeParts DEF IInv
<1>1. CASE WorkerLost(w)
  BY <1>0, <1>1 DEF WorkerLost, LoseWorker, OthersStay, TypeOK, ledger
<1>2. CASE Retry(w)
  <2>1. held[w] \in Messages /\ ~RetriesExhausted(w)
    BY <1>0, <1>2 DEF Retry, PublishRetry, TypeOK
  <2>2. NextAttempt(w) \in Messages
    BY <2>1, RetriesAssumption DEF NextAttempt, Messages, RetriesExhausted
  <2>3. QED
    BY <1>0, <1>2, <2>2 DEF Retry, PublishRetry, Goto, OthersStay, TypeOK, ledger
<1>3. CASE Ack(w)
  BY <1>0, <1>3 DEF Ack, Acknowledge, OthersStay, TypeOK, ledger
<1>4. CASE WorkerStep(w) /\ ~Retry(w) /\ ~Ack(w)
  <2>1. published' = published /\ queue' = queue
    BY <1>4 DEF WorkerStep, PrepareSkip, PrepareClaim, PrepareError, DeleteObject, StorageFails,
                Stale, FindMore, Complete, OutcomeError, MarkRetryable, MarkError,
                RetryUnpublished, LoseRetry, Exhaust, FinalizeError, delivery
  <2>2. OthersStay(w)
    <3>1. CASE PrepareClaim(w)
      BY <1>0, <3>1 DEF PrepareClaim, OthersStay, TypeOK
    <3>2. CASE ~PrepareClaim(w)
      <4>1. UNCHANGED procs \/ \E step : Goto(w, step)
        BY <1>4, <3>2 DEF WorkerStep, PrepareSkip, PrepareError, DeleteObject, StorageFails, Stale,
                          FindMore, Complete, OutcomeError, MarkRetryable, MarkError,
                          RetryUnpublished, LoseRetry, Exhaust, FinalizeError, delivery
      <4>2. QED
        BY <1>0, <4>1 DEF Goto, OthersStay, TypeOK, procs
    <3>3. QED
      BY <3>1, <3>2
  <2>3. \/ UNCHANGED <<job, deletion>>
        \/ CompleteWrites(w)
        \/ \E row, s : /\ job' = [job EXCEPT ![held[w].job] = row]
                       /\ deletion' = [deletion EXCEPT ![held[w].job] = s]
    <3>1. CASE PrepareClaim(w) \/ PrepareError(w)
      BY <3>1 DEF PrepareClaim, PrepareError, ClaimWrites, ledger
    <3>2. CASE Complete(w) \/ OutcomeError(w)
      BY <3>2 DEF Complete, OutcomeError, ledger
    <3>3. CASE MarkRetryable(w) \/ MarkError(w) \/ Exhaust(w) \/ FinalizeError(w)
      BY <3>3 DEF MarkRetryable, MarkError, MarkWrites, Exhaust, FinalizeError, FinalizeWrites,
                  FinalizedDeletion, ledger
    <3>4. CASE PrepareSkip(w) \/ StorageFails(w) \/ Stale(w) \/ FindMore(w)
               \/ RetryUnpublished(w) \/ \E a \in Assets : DeleteObject(w, a)
      BY <3>4 DEF PrepareSkip, DeleteObject, StorageFails, Stale, FindMore, RetryUnpublished,
                  ledger
    <3>5. QED
      BY <1>4, <3>1, <3>2, <3>3, <3>4 DEF WorkerStep
  <2>4. ASSUME CompleteWrites(w), NEW d \in Jobs, d # held[w].job
        PROVE  job'[d] = job[d] /\ deletion'[d] \in {deletion[d], "GONE"}
    <3>1. held[w].job \in Jobs /\ Purged(held[w].job)
      BY <2>4, PurgeCore
    <3>2. QED
      BY <1>0, <2>4, <3>1 DEF Purged, CoreTypes
  <2>5. QED
    BY <1>0, <2>1, <2>2, <2>3, <2>4 DEF CoreTypes
<1>5. QED
  BY <1>1, <1>2, <1>3, <1>4

LEMMA OthersSafe ==
  ASSUME IInv, NEW w \in Workers, WorkerStep(w) \/ WorkerLost(w),
         NEW d \in Jobs, d # held[w].job, Safe(d)
  PROVE  Safe(d)'
<1>1. /\ OthersStay(w) /\ published' = published /\ job'[d] = job[d]
      /\ deletion'[d] \in {deletion[d], "GONE"}
  BY OthersKept
<1>2. QueuedFor(d) => QueuedFor(d)'
  <2>1. queue \in [Messages -> Nat]
    BY DEF IInv, TypeOK
  <2>2. QED
    BY <2>1, OthersKept, Enqueues DEF QueuedFor
<1>3. ~Owns(w, d, job[d].token) /\ ~Pursues(w, d, job[d].token)
  BY DEF Owns, Pursues
<1>4. CASE deletion'[d] = deletion[d]
  BY <1>1, <1>2, <1>3, <1>4, StaysSafe
<1>5. CASE deletion'[d] = "GONE"
  BY <1>5 DEF Safe, CarriedOn
<1>6. QED
  BY <1>1, <1>4, <1>5

(***************************************************************************)
(* What it does to its own.                                                *)
(***************************************************************************)
LEMMA StepSafe ==
  ASSUME TypeOK, NEW w \in Workers, NEW i \in Jobs, i = held[w].job, Safe(i),
         NEW step, Goto(w, step), UNCHANGED <<ledger, queue, published>>,
         deletion[i] = "PROCESSING" /\ Owns(w, i, job[i].token) =>
           step \notin {"idle", "prepare", "raised", "ack"},
         deletion[i] \in {"PENDING", "FAILED_RETRYABLE"} /\ Pursues(w, i, job[i].token) =>
           step \in {"prepare", "raised"}
  PROVE  Safe(i)'
<1>1. OthersStay(w) /\ pc'[w] = step /\ held'[w] = held[w] /\ tok'[w] = tok[w]
  BY DEF TypeOK, Goto, OthersStay
<1>2. (QueuedFor(i) => QueuedFor(i)') /\ UNCHANGED <<job, deletion>>
  BY DEF QueuedFor, ledger
<1>3. /\ deletion[i] = "PROCESSING" /\ Owns(w, i, job[i].token) => Owns(w, i, job[i].token)'
      /\ deletion[i] \in {"PENDING", "FAILED_RETRYABLE"} /\ Pursues(w, i, job[i].token) =>
           Pursues(w, i, job[i].token)'
  BY <1>1, <1>2 DEF Owns, Pursues
<1>4. QED
  BY <1>1, <1>2, <1>3, StaysSafe

LEMMA ClaimSafe ==
  ASSUME IInv, NEW w \in Workers, PrepareClaim(w), NEW i \in Jobs, i = held[w].job
  PROVE  Safe(i)'
<1>1. CoreTypes /\ MayClaim(i) /\ ClaimWrites(i) /\ UNCHANGED data
  BY TypeParts DEF PrepareClaim, Outside
<1>2. DeletionClaimed(i)
  BY <1>1, ClaimCore
<1>3. deletion'[i] = "PROCESSING" /\ job'[i].token = claims[i] + 1
  BY <1>1, <1>2 DEF DeletionClaimed, CoreTypes
<1>4. pc'[w] = "delete" /\ held'[w] = held[w] /\ tok'[w] = claims[i] + 1
  BY DEF PrepareClaim, IInv, TypeOK
<1>5. QED
  BY <1>3, <1>4 DEF Safe, CarriedOn, Owns

LEMMA PurgeSafe ==
  ASSUME IInv, NEW w \in Workers, CompleteWrites(w), NEW i \in Jobs, i = held[w].job
  PROVE  Safe(i)'
<1>1. Purged(i) /\ deletion \in [Jobs -> DeletionStatuses \cup {"NONE", "GONE"}]
  BY PurgeCore DEF IInv, TypeOK
<1>2. deletion'[i] = "COMPLETED"
  BY <1>1 DEF Purged
<1>3. QED
  BY <1>2 DEF Safe, CarriedOn

LEMMA MarkSafe ==
  ASSUME IInv, NEW w \in Workers, MarkRetryable(w), NEW i \in Jobs, i = held[w].job, Safe(i)
  PROVE  Safe(i)'
<1>0. TypeOK
  BY DEF IInv
<1>1. CASE MayMark(i, tok[w])
  <2>1. job[i].status = "PROCESSING" /\ job[i].token = tok[w] /\ job[i] \in JobRows
    BY <1>0, <1>1 DEF TypeOK, MayMark, Retryable, RunningJobStatuses, CommittedStatuses
  <2>2. /\ job' = [job EXCEPT ![i] = Transition(@, "FAILED_RETRYABLE")] /\ Goto(w, "raised")
        /\ deletion' = [deletion EXCEPT ![i] = "FAILED_RETRYABLE"]
    BY <1>1 DEF MarkRetryable, MarkWrites
  <2>3. deletion'[i] = "FAILED_RETRYABLE" /\ job'[i].token = tok[w]
    BY <1>0, <2>1, <2>2, RetryableRow DEF TypeOK
  <2>4. pc'[w] = "raised" /\ held'[w] = held[w] /\ tok'[w] = tok[w]
    BY <1>0, <2>2 DEF TypeOK, Goto
  <2>5. QED
    BY <2>3, <2>4 DEF Safe, CarriedOn, Pursues
<1>2. CASE ~MayMark(i, tok[w])
  <2>1. pc[w] = "mark" /\ Goto(w, "ack") /\ UNCHANGED <<ledger, queue, published>>
    BY <1>2 DEF MarkRetryable, ledger
  <2>2. /\ ~(deletion[i] = "PROCESSING" /\ Owns(w, i, job[i].token))
        /\ ~Pursues(w, i, job[i].token)
    BY <1>2, <2>1 DEF MayMark, Retryable, RunningJobStatuses, Owns, Pursues, HasContext, IInv,
                      StatusesAgree
  <2>3. QED
    BY <1>0, <2>1, <2>2, StepSafe
<1>3. QED
  BY <1>1, <1>2

LEMMA ExhaustSafe ==
  ASSUME IInv, NEW w \in Workers, Exhaust(w), NEW i \in Jobs, i = held[w].job, Safe(i)
  PROVE  Safe(i)'
<1>0. TypeOK
  BY DEF IInv
<1>1. CASE MayFinalize(i, tok[w])
  <2>1. deletion'[i] = "FAILED_FINAL"
    BY <1>0, <1>1 DEF Exhaust, FinalizeWrites, FinalizedDeletion, TypeOK
  <2>2. QED
    BY <2>1 DEF Safe, CarriedOn
<1>2. CASE ~MayFinalize(i, tok[w])
  <2>1. pc[w] = "raised" /\ Goto(w, "ack") /\ UNCHANGED <<ledger, queue, published>>
    BY <1>2 DEF Exhaust, Exhausted, ledger
  <2>2. ~Owns(w, i, job[i].token)
    BY <2>1 DEF Owns
  <2>3. ~(deletion[i] \in {"PENDING", "FAILED_RETRYABLE"} /\ Pursues(w, i, job[i].token))
    BY <1>2 DEF MayFinalize, Finalizable, Pursues, LeaseHolds, RunningJobStatuses, HasContext,
                IInv, StatusesAgree
  <2>4. QED
    BY <1>0, <2>1, <2>2, <2>3, StepSafe
<1>3. QED
  BY <1>1, <1>2

LEMMA WorkerSafe ==
  ASSUME IInv, NEW w \in Workers, WorkerStep(w), ~Unanswered,
         NEW i \in Jobs, i = held[w].job, Safe(i)
  PROVE  Safe(i)'
<1>0. TypeOK
  BY DEF IInv
<1>1. \A k \in {"prepare_ack_lost", "mark_error", "retry_unpublished", "finalize_error"} : ~Fault(k)
  BY DEF Unanswered, Fault, AnsweredFaults
<1>2. CASE PrepareSkip(w)
  <2>1. pc[w] = "prepare" /\ ~MayClaim(i) /\ Goto(w, "ack")
        /\ UNCHANGED <<ledger, queue, published>>
    BY <1>2 DEF PrepareSkip
  <2>2. ~Owns(w, i, job[i].token)
    BY <2>1 DEF Owns
  <2>3. deletion[i] \notin {"PENDING", "FAILED_RETRYABLE"}
    BY <2>1 DEF MayClaim, Claimable, TerminalJobStatuses, LeaseHolds, RunningJobStatuses,
                HasContext, IInv, StatusesAgree
  <2>4. QED
    BY <1>0, <2>1, <2>2, <2>3, StepSafe
<1>3. CASE PrepareClaim(w)
  BY <1>3, ClaimSafe
<1>4. CASE PrepareError(w)
  <2>1. pc[w] = "prepare" /\ Goto(w, "raised") /\ UNCHANGED <<ledger, queue, published>>
    BY <1>1, <1>4 DEF PrepareError, Disturbed
  <2>2. ~Owns(w, i, job[i].token)
    BY <2>1 DEF Owns
  <2>3. QED
    BY <1>0, <2>1, <2>2, StepSafe
<1>5. ASSUME UNCHANGED <<ledger, queue, published, procs>>
      PROVE  Safe(i)'
  BY <1>5 DEF ledger, procs, Safe, CarriedOn, QueuedFor, Owns, Pursues
<1>6. ASSUME pc[w] = "delete", Goto(w, "mark"), UNCHANGED <<ledger, queue, published>>
      PROVE  Safe(i)'
  <2>1. ~Pursues(w, i, job[i].token)
    BY <1>6 DEF Pursues
  <2>2. QED
    BY <1>0, <1>6, <2>1, StepSafe
<1>7. CASE StorageFails(w)
  BY <1>6, <1>7 DEF StorageFails
<1>8. CASE \E a \in Assets : DeleteObject(w, a)
  BY <1>5, <1>8 DEF DeleteObject, delivery
<1>9. CASE Stale(w)
  <2>1. pc[w] = "delete" /\ ~IsExecuting(i, tok[w]) /\ Goto(w, "ack")
        /\ UNCHANGED <<ledger, queue, published>>
    BY <1>9 DEF Stale, Deciding
  <2>2. /\ ~(deletion[i] = "PROCESSING" /\ Owns(w, i, job[i].token))
        /\ ~Pursues(w, i, job[i].token)
    BY <2>1 DEF IsExecuting, Executing, Owns, Pursues, HasContext, IInv, StatusesAgree
  <2>3. QED
    BY <1>0, <2>1, <2>2, StepSafe
<1>10. CASE FindMore(w)
  BY <1>5, <1>6, <1>10 DEF FindMore, Deciding
<1>11. CASE Complete(w)
  BY <1>11, PurgeSafe DEF Complete
<1>12. CASE OutcomeError(w)
  BY <1>6, <1>12, PurgeSafe DEF OutcomeError, Deciding
<1>13. CASE MarkRetryable(w)
  BY <1>13, MarkSafe
<1>14. CASE Retry(w)
  <2> DEFINE m == NextAttempt(w)
  <2>1. /\ pc[w] = "raised" /\ ~RetriesExhausted(w) /\ queue' = [queue EXCEPT ![m] = @ + 1]
        /\ Goto(w, "ack") /\ UNCHANGED <<job, deletion, published>>
    BY <1>14 DEF Retry, PublishRetry, ledger
  <2>2. m \in Messages /\ m.job = i
    BY <1>0, <2>1, RetriesAssumption DEF NextAttempt, Messages, RetriesExhausted, TypeOK
  <2> HIDE DEF m
  <2>3. QueuedFor(i)'
    BY <1>0, <2>1, <2>2, Enqueues DEF TypeOK
  <2>4. OthersStay(w) /\ ~Owns(w, i, job[i].token)
    BY <1>0, <2>1 DEF Goto, OthersStay, TypeOK, Owns
  <2>5. QED
    BY <2>1, <2>3, <2>4, StaysSafe
<1>15. CASE Exhaust(w)
  BY <1>15, ExhaustSafe
<1>16. CASE Ack(w)
  <2>1. pc[w] = "ack" /\ OthersStay(w) /\ UNCHANGED <<job, deletion, queue, published>>
    BY <1>0, <1>16 DEF Ack, Acknowledge, OthersStay, TypeOK, ledger
  <2>2. ~Owns(w, i, job[i].token) /\ ~Pursues(w, i, job[i].token) /\ (QueuedFor(i) => QueuedFor(i)')
    BY <2>1 DEF Owns, Pursues, QueuedFor
  <2>3. QED
    BY <2>1, <2>2, StaysSafe
<1>17. ~MarkError(w) /\ ~RetryUnpublished(w) /\ ~FinalizeError(w)
  BY <1>1 DEF MarkError, RetryUnpublished, LoseRetry, FinalizeError, Disturbed
<1>18. QED
  BY <1>2, <1>3, <1>4, <1>7, <1>8, <1>9, <1>10, <1>11, <1>12, <1>13, <1>14, <1>15, <1>16, <1>17
     DEF WorkerStep

(***************************************************************************)
(* Events, leases and deliveries.                                          *)
(***************************************************************************)
LEMMA EnvSafe ==
  ASSUME TypeOK, NEW i \in Jobs, Publish(i) \/ LapseLease(i), NEW d \in Jobs, Safe(d)
  PROVE  Safe(d)'
<1>1. CASE Publish(i)
  <2> DEFINE m == [job |-> i, retries |-> 0]
  <2>1. m \in Messages /\ m.job = i
    BY RetriesAssumption DEF Messages
  <2>2. /\ queue' = [queue EXCEPT ![m] = @ + 1] /\ published' = [published EXCEPT ![i] = @ + 1]
        /\ UNCHANGED <<job, deletion, pc, held, tok>>
    BY <1>1 DEF Publish, SendEvent, procs, ledger
  <2> HIDE DEF m
  <2>3. QueuedFor(i)' /\ (QueuedFor(d) => QueuedFor(d)') /\ (d # i => published'[d] = published[d])
    BY <2>1, <2>2, Enqueues DEF TypeOK
  <2>4. QED
    BY <2>2, <2>3 DEF Safe, CarriedOn, Owns, Pursues
<1>2. CASE LapseLease(i)
  <2>1. job'[d].token = job[d].token
    BY <1>2 DEF LapseLease, TypeOK, JobRows
  <2>2. UNCHANGED <<deletion, queue, published, pc, held, tok>>
    BY <1>2 DEF LapseLease, delivery, procs
  <2>3. QED
    BY <2>1, <2>2 DEF Safe, CarriedOn, QueuedFor, Owns, Pursues
<1>3. QED
  BY <1>1, <1>2

LEMMA DeliverSafe ==
  ASSUME TypeOK, NEW w \in Workers, NEW m \in Messages, Deliver(w, m), NEW d \in Jobs, Safe(d)
  PROVE  Safe(d)'
<1>1. /\ pc[w] = "idle" /\ queue' = [queue EXCEPT ![m] = @ - 1] /\ OthersStay(w)
      /\ pc'[w] = "prepare" /\ held'[w] = m /\ tok'[w] = NoToken
      /\ UNCHANGED <<job, deletion, published>>
  BY DEF Deliver, Take, TypeOK, OthersStay, ledger
<1>2. ~Owns(w, d, job[d].token) /\ ~Pursues(w, d, job[d].token)
  BY <1>1 DEF Owns, Pursues
<1>3. CASE m.job # d
  BY <1>1, <1>2, <1>3, Dequeues, StaysSafe DEF TypeOK
<1>4. CASE m.job = d
  <2>1. Pursues(w, d, job[d].token)'
    BY <1>1, <1>4 DEF Pursues
  <2>2. \A v \in Workers : Owns(v, d, job[d].token) => Owns(v, d, job[d].token)'
    BY <1>1, <1>2 DEF OthersStay, Owns
  <2>3. QED
    BY <1>1, <2>1, <2>2 DEF Safe, CarriedOn, Owns, Pursues
<1>5. QED
  BY <1>3, <1>4

LEMMA PublishedLater ==
  ASSUME IInv, Unpublished, [Next]_vars
  PROVE  Unpublished'
<1>1. \A d \in Jobs : deletion'[d] = "NONE" => deletion[d] = "NONE"
  <2>1. Lasting
    BY StepCore, TypeParts, CoreLasts DEF IInv
  <2>2. QED
    BY <2>1 DEF Lasting
<1>2. ASSUME NEW i \in Jobs, Publish(i)
      PROVE  \A d \in Jobs : deletion[d] = "NONE" => published'[d] = published[d]
  BY <1>2 DEF Publish, SendEvent, HasContext, IInv, TypeOK
<1>3. CASE ~\E i \in Jobs : Publish(i)
  <2>1. ASSUME NEW w \in Workers, WorkerStep(w) \/ WorkerLost(w)
        PROVE  published' = published
    BY <2>1, OthersKept
  <2>2. ASSUME NEW w \in Workers, NEW m \in Messages, Deliver(w, m)
        PROVE  published' = published
    BY <2>2 DEF Deliver, Take
  <2>3. ASSUME NEW d \in Jobs, LapseLease(d)
        PROVE  published' = published
    BY <2>3 DEF LapseLease, delivery
  <2>4. ASSUME NEW r \in requests, RequestStep(r)
        PROVE  published' = published
    BY <2>4 DEF RequestStep, CreateUploadTicket, ReadObject, CompleteUpload, StartDerived,
                CreateFeedback, RequestAccountDeletion, RequestPhotoDeletion, InsertDeletion,
                RequestFails, Executors, delivery
  <2>5. ASSUME \/ \E op \in {"ticket", "derive", "feedback"} : Authenticate(op)
               \/ \E t \in Targets, d \in Jobs : AskDeletion(t, d)
               \/ \E a \in Assets : ReadUpload(a) \/ Upload(a) \/ FinishDerived(a)
               \/ UNCHANGED vars
        PROVE  published' = published
    BY <2>5 DEF Authenticate, AskDeletion, Begin, ReadUpload, Upload, FinishDerived, Executors,
                delivery, vars
  <2>6. QED
    BY <1>1, <1>3, <2>1, <2>2, <2>3, <2>4, <2>5 DEF Next, Unpublished
<1>4. QED
  BY <1>1, <1>2, <1>3 DEF Unpublished

LEMMA LeftStep ==
  ASSUME IInv, Unpublished, [Next]_vars
  PROVE  \/ LeftBehind' \subseteq LeftBehind
         \/ Unanswered /\ \E i : LeftBehind' \subseteq LeftBehind \cup {i}
<1>0. TypeOK
  BY DEF IInv
<1>1. CASE \/ \E op \in {"ticket", "derive", "feedback"} : Authenticate(op)
           \/ \E t \in Targets, d \in Jobs : AskDeletion(t, d)
           \/ \E a \in Assets : ReadUpload(a) \/ Upload(a) \/ FinishDerived(a)
           \/ UNCHANGED vars
  <2>1. UNCHANGED <<ledger, delivery>>
    BY <1>1 DEF Authenticate, AskDeletion, Begin, ReadUpload, Upload, FinishDerived, Executors, vars
  <2>2. \A d \in Jobs : Safe(d) => Safe(d)'
    BY <2>1 DEF ledger, delivery, procs, Safe, CarriedOn, QueuedFor, Owns, Pursues
  <2>3. QED
    BY <2>2 DEF LeftBehind
<1>2. ASSUME NEW r \in requests, RequestStep(r)
      PROVE  LeftBehind' \subseteq LeftBehind
  BY <1>2, RequestSafe DEF LeftBehind
<1>3. ASSUME NEW i \in Jobs, Publish(i) \/ LapseLease(i)
      PROVE  LeftBehind' \subseteq LeftBehind
  BY <1>0, <1>3, EnvSafe DEF LeftBehind
<1>4. ASSUME NEW w \in Workers, NEW m \in Messages, Deliver(w, m)
      PROVE  LeftBehind' \subseteq LeftBehind
  BY <1>0, <1>4, DeliverSafe DEF LeftBehind
<1>5. ASSUME NEW w \in Workers, WorkerStep(w) \/ WorkerLost(w)
      PROVE  LeftBehind' \subseteq LeftBehind \cup {held[w].job}
  BY <1>5, OthersSafe DEF LeftBehind
<1>6. ASSUME NEW w \in Workers, WorkerLost(w)
      PROVE  Unanswered
  BY <1>6 DEF WorkerLost, LoseWorker, Unanswered, Fault, AnsweredFaults
<1>7. ASSUME NEW w \in Workers, WorkerStep(w), ~Unanswered
      PROVE  LeftBehind' \subseteq LeftBehind
  BY <1>5, <1>7, WorkerSafe DEF LeftBehind
<1>8. QED
  BY <1>1, <1>2, <1>3, <1>4, <1>5, <1>6, <1>7 DEF Next

LEMMA InitSafe == Init => LeftBehind = {} /\ Unpublished
BY DEF Init, InitDelivery, LeftBehind, Safe, CarriedOn, Unpublished

(***************************************************************************)
(* The safety half of EveryDeletionEnds.  Each fault (a dead worker, a     *)
(* lost answer to a claim, a mark, a retry or a finalization that fails)   *)
(* leaves at most one deletion behind: one the user asked for that nothing *)
(* will go on with any more, whatever requests, other deletions, messages  *)
(* and late workers do.                                                    *)
(***************************************************************************)
THEOREM OneDeletionPerFault == Spec => [](Cardinality(LeftBehind) <= faults)
<1> DEFINE Few == IsFiniteSet(LeftBehind) /\ Cardinality(LeftBehind) <= faults
<1>1. Init => Few /\ Unpublished
  <2>1. Init => faults = 0
    BY DEF Init, InitDelivery
  <2>2. QED
    BY <2>1, InitSafe, FS_EmptySet
<1>2. IInv /\ Unpublished /\ Few /\ [Next]_vars => (Few /\ Unpublished)'
  <2> SUFFICES ASSUME IInv, Unpublished, Few, [Next]_vars
               PROVE  Few' /\ Unpublished'
    OBVIOUS
  <2>1. faults \in Nat /\ faults' \in Nat /\ faults' >= faults
    BY StepEnv DEF IInv, TypeOK, EnvTypes
  <2>2. \/ LeftBehind' \subseteq LeftBehind
        \/ faults' = faults + 1 /\ \E i : LeftBehind' \subseteq LeftBehind \cup {i}
    BY LeftStep DEF Unanswered, Fault
  <2>3. Unpublished'
    BY PublishedLater
  <2> HIDE DEF LeftBehind
  <2>4. QED
    BY <2>1, <2>2, <2>3, OnePerFault
<1>3. QED
  BY <1>1, <1>2, Invariance, PTL DEF Spec

(***************************************************************************)
(* With the faults the executor answers by itself, a failing claim and a   *)
(* failing or unanswered outcome, no deletion is left behind at all.       *)
(***************************************************************************)
THEOREM NoDeletionLeftBehind ==
  ASSUME Faults \subseteq AnsweredFaults
  PROVE  Spec => [](LeftBehind = {})
<1> DEFINE NoneLeft == LeftBehind = {}
<1>1. IInv /\ Unpublished /\ NoneLeft /\ [Next]_vars => (NoneLeft /\ Unpublished)'
  <2>1. ~Unanswered
    BY DEF Unanswered, Fault
  <2>2. QED
    BY <2>1, LeftStep, PublishedLater
<1>2. QED
  BY <1>1, InitSafe, Invariance, PTL DEF Spec
=============================================================================
