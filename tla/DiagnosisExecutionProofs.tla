---------------------- MODULE DiagnosisExecutionProofs ----------------------
(***************************************************************************)
(* Theorems about DiagnosisExecution, for every number of jobs, workers,   *)
(* retries, duplicate events, lapsed leases and faults.                    *)
(***************************************************************************)
EXTENDS DiagnosisExecution, JobExecutionProofs, FiniteSetTheorems

-----------------------------------------------------------------------------
(***************************************************************************)
(* Every step changes the rows of at most one job, in one of these ways.   *)
(***************************************************************************)
RowsKept == UNCHANGED rows

RowsClaimed(j) ==
  /\ job[j].status \in OpenStatuses
  /\ claims' = [claims EXCEPT ![j] = @ + 1]
  /\ \E s \in {"PROCESSING", "FAILED_RETRYABLE"} :
       job' = [job EXCEPT ![j] =
                 [status |-> s,
                  retry_count |-> IF @.status = "PENDING" THEN @.retry_count
                                                          ELSE @.retry_count + 1,
                  token |-> claims[j] + 1, lease |-> "live"]]
  /\ UNCHANGED <<diagnosis, reservation, author>>

RowsCompleted(j) ==
  /\ job[j].status = "PROCESSING"
  /\ reservation[j] \in {"RESERVED", "COMMITTED"}
  /\ job' = [job EXCEPT ![j] =
               [status |-> "COMPLETED", retry_count |-> @.retry_count,
                token |-> NoToken, lease |-> "none"]]
  /\ diagnosis[j] # "DELETED"
  /\ diagnosis' = [diagnosis EXCEPT ![j] = "COMPLETED"]
  /\ author' = [author EXCEPT ![j] = job[j].token]
  /\ reservation' = [reservation EXCEPT ![j] = "COMMITTED"]
  /\ UNCHANGED claims

RowsFailed(j) ==
  /\ job[j].status \in OpenStatuses
  /\ job' = [job EXCEPT ![j] =
               [status |-> "FAILED_FINAL", retry_count |-> @.retry_count,
                token |-> NoToken, lease |-> "none"]]
  /\ diagnosis[j] # "DELETED"
  /\ diagnosis' = [diagnosis EXCEPT ![j] = "FAILED"]
  /\ reservation' = [reservation EXCEPT ![j] = "RELEASED"]
  /\ UNCHANGED <<claims, author>>

RowsMarked(j) ==
  /\ job[j].status = "PROCESSING"
  /\ job' = [job EXCEPT ![j] =
               [status |-> "FAILED_RETRYABLE", retry_count |-> @.retry_count,
                token |-> @.token, lease |-> @.lease]]
  /\ UNCHANGED <<diagnosis, reservation, claims, author>>

RowsLapsed(j) ==
  /\ job[j].status = "PROCESSING"
  /\ job' = [job EXCEPT ![j].lease = "lapsed"]
  /\ UNCHANGED <<diagnosis, reservation, claims, author>>

RowsPurged(j) ==
  /\ diagnosis' = [diagnosis EXCEPT ![j] = "DELETED"]
  /\ UNCHANGED <<job, reservation, claims, author>>

RowStep(j) ==
  \/ RowsClaimed(j) \/ RowsCompleted(j) \/ RowsFailed(j) \/ RowsMarked(j)
  \/ RowsLapsed(j) \/ RowsPurged(j)

RowTypes ==
  /\ job \in [Jobs -> JobRows]
  /\ \A j \in Jobs : job[j].status \in CommittedStatuses
  /\ diagnosis \in [Jobs -> {"PENDING", "COMPLETED", "FAILED", "DELETED"}]
  /\ reservation \in [Jobs -> {"RESERVED", "COMMITTED", "RELEASED"}]
  /\ claims \in [Jobs -> Nat]
  /\ author \in [Jobs -> Nat]

LEMMA FinalizeFailureRows ==
  ASSUME RowTypes, NEW w \in Workers, held[w].job \in Jobs, FinalizeFailure(w)
  PROVE  RowsKept \/ RowsFailed(held[w].job)
<1> DEFINE j == held[w].job
<1>1. CASE ~MayFinalize(j, tok[w])
  BY <1>1 DEF FinalizeFailure, RowsKept
<1>2. CASE MayFinalize(j, tok[w])
  <2>1. job[j].status \in OpenStatuses /\ diagnosis[j] # "DELETED"
    BY <1>2 DEF MayFinalize, Finalizable, RowTypes, CommittedStatuses, OpenStatuses,
                HasContext
  <2>2. FinalizeWrites(j)
    BY <1>2 DEF FinalizeFailure
  <2>3. QED
    BY <2>1, <2>2, FailedRow DEF FinalizeWrites, RowsFailed, RowTypes
<1>3. QED
  BY <1>1, <1>2

LEMMA StepRows ==
  ASSUME TypeOK, [Next]_vars
  PROVE  RowsKept \/ \E j \in Jobs : RowStep(j)
<1> SUFFICES ASSUME ~RowsKept
             PROVE  \E j \in Jobs : RowStep(j)
  OBVIOUS
<1> USE DEF RowStep
<1>0. RowTypes
  BY DEF TypeOK, RowTypes
<1>1. CASE UNCHANGED vars
  BY <1>1 DEF vars, delivery, RowsKept
<1>2. ASSUME NEW j \in Jobs, Publish(j)
      PROVE  FALSE
  BY <1>2 DEF Publish, SendEvent, RowsKept
<1>3. ASSUME NEW j \in Jobs, LapseLease(j)
      PROVE  RowStep(j)
  BY <1>3, <1>0 DEF LapseLease, LeaseHolds, RunningJobStatuses, CommittedStatuses,
                    RowsLapsed, RowTypes
<1>4. ASSUME NEW j \in Jobs, PurgePhoto(j)
      PROVE  RowStep(j)
  BY <1>4 DEF PurgePhoto, RowsPurged
<1>5. ASSUME NEW w \in Workers, NEW m \in Messages, Deliver(w, m)
      PROVE  FALSE
  BY <1>5 DEF Deliver, Take, RowsKept
<1>6. ASSUME NEW w \in Workers, WorkerLost(w)
      PROVE  FALSE
  BY <1>6 DEF WorkerLost, LoseWorker, RowsKept
<1>7. ASSUME NEW w \in Workers, WorkerStep(w)
      PROVE  \E j \in Jobs : RowStep(j)
  <2> DEFINE j == held[w].job
  <2>0. pc[w] # "idle" => j \in Jobs
    BY DEF TypeOK, Messages
  <2>1. ASSUME NEW new, NEW step, NEW t, NEW s \in {"PROCESSING", "FAILED_RETRYABLE"},
               ClaimWrites(w, new, step, t),
               new = IF s = "PROCESSING" THEN Claimed(job[j], claims[j] + 1)
                     ELSE Transition(Claimed(job[j], claims[j] + 1), s)
        PROVE  RowsClaimed(j) /\ j \in Jobs
    <3>1. j \in Jobs /\ job[j] \in JobRows /\ claims[j] + 1 \in Nat
      BY <2>0, <2>1, <1>0 DEF ClaimWrites, RowTypes
    <3>2. job[j].status \in OpenStatuses
      BY <3>1, <2>1, <1>0 DEF ClaimWrites, MayClaim, Claimable, TerminalJobStatuses,
                              RowTypes, CommittedStatuses, OpenStatuses
    <3> DEFINE row == [status |-> "PROCESSING",
                       retry_count |-> IF job[j].status = "PENDING"
                                         THEN job[j].retry_count
                                         ELSE job[j].retry_count + 1,
                       token |-> claims[j] + 1, lease |-> "live"]
    <3>3. Claimed(job[j], claims[j] + 1) = row /\ row \in JobRows
      BY <3>1, <3>2, ClaimedRow DEF JobRows, JobStatuses, Leases
    <3>4. Transition(row, "FAILED_RETRYABLE") = [row EXCEPT !.status = "FAILED_RETRYABLE"]
      BY <3>3, RetryableRow DEF JobRows
    <3>5. new = [status |-> s, retry_count |-> row.retry_count,
                 token |-> claims[j] + 1, lease |-> "live"]
      BY <2>1, <3>3, <3>4
    <3>6. QED
      BY <2>1, <3>1, <3>2, <3>5, <1>0 DEF ClaimWrites, RowsClaimed, RowTypes
  <2>2. CASE PrepareClaim(w)
    BY <2>2, <2>1 DEF PrepareClaim
  <2>3. CASE PrepareStorageUnavailable(w)
    BY <2>3, <2>1 DEF PrepareStorageUnavailable
  <2>4. CASE PrepareAckLost(w)
    BY <2>4, <2>1 DEF PrepareAckLost
  <2>5. ASSUME pc[w] = "complete", IsExecuting(j, tok[w]), MaySettle(j, "COMMITTED"),
               CompleteWrites(j, tok[w])
        PROVE  RowsCompleted(j) /\ j \in Jobs
    BY <2>5, <2>0, <1>0, CompletedRow
       DEF IsExecuting, Executing, HasContext, MaySettle, CompleteWrites, RowsCompleted,
           RowTypes
  <2>6. CASE Complete(w)
    BY <2>6, <2>5 DEF Complete, RowsKept
  <2>7. CASE CompleteAckLost(w)
    BY <2>7, <2>5 DEF CompleteAckLost
  <2>8. ASSUME pc[w] # "idle", FinalizeFailure(w)
        PROVE  RowsFailed(j) /\ j \in Jobs
    BY <2>8, <2>0, <1>0, FinalizeFailureRows
  <2>9. CASE Reject(w)
    BY <2>9, <2>8 DEF Reject
  <2>10. CASE RejectAckLost(w)
    <3>1. j \in Jobs /\ MayFinalize(j, tok[w]) /\ FinalizeWrites(j)
      BY <2>10, <2>0 DEF RejectAckLost
    <3>2. job[j].status \in OpenStatuses /\ diagnosis[j] # "DELETED"
      BY <3>1, <1>0 DEF MayFinalize, Finalizable, RowTypes, CommittedStatuses,
                        OpenStatuses, HasContext
    <3>3. RowsFailed(j)
      BY <3>1, <3>2, <1>0, FailedRow DEF FinalizeWrites, RowsFailed, RowTypes
    <3>4. QED
      BY <3>1, <3>3
  <2>11. CASE Finalize(w)
    BY <2>11, <2>8 DEF Finalize
  <2>12. CASE Exhaust(w)
    BY <2>12, <2>8 DEF Exhaust
  <2>13. CASE MarkRetryable(w) \/ MarkAckLost(w)
    <3>1. MayMark(j, tok[w]) /\ j \in Jobs
      BY <2>13, <2>0 DEF MarkRetryable, MarkAckLost, RowsKept, rows
    <3>2. job[j].status = "PROCESSING" /\ job[j] \in JobRows
      BY <3>1, <1>0 DEF MayMark, Retryable, RunningJobStatuses, RowTypes,
                        CommittedStatuses
    <3>3. RowsMarked(j)
      BY <2>13, <3>1, <3>2, RetryableRow DEF MarkRetryable, MarkAckLost, RowsMarked
    <3>4. QED
      BY <3>1, <3>3
  <2>14. CASE PrepareSkip(w) \/ PrepareError(w) \/ OutcomeError(w) \/ MarkError(w)
              \/ Retry(w) \/ RetryUnpublished(w) \/ FinalizeError(w) \/ Ack(w)
    BY <2>14 DEF PrepareSkip, PrepareError, OutcomeError, MarkError, Retry,
                 PublishRetry, RetryUnpublished, LoseRetry, FinalizeError, Ack,
                 Acknowledge, RowsKept
  <2>15. CASE \E next \in {"complete", "reject", "finalize", "mark"} : CallProvider(w, next)
    BY <2>15 DEF CallProvider, RowsKept
  <2>16. QED
    BY <1>7, <2>2, <2>3, <2>4, <2>6, <2>7, <2>9, <2>10, <2>11, <2>12, <2>13, <2>14,
       <2>15 DEF WorkerStep
<1>8. QED
  BY <1>1, <1>2, <1>3, <1>4, <1>5, <1>6, <1>7 DEF Next
-----------------------------------------------------------------------------
(***************************************************************************)
(* Type correctness: the rows by RowStep, the rest action by action.       *)
(***************************************************************************)
LEMMA RowStepTypes ==
  ASSUME RowTypes, RowsKept \/ \E j \in Jobs : RowStep(j)
  PROVE  RowTypes'
<1> USE DEF RowTypes
<1>1. CASE RowsKept
  BY <1>1 DEF RowsKept, rows
<1>2. ASSUME NEW j \in Jobs, RowStep(j)
      PROVE  RowTypes'
  <2> USE DEF CommittedStatuses, JobRows, JobStatuses, Leases, NoToken
  <2>1. CASE RowsClaimed(j)
    BY <2>1 DEF RowsClaimed
  <2>2. CASE RowsCompleted(j)
    BY <2>2 DEF RowsCompleted
  <2>3. CASE RowsFailed(j)
    BY <2>3 DEF RowsFailed
  <2>4. CASE RowsMarked(j)
    BY <2>4 DEF RowsMarked
  <2>5. CASE RowsLapsed(j)
    BY <2>5 DEF RowsLapsed
  <2>6. CASE RowsPurged(j)
    BY <2>6 DEF RowsPurged
  <2>7. QED
    BY <1>2, <2>1, <2>2, <2>3, <2>4, <2>5, <2>6 DEF RowStep
<1>3. QED
  BY <1>1, <1>2

ProcTypes ==
  /\ queue \in [Messages -> Nat]
  /\ pc \in [Workers -> Steps]
  /\ held \in [Workers -> Messages \cup {NoMessage}]
  /\ \A w \in Workers : pc[w] # "idle" => held[w] \in Messages
  /\ tok \in [Workers -> Nat]

EnvTypes ==
  /\ published \in [Jobs -> Nat]
  /\ lapses \in [Jobs -> Nat]
  /\ faults \in Nat

LEMMA StepEnv ==
  ASSUME EnvTypes, [Next]_vars
  PROVE  EnvTypes' /\ faults' \in {faults, faults + 1}
<1> USE DEF EnvTypes
<1>1. ASSUME NEW w \in Workers, WorkerStep(w)
      PROVE  EnvTypes' /\ faults' \in {faults, faults + 1}
  BY <1>1 DEF WorkerStep, PrepareSkip, PrepareClaim, PrepareStorageUnavailable,
              PrepareError, PrepareAckLost, ClaimWrites, CallProvider, Complete,
              CompleteAckLost, Reject, RejectAckLost, FinalizeFailure, OutcomeError,
              Finalize, MarkRetryable, MarkError, MarkAckLost, Retry, PublishRetry, RetryUnpublished,
              LoseRetry, Exhaust, FinalizeError, Ack, Acknowledge, Fault
<1>2. ASSUME NEW j \in Jobs, Publish(j) \/ LapseLease(j) \/ PurgePhoto(j)
      PROVE  EnvTypes' /\ faults' \in {faults, faults + 1}
  BY <1>2 DEF Publish, SendEvent, LapseLease, PurgePhoto, Fault, delivery
<1>3. ASSUME NEW w \in Workers, WorkerLost(w) \/ \E m \in Messages : Deliver(w, m)
      PROVE  EnvTypes' /\ faults' \in {faults, faults + 1}
  BY <1>3 DEF WorkerLost, LoseWorker, Deliver, Take, Fault
<1>4. CASE UNCHANGED vars
  BY <1>4 DEF vars, delivery
<1>5. QED
  BY <1>1, <1>2, <1>3, <1>4 DEF Next

LEMMA StepProcs ==
  ASSUME TypeOK, [Next]_vars
  PROVE  ProcTypes'
<1>0. ProcTypes /\ RowTypes
  BY DEF TypeOK, ProcTypes, RowTypes
<1>1. ASSUME NEW w \in Workers, NEW step \in Steps \ {"idle"}, Goto(w, step),
             pc[w] # "idle", queue' \in [Messages -> Nat]
      PROVE  ProcTypes'
  BY <1>0, <1>1 DEF Goto, ProcTypes, Steps
<1>2. ASSUME NEW w \in Workers, pc' = [pc EXCEPT ![w] = "idle"],
             held' = [held EXCEPT ![w] = NoMessage],
             tok' = [tok EXCEPT ![w] = NoToken], queue' \in [Messages -> Nat]
      PROVE  ProcTypes'
  BY <1>0, <1>2 DEF ProcTypes, Steps, NoToken
<1>3. ASSUME NEW j \in Jobs, Publish(j) \/ LapseLease(j) \/ PurgePhoto(j)
      PROVE  ProcTypes'
  BY <1>0, <1>3 DEF ProcTypes, Publish, SendEvent, LapseLease, PurgePhoto, procs,
                   delivery
<1>4. ASSUME NEW w \in Workers, NEW m \in Messages, Deliver(w, m)
      PROVE  ProcTypes'
  BY <1>0, <1>4 DEF ProcTypes, Deliver, Take, Steps, NoToken
<1>5. ASSUME NEW w \in Workers, WorkerLost(w)
      PROVE  ProcTypes'
  <2>1. queue' \in [Messages -> Nat]
    BY <1>0, <1>5 DEF ProcTypes, WorkerLost, LoseWorker
  <2>2. QED
    BY <1>2, <1>5, <2>1 DEF WorkerLost, LoseWorker
<1>6. ASSUME NEW w \in Workers, WorkerStep(w)
      PROVE  ProcTypes'
  <2> USE <1>0
  <2>1. ASSUME NEW new, NEW step \in Steps \ {"idle"}, NEW t \in Nat,
               ClaimWrites(w, new, step, t)
        PROVE  ProcTypes'
    BY <2>1 DEF ClaimWrites, ProcTypes, Steps
  <2>2. pc[w] # "idle" => held[w].job \in Jobs
    BY DEF ProcTypes, Messages
  <2> DEFINE t == claims[held[w].job] + 1
  <2>3. CASE PrepareClaim(w)
    <3>1. ClaimWrites(w, Claimed(job[held[w].job], t), "call", t)
      BY <2>3 DEF PrepareClaim
    <3>2. t \in Nat
      BY <3>1, <2>2 DEF ClaimWrites, RowTypes
    <3> HIDE DEF t
    <3>3. QED
      BY <2>1, <3>1, <3>2 DEF Steps
  <2>4. CASE PrepareStorageUnavailable(w)
    <3>1. ClaimWrites(w, Transition(Claimed(job[held[w].job], t), "FAILED_RETRYABLE"),
                      "raised", t)
      BY <2>4 DEF PrepareStorageUnavailable
    <3>2. t \in Nat
      BY <3>1, <2>2 DEF ClaimWrites, RowTypes
    <3> HIDE DEF t
    <3>3. QED
      BY <2>1, <3>1, <3>2 DEF Steps
  <2>5. CASE PrepareAckLost(w)
    BY <2>1, <2>5 DEF PrepareAckLost, ClaimWrites, Steps, NoToken
  <2>6. CASE Ack(w)
    BY <1>2, <2>6 DEF Ack, Acknowledge, ProcTypes
  <2>7. CASE Retry(w)
    <3> DEFINE m == NextAttempt(w)
    <3>1. queue' = [queue EXCEPT ![m] = @ + 1]
      BY <2>7 DEF Retry, PublishRetry
    <3> HIDE DEF m
    <3>2. queue' \in [Messages -> Nat]
      <4>1. queue \in [Messages -> Nat]
        BY DEF ProcTypes
      <4>2. CASE m \in Messages
        BY <3>1, <4>1, <4>2
      <4>3. CASE m \notin Messages
        <5>1. queue' = queue
          BY <3>1, <4>1, <4>3
        <5>2. QED
          BY <4>1, <5>1
      <4>4. QED
        BY <4>2, <4>3
    <3>3. QED
      BY <1>1, <2>7, <3>2 DEF Retry, PublishRetry, Steps
  <2>8. ASSUME NEW step \in Steps \ {"idle"}, Goto(w, step), pc[w] # "idle",
               UNCHANGED queue
        PROVE  ProcTypes'
    BY <1>1, <2>8 DEF ProcTypes
  <2>9. CASE \E next \in {"complete", "reject", "finalize", "mark"} : CallProvider(w, next)
    BY <2>8, <2>9 DEF CallProvider, Steps
  <2>10. ASSUME pc[w] # "idle", FinalizeFailure(w)
         PROVE  ProcTypes'
    BY <2>8, <2>10 DEF FinalizeFailure, Steps
  <2>11. CASE Reject(w) \/ Finalize(w) \/ Exhaust(w)
    BY <2>10, <2>11 DEF Reject, Finalize, Exhaust
  <2>12. CASE MarkRetryable(w)
    <3>1. Goto(w, "raised") \/ Goto(w, "ack")
      BY <2>12 DEF MarkRetryable
    <3>2. QED
      BY <2>8, <2>12, <3>1 DEF MarkRetryable, Steps
  <2>13. CASE PrepareSkip(w) \/ MarkError(w) \/ MarkAckLost(w) \/ RetryUnpublished(w)
              \/ FinalizeError(w) \/ Complete(w)
    BY <2>8, <2>13 DEF PrepareSkip, MarkError, MarkAckLost, RetryUnpublished, LoseRetry,
                       FinalizeError, Complete, Steps
  <2>14. CASE PrepareError(w)
    BY <2>8, <2>14 DEF PrepareError, Steps
  <2>15. CASE OutcomeError(w) \/ CompleteAckLost(w) \/ RejectAckLost(w)
    BY <2>8, <2>15 DEF OutcomeError, CompleteAckLost, RejectAckLost, Steps
  <2>16. QED
    BY <1>6, <2>3, <2>4, <2>5, <2>6, <2>7, <2>9, <2>11, <2>12, <2>13, <2>14, <2>15
       DEF WorkerStep
<1>7. CASE UNCHANGED vars
  BY <1>0, <1>7 DEF ProcTypes, vars, delivery, procs
<1>8. QED
  BY <1>3, <1>4, <1>5, <1>6, <1>7 DEF Next

(***************************************************************************)
(* The variables keep their types, and no client ever reads a job in       *)
(* QUEUED, QUALITY_CHECKING, TIMED_OUT or CANCELLED.                       *)
(***************************************************************************)
THEOREM TypeCorrect == Spec => []TypeOK
<1>1. Init => TypeOK
  BY DEF Init, InitDelivery, TypeOK, NewJob, JobRows, JobStatuses, Leases,
         CommittedStatuses, NoToken, Steps
<1>2. TypeOK /\ [Next]_vars => TypeOK'
  <2> SUFFICES ASSUME TypeOK, [Next]_vars
               PROVE  TypeOK'
    OBVIOUS
  <2>1. RowTypes /\ EnvTypes
    BY DEF TypeOK, RowTypes, EnvTypes
  <2>2. RowTypes'
    BY <2>1, StepRows, RowStepTypes
  <2>3. EnvTypes' /\ ProcTypes'
    BY <2>1, StepEnv, StepProcs
  <2>4. QED
    BY <2>2, <2>3 DEF TypeOK, RowTypes, EnvTypes, ProcTypes
<1>3. QED
  BY <1>1, <1>2, PTL DEF Spec
-----------------------------------------------------------------------------
(***************************************************************************)
(* The inductive invariant.  SettledTogether and the others are not        *)
(* inductive alone: that a completing worker's token is the last one       *)
(* drawn follows from ClaimsOnRow, that an open row carries the token of   *)
(* its last claim.                                                         *)
(***************************************************************************)
ClaimsOnRow ==
  \A j \in Jobs :
    /\ job[j].status = "PENDING" => claims[j] = 0
    /\ job[j].status \in {"PROCESSING", "FAILED_RETRYABLE"} =>
         claims[j] > 0 /\ job[j].token = claims[j]

IInv ==
  /\ RowTypes
  /\ SettledTogether
  /\ ResultFromLatestClaim
  /\ RetryCountHonest
  /\ ClaimsOnRow

LEMMA InvInit == Init => IInv
BY DEF Init, InitDelivery, IInv, RowTypes, NewJob, JobRows, JobStatuses, Leases,
       CommittedStatuses, NoToken, SettledTogether, HasContext, ResultFromLatestClaim,
       RetryCountHonest, ClaimsOnRow

LEMMA InvStep ==
  ASSUME IInv, RowsKept \/ \E j \in Jobs : RowStep(j)
  PROVE  IInv'
<1>0. RowTypes /\ RowTypes'
  BY RowStepTypes DEF IInv
<1>1. CASE RowsKept
  BY <1>0, <1>1 DEF RowsKept, rows, IInv, SettledTogether, HasContext,
                    ResultFromLatestClaim, RetryCountHonest, ClaimsOnRow
<1>2. ASSUME NEW j \in Jobs, RowStep(j)
      PROVE  IInv'
  <2> USE <1>0 DEF RowTypes, CommittedStatuses, JobRows, JobStatuses
  <2>1. SettledTogether'
    <3> USE DEF IInv, SettledTogether, HasContext
    <3>1. CASE RowsClaimed(j)
      BY <3>1 DEF RowsClaimed, OpenStatuses
    <3>2. CASE RowsCompleted(j)
      BY <3>2 DEF RowsCompleted
    <3>3. CASE RowsFailed(j)
      BY <3>3 DEF RowsFailed
    <3>4. CASE RowsMarked(j)
      BY <3>4 DEF RowsMarked
    <3>5. CASE RowsLapsed(j)
      BY <3>5 DEF RowsLapsed
    <3>6. CASE RowsPurged(j)
      BY <3>6 DEF RowsPurged
    <3>7. QED
      BY <1>2, <3>1, <3>2, <3>3, <3>4, <3>5, <3>6 DEF RowStep
  <2>2. ResultFromLatestClaim'
    <3> USE DEF IInv, ResultFromLatestClaim, ClaimsOnRow
    <3>1. CASE RowsClaimed(j)
      BY <3>1 DEF RowsClaimed, OpenStatuses
    <3>2. CASE RowsCompleted(j)
      BY <3>2 DEF RowsCompleted
    <3>3. CASE RowsFailed(j)
      BY <3>3 DEF RowsFailed
    <3>4. CASE RowsMarked(j)
      BY <3>4 DEF RowsMarked
    <3>5. CASE RowsLapsed(j)
      BY <3>5 DEF RowsLapsed
    <3>6. CASE RowsPurged(j)
      BY <3>6 DEF RowsPurged
    <3>7. QED
      BY <1>2, <3>1, <3>2, <3>3, <3>4, <3>5, <3>6 DEF RowStep
  <2>3. RetryCountHonest' /\ ClaimsOnRow'
    <3> USE DEF IInv, RetryCountHonest, ClaimsOnRow
    <3>1. CASE RowsClaimed(j)
      BY <3>1 DEF RowsClaimed, OpenStatuses
    <3>2. CASE RowsCompleted(j)
      BY <3>2 DEF RowsCompleted
    <3>3. CASE RowsFailed(j)
      BY <3>3 DEF RowsFailed
    <3>4. CASE RowsMarked(j)
      BY <3>4 DEF RowsMarked
    <3>5. CASE RowsLapsed(j)
      BY <3>5 DEF RowsLapsed
    <3>6. CASE RowsPurged(j)
      BY <3>6 DEF RowsPurged
    <3>7. QED
      BY <1>2, <3>1, <3>2, <3>3, <3>4, <3>5, <3>6 DEF RowStep
  <2>4. QED
    BY <2>1, <2>2, <2>3 DEF IInv
<1>3. QED
  BY <1>1, <1>2

LEMMA Invariance == Spec => []IInv
<1>1. TypeOK /\ IInv /\ [Next]_vars => IInv'
  BY StepRows, InvStep
<1>2. QED
  BY <1>1, InvInit, TypeCorrect, PTL DEF Spec

(***************************************************************************)
(* Result, charge and status of a diagnosis always agree.                  *)
(***************************************************************************)
THEOREM Settlement == Spec => []SettledTogether
<1>1. IInv => SettledTogether
  BY DEF IInv
<1>2. QED
  BY <1>1, Invariance, PTL

(***************************************************************************)
(* A worker that lost its claim never writes the result.                   *)
(***************************************************************************)
THEOREM Fencing == Spec => []ResultFromLatestClaim
<1>1. IInv => ResultFromLatestClaim
  BY DEF IInv
<1>2. QED
  BY <1>1, Invariance, PTL

(***************************************************************************)
(* retry_count is the number of executions after the first.                *)
(***************************************************************************)
THEOREM RetryCount == Spec => []RetryCountHonest
<1>1. IInv => RetryCountHonest
  BY DEF IInv
<1>2. QED
  BY <1>1, Invariance, PTL

(***************************************************************************)
(* Nothing changes the job or the charge once the job is settled.          *)
(***************************************************************************)
THEOREM SettlementIsFinal == Spec => SettledIsFinal
<1>1. IInv /\ TypeOK /\ [Next]_vars =>
        [\A j \in Jobs :
           ~Unsettled(j) => job'[j] = job[j] /\ reservation'[j] = reservation[j]]_vars
  <2> SUFFICES ASSUME IInv, TypeOK, [Next]_vars, NEW i \in Jobs, ~Unsettled(i)
               PROVE  job'[i] = job[i] /\ reservation'[i] = reservation[i]
    OBVIOUS
  <2>1. CASE RowsKept
    BY <2>1 DEF RowsKept, rows
  <2>2. ASSUME NEW j \in Jobs, RowStep(j)
        PROVE  job'[i] = job[i] /\ reservation'[i] = reservation[i]
    <3>1. job[i].status \notin OpenStatuses
      BY DEF Unsettled, OpenStatuses, TerminalJobStatuses
    <3>2. CASE RowsPurged(j)
      BY <3>2 DEF RowsPurged
    <3>3. job[j].status \in OpenStatuses \/ RowsPurged(j)
      BY <2>2 DEF RowStep, RowsClaimed, RowsCompleted, RowsFailed, RowsMarked,
                  RowsLapsed, OpenStatuses
    <3>4. CASE i # j
      BY <2>2, <3>4 DEF RowStep, RowsClaimed, RowsCompleted, RowsFailed, RowsMarked,
                        RowsLapsed, RowsPurged, IInv, RowTypes
    <3>5. QED
      BY <3>1, <3>2, <3>3, <3>4
  <2>3. QED
    BY <2>1, <2>2, StepRows
<1>2. QED
  BY <1>1, Invariance, TypeCorrect, PTL DEF Spec, SettledIsFinal
-----------------------------------------------------------------------------
(***************************************************************************)
(* The executor implements the contract: a claim begins an attempt, a      *)
(* completion or a failure settles the job in one step, and everything     *)
(* else (messages, lapsed leases, retries, faults) stutters.               *)
(***************************************************************************)
THEOREM Refinement == Spec => KeepsContract
<1> DEFINE verdicts == [j \in Jobs |-> Verdict(job[j])]
<1>1. Init => Contract!Init
  BY DEF Init, InitDelivery, Contract!Init, Verdict, NewJob
<1>2. IInv /\ TypeOK /\ [Next]_vars => [Contract!Next]_(Contract!contractVars)
  <2> SUFFICES ASSUME IInv, TypeOK, [Next]_vars
               PROVE  Contract!Next \/ UNCHANGED Contract!contractVars
    OBVIOUS
  <2>0. RowTypes
    BY DEF IInv
  <2>1. CASE RowsKept
    BY <2>1 DEF RowsKept, rows, Contract!contractVars
  <2>2. ASSUME NEW j \in Jobs, RowStep(j)
        PROVE  Contract!Next \/ UNCHANGED Contract!contractVars
    <3> USE <2>0 DEF RowTypes, CommittedStatuses
    <3>1. CASE RowsClaimed(j)
      <4>1. Verdict(job[j]) = "open"
        BY <3>1 DEF RowsClaimed, OpenStatuses, Verdict
      <4>2. \A i \in Jobs : Verdict(job'[i]) = Verdict(job[i])
        BY <3>1, <4>1 DEF RowsClaimed, Verdict
      <4>3. Contract!BeginAttempt(j)
        BY <3>1, <4>1, <4>2 DEF RowsClaimed, Contract!BeginAttempt
      <4>4. QED
        BY <4>3 DEF Contract!Next
    <3>2. CASE RowsCompleted(j)
      <4>1. Verdict(job[j]) = "open"
        BY <3>2 DEF RowsCompleted, Verdict
      <4>2. \A i \in Jobs : Verdict(job'[i]) = IF i = j THEN "succeeded"
                                                ELSE Verdict(job[i])
        BY <3>2 DEF RowsCompleted, Verdict
      <4>3. claims[j] > 0 /\ job[j].token = claims[j]
        BY <3>2 DEF RowsCompleted, IInv, ClaimsOnRow
      <4>4. Contract!Succeed(j)
        BY <3>2, <4>1, <4>2, <4>3 DEF RowsCompleted, Contract!Succeed
      <4>5. QED
        BY <4>4 DEF Contract!Next
    <3>3. CASE RowsFailed(j)
      <4>1. Verdict(job[j]) = "open"
        BY <3>3 DEF RowsFailed, OpenStatuses, Verdict
      <4>2. \A i \in Jobs : Verdict(job'[i]) = IF i = j THEN "failed"
                                                ELSE Verdict(job[i])
        BY <3>3 DEF RowsFailed, Verdict
      <4>3. Contract!Fail(j)
        BY <3>3, <4>1, <4>2 DEF RowsFailed, Contract!Fail
      <4>4. QED
        BY <4>3 DEF Contract!Next
    <3>4. CASE RowsMarked(j) \/ RowsLapsed(j) \/ RowsPurged(j)
      <4>1. \A i \in Jobs : Verdict(job'[i]) = Verdict(job[i])
        BY <3>4 DEF RowsMarked, RowsLapsed, RowsPurged, Verdict, JobRows
      <4>2. QED
        BY <3>4, <4>1 DEF RowsMarked, RowsLapsed, RowsPurged, Contract!contractVars
    <3>5. QED
      BY <2>2, <3>1, <3>2, <3>3, <3>4 DEF RowStep
  <2>3. QED
    BY <2>1, <2>2, StepRows
<1>3. QED
  BY <1>1, <1>2, Invariance, TypeCorrect, PTL
     DEF Spec, KeepsContract, Contract!Spec
-----------------------------------------------------------------------------
(***************************************************************************)
(* Provider calls.  A step moves at most one worker, and with it the row   *)
(* of the job it holds: when it claims the job, or when it settles or      *)
(* marks it, under its own token or under no live lease.                   *)
(***************************************************************************)
GoesOn(w) ==
  /\ pc[w] # "idle" /\ pc'[w] \notin {"idle", "prepare", "call"}
  /\ held'[w] = held[w] /\ tok'[w] = tok[w]
  /\ UNCHANGED claims

Moves(w) ==
  LET j == held[w].job IN
  /\ UNCHANGED lapses
  /\ \A v \in Workers \ {w} : pc'[v] = pc[v] /\ held'[v] = held[v] /\ tok'[v] = tok[v]
  /\ \/ pc'[w] = "prepare" /\ tok'[w] = NoToken /\ UNCHANGED <<job, claims>>
     \/ pc'[w] = "idle" /\ tok'[w] = NoToken /\ UNCHANGED <<job, claims>>
     \/ GoesOn(w) /\ UNCHANGED job
     \/ /\ GoesOn(w) /\ pc[w] # "call"
        /\ job[j].token = tok[w] \/ ~LeaseHolds(job[j])
        /\ \E row : job' = [job EXCEPT ![j] = row]
     \/ /\ pc[w] = "prepare" /\ held'[w] = held[w] /\ ~LeaseHolds(job[j])
        /\ claims' = [claims EXCEPT ![j] = @ + 1]
        /\ pc'[w] \in {"call", "raised"} /\ tok'[w] \in {NoToken, claims[j] + 1}
        /\ \E row : /\ job' = [job EXCEPT ![j] = row]
                    /\ pc'[w] = "call" => LeaseHolds(row) /\ row.token = tok'[w]

LEMMA StepMoves ==
  ASSUME TypeOK, [Next]_vars
  PROVE  \/ UNCHANGED <<job, claims, lapses, procs>>
         \/ \E j \in Jobs : LapseLease(j)
         \/ \E w \in Workers : Moves(w)
<1>0. ProcTypes /\ RowTypes
  BY DEF TypeOK, ProcTypes, RowTypes
<1>1. CASE UNCHANGED vars
  BY <1>1 DEF vars, rows, delivery
<1>2. ASSUME NEW j \in Jobs, Publish(j) \/ PurgePhoto(j)
      PROVE  UNCHANGED <<job, claims, lapses, procs>>
  BY <1>2 DEF Publish, SendEvent, PurgePhoto, rows
<1>3. ASSUME NEW w \in Workers, NEW m \in Messages, Deliver(w, m)
      PROVE  Moves(w)
  BY <1>0, <1>3 DEF Deliver, Take, Moves, ProcTypes, rows
<1>4. ASSUME NEW w \in Workers, WorkerLost(w) \/ Ack(w)
      PROVE  Moves(w)
  BY <1>0, <1>4 DEF WorkerLost, LoseWorker, Ack, Acknowledge, Moves, ProcTypes, rows
<1>5. ASSUME NEW w \in Workers, WorkerStep(w), ~Ack(w)
      PROVE  Moves(w)
  <2> DEFINE j == held[w].job
             Others == \A v \in Workers \ {w} :
                         pc'[v] = pc[v] /\ held'[v] = held[v] /\ tok'[v] = tok[v]
  <2>1. ASSUME NEW step \in Steps \ {"idle", "prepare", "call"}, Goto(w, step),
               pc[w] # "idle", UNCHANGED <<lapses, claims>>
        PROVE  GoesOn(w) /\ Others
    BY <1>0, <2>1 DEF Goto, GoesOn, ProcTypes
  <2>2. CASE \/ PrepareSkip(w) \/ PrepareError(w) \/ OutcomeError(w) \/ MarkError(w)
             \/ Retry(w) \/ RetryUnpublished(w) \/ FinalizeError(w)
    <3>1. UNCHANGED <<job, claims, lapses>> /\ pc[w] # "idle"
          /\ \E step \in {"raised", "mark", "ack"} : Goto(w, step)
      BY <2>2 DEF PrepareSkip, PrepareError, OutcomeError, MarkError, Retry, PublishRetry,
                  RetryUnpublished, LoseRetry, FinalizeError, rows
    <3>2. QED
      BY <2>1, <3>1 DEF Moves, Steps
  <2>3. CASE \E next \in {"complete", "reject", "finalize", "mark"} : CallProvider(w, next)
    BY <2>1, <2>3 DEF CallProvider, Moves, Steps, rows
  <2>4. ASSUME pc[w] \notin {"idle", "call"}, FinalizeFailure(w)
        PROVE  Moves(w)
    <3>1. GoesOn(w) /\ Others /\ UNCHANGED lapses
      BY <2>1, <2>4 DEF FinalizeFailure, FinalizeWrites, Steps, rows
    <3>2. CASE ~MayFinalize(j, tok[w])
      BY <2>4, <3>1, <3>2 DEF FinalizeFailure, Moves, rows
    <3>3. CASE MayFinalize(j, tok[w])
      BY <2>4, <3>1, <3>3 DEF FinalizeFailure, FinalizeWrites, MayFinalize, Finalizable, Moves
    <3>4. QED
      BY <3>2, <3>3
  <2>5. CASE Reject(w) \/ Finalize(w) \/ Exhaust(w)
    BY <2>4, <2>5 DEF Reject, Finalize, Exhaust
  <2>6. CASE RejectAckLost(w)
    <3>1. GoesOn(w) /\ Others /\ UNCHANGED lapses /\ pc[w] # "call"
      BY <2>1, <2>6 DEF RejectAckLost, FinalizeWrites, Steps
    <3>2. QED
      BY <2>6, <3>1 DEF RejectAckLost, FinalizeWrites, MayFinalize, Finalizable, Moves
  <2>7. CASE Complete(w) \/ CompleteAckLost(w)
    <3>1. GoesOn(w) /\ Others /\ UNCHANGED lapses /\ pc[w] # "call"
      BY <2>1, <2>7 DEF Complete, CompleteAckLost, CompleteWrites, Steps, rows
    <3>2. QED
      BY <2>7, <3>1 DEF Complete, CompleteAckLost, CompleteWrites, IsExecuting, Executing,
                        Moves, rows
  <2>8. CASE MarkRetryable(w) \/ MarkAckLost(w)
    <3>1. GoesOn(w) /\ Others /\ UNCHANGED lapses /\ pc[w] # "call"
      BY <2>1, <2>8 DEF MarkRetryable, MarkAckLost, Steps
    <3>2. QED
      BY <2>8, <3>1 DEF MarkRetryable, MarkAckLost, MayMark, Retryable, Moves
  <2>9. ASSUME NEW new, NEW step \in {"call", "raised"}, NEW t \in {NoToken, claims[j] + 1},
               ClaimWrites(w, new, step, t), step = "call" => LeaseHolds(new) /\ new.token = t
        PROVE  Moves(w)
    <3>1. pc'[w] = step /\ held'[w] = held[w] /\ tok'[w] = t /\ Others
      BY <1>0, <2>9 DEF ClaimWrites, ProcTypes
    <3>2. QED
      BY <2>9, <3>1 DEF ClaimWrites, MayClaim, Claimable, Moves
  <2> DEFINE t == claims[j] + 1
  <2>10. CASE PrepareClaim(w)
    <3>1. j \in Jobs /\ job[j] \in JobRows /\ t \in Nat /\ job[j].status \in OpenStatuses
      BY <1>0, <2>10 DEF PrepareClaim, ClaimWrites, MayClaim, Claimable, TerminalJobStatuses,
                         ProcTypes, RowTypes, Messages, CommittedStatuses, OpenStatuses
    <3>2. LeaseHolds(Claimed(job[j], t)) /\ Claimed(job[j], t).token = t
      BY <3>1, ClaimedRow DEF LeaseHolds, RunningJobStatuses
    <3>3. ClaimWrites(w, Claimed(job[j], t), "call", t) /\ t \in {NoToken, claims[j] + 1}
      BY <2>10 DEF PrepareClaim
    <3> HIDE DEF t
    <3>4. QED
      BY <2>9, <3>2, <3>3
  <2>11. CASE PrepareStorageUnavailable(w)
    <3>1. ClaimWrites(w, Transition(Claimed(job[j], t), "FAILED_RETRYABLE"), "raised", t)
          /\ t \in {NoToken, claims[j] + 1}
      BY <2>11 DEF PrepareStorageUnavailable
    <3> HIDE DEF t
    <3>2. QED
      BY <2>9, <3>1
  <2>12. CASE PrepareAckLost(w)
    BY <2>9, <2>12 DEF PrepareAckLost
  <2>13. QED
    BY <1>5, <2>2, <2>3, <2>5, <2>6, <2>7, <2>8, <2>10, <2>11, <2>12 DEF WorkerStep
<1>6. QED
  BY <1>1, <1>2, <1>3, <1>4, <1>5 DEF Next

(***************************************************************************)
(* Workers on one job have drawn different tokens.  A stale caller is one  *)
(* whose lease is not the live one: each had its lease lapse.              *)
(***************************************************************************)
TokensApart ==
  \A w \in Workers :
    /\ tok[w] # NoToken => pc[w] # "idle" /\ tok[w] <= claims[held[w].job]
    /\ \A v \in Workers \ {w} :
         held[w].job = held[v].job /\ tok[w] = tok[v] => tok[w] = NoToken

Current(w, j) == LeaseHolds(job[j]) /\ job[j].token = tok[w]

StaleCallers(j) == {w \in Calling(j) : ~Current(w, j)}

CallInv ==
  /\ TokensApart
  /\ \A j \in Jobs : /\ IsFiniteSet(StaleCallers(j))
                     /\ Cardinality(StaleCallers(j)) <= lapses[j]

LEMMA OneMore ==
  ASSUME NEW S, IsFiniteSet(S), NEW T, NEW c, T \subseteq S \cup {c}
  PROVE  IsFiniteSet(T) /\ Cardinality(T) \in Nat /\ Cardinality(T) <= Cardinality(S) + 1
<1>1. IsFiniteSet(S \cup {c}) /\ Cardinality(S) \in Nat
  BY FS_AddElement, FS_CardinalityType
<1>2. Cardinality(S \cup {c}) \in {Cardinality(S), Cardinality(S) + 1}
  BY FS_AddElement
<1>3. T \in SUBSET (S \cup {c})
  OBVIOUS
<1>4. IsFiniteSet(T) /\ Cardinality(T) <= Cardinality(S \cup {c})
  BY <1>1, <1>3, FS_Subset
<1>5. Cardinality(T) \in Nat
  BY <1>4, FS_CardinalityType
<1>6. QED
  BY <1>1, <1>2, <1>4, <1>5

LEMMA OneCurrentCaller ==
  ASSUME TypeOK, IInv, TokensApart, NEW j \in Jobs, NEW c \in Calling(j), Current(c, j)
  PROVE  /\ Calling(j) \subseteq StaleCallers(j) \cup {c}
         /\ tok[c] # NoToken
<1>1. tok[c] # NoToken
  BY DEF Current, LeaseHolds, RunningJobStatuses, TypeOK, CommittedStatuses, IInv, ClaimsOnRow,
         NoToken
<1>2. QED
  BY <1>1 DEF TokensApart, StaleCallers, Current, Calling

LEMMA TokensStayApart ==
  ASSUME TypeOK, TokensApart, NEW w \in Workers, Moves(w)
  PROVE  TokensApart'
<1>1. \A v \in Workers \ {w} : pc'[v] = pc[v] /\ held'[v] = held[v] /\ tok'[v] = tok[v]
  BY DEF Moves
<1>2. \A v \in Workers : pc[v] # "idle" => held[v].job \in Jobs
  BY DEF TypeOK, Messages
<1>3. CASE tok'[w] = NoToken /\ UNCHANGED claims
  BY <1>1, <1>3 DEF TokensApart
<1>4. CASE GoesOn(w)
  BY <1>1, <1>4 DEF TokensApart, GoesOn
<1>5. ASSUME pc[w] = "prepare", held'[w] = held[w], pc'[w] # "idle",
             claims' = [claims EXCEPT ![held[w].job] = @ + 1],
             tok'[w] \in {NoToken, claims[held[w].job] + 1}
      PROVE  TokensApart'
  <2>1. claims[held[w].job] \in Nat /\ claims'[held[w].job] = claims[held[w].job] + 1
    BY <1>2, <1>5 DEF TypeOK
  <2>2. \A i \in Jobs : claims[i] \in Nat /\ claims[i] <= claims'[i]
    BY <1>5 DEF TypeOK
  <2>3. \A v \in Workers : tok[v] \in Nat
    BY DEF TypeOK
  <2>4. ASSUME NEW v \in Workers \ {w}
        PROVE  /\ tok'[v] # NoToken => pc'[v] # "idle" /\ tok'[v] <= claims'[held'[v].job]
               /\ held'[w].job = held'[v].job /\ tok'[w] = tok'[v] => tok'[w] = NoToken
    <3>1. tok[v] # NoToken => /\ pc[v] # "idle" /\ held[v].job \in Jobs
                              /\ tok[v] <= claims[held[v].job]
      BY <1>2 DEF TokensApart
    <3>2. QED
      BY <1>1, <1>5, <2>1, <2>2, <2>3, <3>1 DEF NoToken
  <2>5. tok'[w] # NoToken => pc'[w] # "idle" /\ tok'[w] <= claims'[held'[w].job]
    BY <1>5, <2>1
  <2>6. \A u, v \in Workers \ {w} :
          u # v /\ held'[u].job = held'[v].job /\ tok'[u] = tok'[v] => tok'[u] = NoToken
    BY <1>1 DEF TokensApart
  <2>7. QED
    BY <2>4, <2>5, <2>6 DEF TokensApart
<1>6. QED
  BY <1>3, <1>4, <1>5 DEF Moves

(***************************************************************************)
(* Only a lapse makes a caller stale, and only one.                        *)
(***************************************************************************)
LEMMA StaleByLapse ==
  ASSUME TypeOK, IInv, TokensApart, NEW j \in Jobs, LapseLease(j)
  PROVE  \E c : StaleCallers(j)' \subseteq StaleCallers(j) \cup {c}
<1>1. Calling(j)' = Calling(j)
  BY DEF LapseLease, Calling, delivery, procs
<1>2. CASE \E c \in Calling(j) : Current(c, j)
  BY <1>1, <1>2, OneCurrentCaller DEF StaleCallers
<1>3. CASE ~ \E c \in Calling(j) : Current(c, j)
  BY <1>1, <1>3 DEF StaleCallers
<1>4. QED
  BY <1>2, <1>3

LEMMA StaleByMove ==
  ASSUME TypeOK, IInv, TokensApart, NEW w \in Workers, Moves(w), NEW j \in Jobs
  PROVE  StaleCallers(j)' \subseteq StaleCallers(j)
<1> SUFFICES ASSUME NEW v \in Workers, v \in StaleCallers(j)'
             PROVE  v \in StaleCallers(j)
  BY DEF StaleCallers, Calling
<1>1. \A u \in Workers \ {w} : pc'[u] = pc[u] /\ held'[u] = held[u] /\ tok'[u] = tok[u]
  BY DEF Moves
<1>2. pc'[v] = "call" /\ held'[v].job = j /\ ~(LeaseHolds(job'[j]) /\ job'[j].token = tok'[v])
  BY DEF StaleCallers, Calling, Current
<1>3. CASE UNCHANGED job /\ v # w
  BY <1>1, <1>2, <1>3 DEF StaleCallers, Calling, Current
<1>4. CASE pc'[w] # "call" /\ \E row : job' = [job EXCEPT ![held[w].job] = row]
  <2>1. v # w /\ v \in Calling(j)
    BY <1>1, <1>2, <1>4 DEF Calling
  <2>2. CASE held[w].job # j
    BY <1>1, <1>2, <1>4, <2>1, <2>2 DEF StaleCallers, Current, TypeOK
  <2>3. CASE held[w].job = j /\ ~LeaseHolds(job[j])
    BY <2>1, <2>3 DEF StaleCallers, Current
  <2>4. CASE held[w].job = j /\ job[j].token = tok[w] /\ pc[w] # "call"
    <3>1. ~Current(v, j)
      BY <2>1, <2>4, OneCurrentCaller DEF TokensApart, Current, Calling
    <3>2. QED
      BY <2>1, <3>1 DEF StaleCallers
  <2>5. (job[held[w].job].token = tok[w] /\ pc[w] # "call") \/ ~LeaseHolds(job[held[w].job])
        \/ UNCHANGED job
    BY <1>4 DEF Moves
  <2>6. QED
    BY <1>3, <2>1, <2>2, <2>3, <2>4, <2>5
<1>5. CASE pc'[w] = "call" /\ held'[w] = held[w] /\ ~LeaseHolds(job[held[w].job])
           /\ \E row : /\ job' = [job EXCEPT ![held[w].job] = row]
                       /\ LeaseHolds(row) /\ row.token = tok'[w]
  <2>1. v # w
    BY <1>2, <1>5 DEF TypeOK
  <2>2. v \in Calling(j)
    BY <1>1, <1>2, <2>1 DEF Calling
  <2>3. CASE held[w].job # j
    BY <1>1, <1>2, <1>5, <2>1, <2>2, <2>3 DEF StaleCallers, Current, TypeOK
  <2>4. CASE held[w].job = j
    BY <1>5, <2>2, <2>4 DEF StaleCallers, Current
  <2>5. QED
    BY <2>3, <2>4
<1>6. QED
  BY <1>2, <1>3, <1>4, <1>5 DEF Moves, GoesOn

LEMMA CallStep ==
  ASSUME TypeOK, IInv, CallInv, [Next]_vars
  PROVE  CallInv'
<1>1. CASE UNCHANGED <<job, claims, lapses, procs>>
  BY <1>1 DEF CallInv, TokensApart, StaleCallers, Calling, Current, procs
<1>2. ASSUME NEW j \in Jobs, LapseLease(j)
      PROVE  CallInv'
  <2>1. TokensApart'
    BY <1>2 DEF LapseLease, CallInv, TokensApart, delivery, procs
  <2>2. \A i \in Jobs \ {j} : StaleCallers(i)' = StaleCallers(i) /\ lapses'[i] = lapses[i]
    BY <1>2 DEF LapseLease, StaleCallers, Calling, Current, TypeOK, delivery, procs
  <2>3. PICK c : StaleCallers(j)' \subseteq StaleCallers(j) \cup {c}
    BY <1>2, StaleByLapse DEF CallInv
  <2>4. lapses'[j] = lapses[j] + 1 /\ lapses[j] \in Nat
    BY <1>2 DEF LapseLease, TypeOK
  <2>5. IsFiniteSet(StaleCallers(j)) /\ Cardinality(StaleCallers(j)) <= lapses[j]
        /\ Cardinality(StaleCallers(j)) \in Nat
    BY FS_CardinalityType DEF CallInv
  <2>6. IsFiniteSet(StaleCallers(j)') /\ Cardinality(StaleCallers(j)') \in Nat
        /\ Cardinality(StaleCallers(j)') <= Cardinality(StaleCallers(j)) + 1
    BY <2>3, <2>5, OneMore
  <2>7. Cardinality(StaleCallers(j)') <= lapses'[j]
    BY <2>4, <2>5, <2>6
  <2>8. QED
    BY <2>1, <2>2, <2>6, <2>7 DEF CallInv
<1>3. ASSUME NEW w \in Workers, Moves(w)
      PROVE  CallInv'
  <2>1. lapses' = lapses
    BY <1>3 DEF Moves
  <2>2. ASSUME NEW j \in Jobs
        PROVE  IsFiniteSet(StaleCallers(j)') /\ Cardinality(StaleCallers(j)') <= lapses'[j]
    BY <1>3, <2>1, StaleByMove, FS_Subset, FS_CardinalityType DEF CallInv, TypeOK
  <2>3. QED
    BY <1>3, <2>2, TokensStayApart DEF CallInv
<1>4. QED
  BY <1>1, <1>2, <1>3, StepMoves

(***************************************************************************)
(* However many messages and workers there are: one worker calls the       *)
(* provider for a job, and one more for each lease that lapsed.            *)
(***************************************************************************)
THEOREM CallsFollowLeases == Spec => []OneCallPerLease
<1>1. Init => CallInv
  <2> SUFFICES ASSUME Init
               PROVE  CallInv
    OBVIOUS
  <2>1. \A j \in Jobs : StaleCallers(j) = {} /\ lapses[j] = 0
    BY DEF Init, InitDelivery, StaleCallers, Calling
  <2>2. TokensApart
    BY DEF Init, InitDelivery, TokensApart
  <2>3. QED
    BY <2>1, <2>2, FS_EmptySet DEF CallInv
<1>2. TypeOK /\ IInv /\ CallInv => OneCallPerLease
  <2> SUFFICES ASSUME TypeOK, IInv, CallInv, NEW j \in Jobs
               PROVE  Cardinality(Calling(j)) <= 1 + lapses[j]
    BY DEF OneCallPerLease
  <2>1. \E c : Calling(j) \subseteq StaleCallers(j) \cup {c}
    BY OneCurrentCaller DEF StaleCallers, CallInv
  <2>2. PICK c : Calling(j) \subseteq StaleCallers(j) \cup {c}
    BY <2>1
  <2>3. IsFiniteSet(StaleCallers(j)) /\ Cardinality(StaleCallers(j)) <= lapses[j]
        /\ Cardinality(StaleCallers(j)) \in Nat /\ lapses[j] \in Nat
    BY FS_CardinalityType DEF CallInv, TypeOK
  <2>4. QED
    BY <2>2, <2>3, OneMore
<1>3. QED
  BY <1>1, <1>2, CallStep, Invariance, TypeCorrect, PTL DEF Spec

-----------------------------------------------------------------------------
(***************************************************************************)
(* Attempts.  A message with retries r may still lead to the claims of the *)
(* retries r to MaxRetries: in the queue, and while a worker prepares it.  *)
(* Afterwards r is used up.  What is due and what was claimed is never     *)
(* more than what was sent, repeated deliveries included.                  *)
(***************************************************************************)
Queued(j) ==
  {x \in (Messages \X Nat) \X (0 .. MaxRetries) :
     /\ x[1][1].job = j /\ x[1][2] < queue[x[1][1]]
     /\ x[1][1].retries <= x[2]}

NextClaim(w) == IF pc[w] = "prepare" THEN held[w].retries ELSE held[w].retries + 1

InHands(j) ==
  {x \in Workers \X (0 .. MaxRetries) :
     /\ pc[x[1]] \notin {"idle", "ack"} /\ held[x[1]].job = j
     /\ NextClaim(x[1]) <= x[2]}

Turns(p, a) == {p} \X (a .. MaxRetries)

Worth(a) == MaxRetries + 1 - a

LEMMA TurnCount ==
  ASSUME NEW p, NEW a \in 0 .. MaxRetries + 1
  PROVE  IsFiniteSet(Turns(p, a)) /\ Cardinality(Turns(p, a)) = Worth(a)
<1>1. IsFiniteSet({p}) /\ Cardinality({p}) = 1
  BY FS_Singleton
<1>2. a \in Int /\ MaxRetries \in Int
  BY RetriesAssumption
<1>3. IsFiniteSet(a .. MaxRetries)
      /\ Cardinality(a .. MaxRetries) = IF a > MaxRetries THEN 0 ELSE MaxRetries - a + 1
  BY <1>2, FS_Interval
<1>4. Cardinality(a .. MaxRetries) = Worth(a)
  BY <1>3, RetriesAssumption DEF Worth
<1>5. IsFiniteSet(Turns(p, a))
      /\ Cardinality(Turns(p, a)) = Cardinality({p}) * Cardinality(a .. MaxRetries)
  BY <1>1, <1>3, FS_Product DEF Turns
<1>6. QED
  BY <1>1, <1>4, <1>5, RetriesAssumption DEF Worth

LEMMA Fewer ==
  ASSUME NEW S, IsFiniteSet(S), NEW T, T \subseteq S
  PROVE  /\ IsFiniteSet(T) /\ Cardinality(T) \in Nat /\ Cardinality(S) \in Nat
         /\ Cardinality(T) <= Cardinality(S)
BY FS_Subset, FS_CardinalityType

LEMMA TurnsWon ==
  ASSUME NEW S, IsFiniteSet(S), NEW p, NEW a \in 0 .. MaxRetries + 1,
         NEW T, T \subseteq S \cup Turns(p, a)
  PROVE  /\ IsFiniteSet(T) /\ Cardinality(T) \in Nat /\ Cardinality(S) \in Nat
         /\ Cardinality(T) <= Cardinality(S) + Worth(a)
<1> DEFINE R == Turns(p, a)
<1>1. IsFiniteSet(R) /\ Cardinality(R) = Worth(a)
  BY TurnCount
<1>2. IsFiniteSet(S \cup R)
      /\ Cardinality(S \cup R) = Cardinality(S) + Cardinality(R) - Cardinality(S \cap R)
  BY <1>1, FS_Union
<1>3. Cardinality(S \cap R) \in Nat /\ Cardinality(S) \in Nat /\ Cardinality(R) \in Nat
  BY <1>1, FS_Intersection, FS_CardinalityType
<1>4. /\ IsFiniteSet(T) /\ Cardinality(T) \in Nat
      /\ Cardinality(T) <= Cardinality(S \cup R) /\ Cardinality(S \cup R) \in Nat
  BY <1>2, Fewer
<1>5. QED
  BY <1>1, <1>2, <1>3, <1>4

LEMMA TurnsLost ==
  ASSUME NEW S, IsFiniteSet(S), NEW p, NEW a \in 0 .. MaxRetries + 1,
         Turns(p, a) \subseteq S, NEW T, T \subseteq S \ Turns(p, a)
  PROVE  /\ IsFiniteSet(T) /\ Cardinality(T) \in Nat /\ Cardinality(S) \in Nat
         /\ Cardinality(T) <= Cardinality(S) - Worth(a)
<1> DEFINE R == Turns(p, a)
<1>1. Cardinality(R) = Worth(a)
  BY TurnCount
<1>2. IsFiniteSet(S \ R) /\ Cardinality(S \ R) = Cardinality(S) - Cardinality(S \cap R)
  BY FS_Difference
<1>3. S \cap R = R
  OBVIOUS
<1>4. /\ IsFiniteSet(T) /\ Cardinality(T) \in Nat
      /\ Cardinality(T) <= Cardinality(S \ R) /\ Cardinality(S \ R) \in Nat
  BY <1>2, Fewer
<1>5. Cardinality(S) \in Nat
  BY FS_CardinalityType
<1>6. QED
  BY <1>1, <1>2, <1>3, <1>4, <1>5

(***************************************************************************)
(* The turns a step wins or loses.                                         *)
(***************************************************************************)
LEMMA CopyAdded ==
  ASSUME TypeOK, NEW m \in Messages, queue' = [queue EXCEPT ![m] = @ + 1], NEW j \in Jobs
  PROVE  Queued(j)' \subseteq IF m.job = j THEN Queued(j) \cup Turns(<<m, queue[m]>>, m.retries)
                                           ELSE Queued(j)
<1> SUFFICES ASSUME NEW n \in Messages, NEW k \in Nat, NEW i \in 0 .. MaxRetries,
                    n.job = j, k < queue'[n], n.retries <= i,
                    <<<<n, k>>, i>> \notin Queued(j)
             PROVE  m.job = j /\ <<<<n, k>>, i>> \in Turns(<<m, queue[m]>>, m.retries)
  BY DEF Queued
<1>1. queue \in [Messages -> Nat]
  BY DEF TypeOK
<1>2. ~(k < queue[n])
  BY DEF Queued
<1>3. n = m /\ k = queue[m]
  BY <1>1, <1>2
<1>4. m.retries \in 0 .. MaxRetries
  BY DEF Messages
<1>5. i \in m.retries .. MaxRetries
  BY <1>3, <1>4, RetriesAssumption
<1>6. QED
  BY <1>3, <1>5 DEF Turns

LEMMA CopyTaken ==
  ASSUME TypeOK, NEW m \in Messages, queue[m] > 0, queue' = [queue EXCEPT ![m] = @ - 1],
         NEW j \in Jobs
  PROVE  IF m.job = j
           THEN /\ Turns(<<m, queue[m] - 1>>, m.retries) \subseteq Queued(j)
                /\ Queued(j)' \subseteq Queued(j) \ Turns(<<m, queue[m] - 1>>, m.retries)
           ELSE Queued(j)' \subseteq Queued(j)
<1>0. queue \in [Messages -> Nat] /\ m.retries \in 0 .. MaxRetries
  BY DEF TypeOK, Messages
<1>1. queue \in [Messages -> Nat] /\ queue[m] - 1 \in Nat /\ m.retries \in 0 .. MaxRetries
  BY <1>0
<1>2. \A n \in Messages : queue'[n] <= queue[n] /\ queue'[m] = queue[m] - 1
  BY <1>1
<1>3. Queued(j)' \subseteq Queued(j)
  BY <1>1, <1>2 DEF Queued
<1>4. \A x \in Turns(<<m, queue[m] - 1>>, m.retries) :
        \E i \in m.retries .. MaxRetries : x = <<<<m, queue[m] - 1>>, i>>
  BY DEF Turns
<1>5. Turns(<<m, queue[m] - 1>>, m.retries) \cap Queued(j)' = {}
  BY <1>1, <1>2, <1>4 DEF Queued
<1>6. m.job = j => Turns(<<m, queue[m] - 1>>, m.retries) \subseteq Queued(j)
  BY <1>1, <1>4, RetriesAssumption DEF Queued
<1>7. QED
  BY <1>3, <1>5, <1>6

(***************************************************************************)
(* A worker that stays with its message does not get back a turn.          *)
(***************************************************************************)
StaysOrEnds ==
  \A w \in Workers :
    pc'[w] \in {"idle", "ack"} \/ /\ pc[w] \notin {"idle", "ack"} /\ held'[w] = held[w]
                                  /\ pc'[w] = "prepare" => pc[w] = "prepare"

LEMMA NoTurnsBack ==
  ASSUME TypeOK, StaysOrEnds, NEW j \in Jobs
  PROVE  InHands(j)' \subseteq InHands(j)
<1> SUFFICES ASSUME NEW w \in Workers, NEW i \in 0 .. MaxRetries, pc'[w] \notin {"idle", "ack"},
                    held'[w].job = j, NextClaim(w)' <= i
             PROVE  /\ pc[w] \notin {"idle", "ack"} /\ held[w].job = j /\ NextClaim(w) <= i
  BY DEF InHands
<1>1. pc[w] \notin {"idle", "ack"} /\ held'[w] = held[w] /\ (pc'[w] = "prepare" => pc[w] = "prepare")
  BY DEF StaysOrEnds
<1>2. held[w].retries \in 0 .. MaxRetries
  BY <1>1 DEF TypeOK, Messages
<1>3. QED
  BY <1>1, <1>2, RetriesAssumption DEF NextClaim

(***************************************************************************)
(* The steps that send, deliver, repeat or claim; no other moves a turn.   *)
(***************************************************************************)
Claims(w) ==
  /\ pc[w] = "prepare"
  /\ \E step \in {"call", "raised"} : pc' = [pc EXCEPT ![w] = step]
  /\ claims' = [claims EXCEPT ![held[w].job] = @ + 1]
  /\ faults' \in {faults, faults + 1}
  /\ UNCHANGED <<held, queue, published>>

NoTurn ==
  /\ StaysOrEnds
  /\ faults' \in {faults, faults + 1}
  /\ UNCHANGED <<claims, queue, published>>

LEMMA StepTurns ==
  ASSUME TypeOK, [Next]_vars
  PROVE  \/ \E j \in Jobs : Publish(j)
         \/ \E w \in Workers : \/ \E m \in Messages : Deliver(w, m)
                               \/ WorkerLost(w) \/ Retry(w) \/ Claims(w)
         \/ NoTurn
<1>0. ProcTypes
  BY DEF TypeOK, ProcTypes
<1>1. CASE UNCHANGED vars
  BY <1>1 DEF vars, rows, delivery, procs, NoTurn, StaysOrEnds
<1>2. ASSUME NEW j \in Jobs, LapseLease(j) \/ PurgePhoto(j)
      PROVE  NoTurn
  BY <1>2 DEF LapseLease, PurgePhoto, Fault, delivery, procs, NoTurn, StaysOrEnds
<1>3. ASSUME NEW w \in Workers, PrepareClaim(w) \/ PrepareStorageUnavailable(w) \/ PrepareAckLost(w)
      PROVE  Claims(w)
  BY <1>3 DEF PrepareClaim, PrepareStorageUnavailable, PrepareAckLost, ClaimWrites, Fault, Claims
<1>4. ASSUME NEW w \in Workers, pc[w] # "idle", NEW step \in Steps \ {"idle", "prepare"},
             pc[w] = "ack" => step = "ack", Goto(w, step), UNCHANGED <<claims, queue, published>>,
             faults' \in {faults, faults + 1}
      PROVE  NoTurn
  BY <1>0, <1>4 DEF Goto, NoTurn, StaysOrEnds, ProcTypes
<1>5. ASSUME NEW w \in Workers, Ack(w)
      PROVE  NoTurn
  BY <1>0, <1>5 DEF Ack, Acknowledge, NoTurn, StaysOrEnds, ProcTypes, rows
<1>6. ASSUME NEW w \in Workers, \/ PrepareSkip(w) \/ PrepareError(w) \/ OutcomeError(w)
                                \/ MarkError(w) \/ MarkRetryable(w) \/ MarkAckLost(w)
                                \/ RetryUnpublished(w) \/ FinalizeError(w)
      PROVE  NoTurn
  <2>1. /\ pc[w] \notin {"idle", "ack"} /\ UNCHANGED <<claims, queue, published>>
        /\ \E step \in {"raised", "mark", "ack"} : Goto(w, step)
        /\ faults' \in {faults, faults + 1}
    BY <1>6 DEF PrepareSkip, PrepareError, OutcomeError, MarkError, MarkRetryable, MarkAckLost,
                RetryUnpublished, LoseRetry, FinalizeError, Fault, rows
  <2>2. QED
    BY <1>4, <2>1 DEF Steps
<1>7. ASSUME NEW w \in Workers,
             \/ \E next \in {"complete", "reject", "finalize", "mark"} : CallProvider(w, next)
             \/ Complete(w) \/ CompleteAckLost(w) \/ Reject(w) \/ RejectAckLost(w)
             \/ Finalize(w) \/ Exhaust(w)
      PROVE  NoTurn
  <2>1. /\ pc[w] \notin {"idle", "ack"} /\ UNCHANGED <<claims, queue, published>>
        /\ \E step \in {"complete", "reject", "finalize", "mark", "ack"} : Goto(w, step)
        /\ faults' \in {faults, faults + 1}
    BY <1>7 DEF CallProvider, Complete, CompleteAckLost, CompleteWrites, Reject, RejectAckLost,
                Finalize, Exhaust, FinalizeFailure, FinalizeWrites, Fault, rows
  <2>2. QED
    BY <1>4, <2>1 DEF Steps
<1>8. QED
  BY <1>1, <1>2, <1>3, <1>5, <1>6, <1>7 DEF Next, WorkerStep

Budget(j) == (published[j] + faults) * (MaxRetries + 1)

LEMMA Products ==
  ASSUME NEW n \in Nat
  PROVE  /\ n * (MaxRetries + 1) \in Nat
         /\ (n + 1) * (MaxRetries + 1) = n * (MaxRetries + 1) + MaxRetries + 1
BY RetriesAssumption

LEMMA BudgetGrows ==
  ASSUME TypeOK, NEW j \in Jobs
  PROVE  /\ Budget(j) \in Nat
         /\ published'[j] = published[j] /\ faults' \in {faults, faults + 1} =>
              Budget(j)' >= Budget(j) /\ Budget(j)' \in Nat
         /\ \/ published'[j] = published[j] /\ faults' = faults + 1
            \/ published'[j] = published[j] + 1 /\ faults' = faults
            => Budget(j)' = Budget(j) + MaxRetries + 1
<1> DEFINE n == published[j] + faults
<1>1. n \in Nat /\ published[j] \in Nat /\ faults \in Nat
  BY DEF TypeOK
<1>2. Budget(j) = n * (MaxRetries + 1)
  BY DEF Budget
<1>3. Budget(j)' = (published'[j] + faults') * (MaxRetries + 1)
  BY DEF Budget
<1>4. /\ published'[j] = published[j] /\ faults' = faults => Budget(j)' = n * (MaxRetries + 1)
      /\ published'[j] = published[j] /\ faults' = faults + 1 => Budget(j)' = (n + 1) * (MaxRetries + 1)
      /\ published'[j] = published[j] + 1 /\ faults' = faults => Budget(j)' = (n + 1) * (MaxRetries + 1)
  BY <1>1, <1>3
<1> HIDE DEF n
<1>5. QED
  BY <1>1, <1>2, <1>4, Products, RetriesAssumption

AttemptInv ==
  \A j \in Jobs :
    /\ IsFiniteSet(Queued(j)) /\ IsFiniteSet(InHands(j))
    /\ claims[j] + Cardinality(Queued(j)) + Cardinality(InHands(j)) <= Budget(j)

(***************************************************************************)
(* Each kind of step keeps claims and turns within the budget.             *)
(***************************************************************************)
LEMMA AttemptStep ==
  ASSUME TypeOK, AttemptInv, [Next]_vars
  PROVE  AttemptInv'
<1> SUFFICES ASSUME NEW j \in Jobs
             PROVE  /\ IsFiniteSet(Queued(j)') /\ IsFiniteSet(InHands(j)')
                    /\ claims'[j] + Cardinality(Queued(j)') + Cardinality(InHands(j)') <= Budget(j)'
  BY DEF AttemptInv
<1> DEFINE Q == Queued(j)
           H == InHands(j)
           Good == /\ IsFiniteSet(Q') /\ IsFiniteSet(H')
                   /\ claims'[j] + Cardinality(Q') + Cardinality(H') <= Budget(j)'
<1>1. /\ IsFiniteSet(Q) /\ IsFiniteSet(H)
      /\ claims[j] + Cardinality(Q) + Cardinality(H) <= Budget(j)
      /\ claims[j] \in Nat /\ Budget(j) \in Nat
      /\ Cardinality(Q) \in Nat /\ Cardinality(H) \in Nat
  BY BudgetGrows, FS_CardinalityType DEF AttemptInv, TypeOK
<1>2. ProcTypes /\ \A w \in Workers : pc[w] # "idle" =>
        held[w] \in Messages /\ held[w].job \in Jobs /\ held[w].retries \in 0 .. MaxRetries
  BY DEF TypeOK, ProcTypes, Messages
<1>3. \A m \in Messages : m.retries \in 0 .. MaxRetries /\ m.retries \in 0 .. MaxRetries + 1
  BY RetriesAssumption DEF Messages
<1>4. StaysOrEnds => H' \subseteq H
  BY NoTurnsBack
<1>5. queue' = queue => Q' = Q
  BY DEF Queued
<1> HIDE DEF Q, H
<1>6. CASE NoTurn
  <2>1. Q' = Q /\ H' \subseteq H /\ claims'[j] = claims[j] /\ published'[j] = published[j]
        /\ faults' \in {faults, faults + 1}
    BY <1>4, <1>5, <1>6 DEF NoTurn
  <2>2. IsFiniteSet(H') /\ Cardinality(H') \in Nat /\ Cardinality(H') <= Cardinality(H)
    BY <1>1, <2>1, Fewer
  <2>3. QED
    BY <1>1, <2>1, <2>2, BudgetGrows DEF Q, H
<1>7. ASSUME NEW i \in Jobs, Publish(i)
      PROVE  Good
  <2> DEFINE m == [job |-> i, retries |-> 0]
  <2>1. /\ queue' = [queue EXCEPT ![m] = @ + 1] /\ published' = [published EXCEPT ![i] = @ + 1]
        /\ UNCHANGED <<claims, faults, pc, held>>
    BY <1>7 DEF Publish, SendEvent, procs, rows
  <2>2. m \in Messages /\ m.job = i /\ m.retries = 0
    BY RetriesAssumption DEF Messages
  <2> HIDE DEF m
  <2>3. H' = H
    BY <2>1 DEF H, InHands, NextClaim
  <2>4. CASE i = j
    <3>1. Q' \subseteq Q \cup Turns(<<m, queue[m]>>, 0)
      BY <2>1, <2>2, <2>4, CopyAdded DEF Q
    <3>2. IsFiniteSet(Q') /\ Cardinality(Q') \in Nat /\ Cardinality(Q') <= Cardinality(Q) + Worth(0)
      BY <1>1, <1>3, <2>2, <3>1, TurnsWon
    <3>3. Budget(j)' = Budget(j) + MaxRetries + 1
      BY <2>1, <2>4, BudgetGrows DEF TypeOK
    <3>4. QED
      BY <1>1, <2>1, <2>3, <3>2, <3>3, RetriesAssumption DEF Worth
  <2>5. CASE i # j
    <3>1. Q' \subseteq Q
      BY <2>1, <2>2, <2>5, CopyAdded DEF Q
    <3>2. IsFiniteSet(Q') /\ Cardinality(Q') \in Nat /\ Cardinality(Q') <= Cardinality(Q)
      BY <1>1, <3>1, Fewer
    <3>3. Budget(j)' >= Budget(j) /\ Budget(j)' \in Nat
      BY <2>1, <2>5, BudgetGrows DEF TypeOK
    <3>4. QED
      BY <1>1, <2>1, <2>3, <3>2, <3>3
  <2>6. QED
    BY <2>4, <2>5
<1>8. ASSUME NEW w \in Workers, NEW m \in Messages, Deliver(w, m)
      PROVE  Good
  <2>1. /\ pc[w] = "idle" /\ queue[m] > 0 /\ queue' = [queue EXCEPT ![m] = @ - 1]
        /\ pc' = [pc EXCEPT ![w] = "prepare"] /\ held' = [held EXCEPT ![w] = m]
        /\ UNCHANGED <<claims, published, faults>>
    BY <1>8 DEF Deliver, Take, rows
  <2>2. Budget(j)' = Budget(j)
    BY <2>1 DEF Budget
  <2>3. \A x \in H' : x \in H \/ x[1] = w
    BY <1>2, <2>1 DEF H, InHands, NextClaim, ProcTypes
  <2>4. CASE m.job # j
    <3>1. Q' \subseteq Q
      BY <2>1, <2>4, CopyTaken DEF Q
    <3>2. H' \subseteq H
      BY <1>2, <2>1, <2>3, <2>4 DEF H, InHands, ProcTypes
    <3>3. /\ IsFiniteSet(Q') /\ Cardinality(Q') \in Nat /\ Cardinality(Q') <= Cardinality(Q)
          /\ IsFiniteSet(H') /\ Cardinality(H') \in Nat /\ Cardinality(H') <= Cardinality(H)
      BY <1>1, <3>1, <3>2, Fewer
    <3>4. QED
      BY <1>1, <2>1, <2>2, <3>3
  <2>5. CASE m.job = j
    <3> DEFINE p == <<m, queue[m] - 1>>
    <3>1. Turns(p, m.retries) \subseteq Q /\ Q' \subseteq Q \ Turns(p, m.retries)
      BY <2>1, <2>5, CopyTaken DEF Q
    <3> HIDE DEF p
    <3>2. H' \subseteq H \cup Turns(w, m.retries)
      <4> SUFFICES ASSUME NEW i \in 0 .. MaxRetries, <<w, i>> \in H'
                   PROVE  <<w, i>> \in Turns(w, m.retries)
        BY <2>3 DEF H, InHands
      <4>1. m.retries <= i
        BY <1>2, <2>1 DEF H, InHands, NextClaim, ProcTypes
      <4>2. QED
        BY <1>3, <4>1, RetriesAssumption DEF Turns
    <3>3. IsFiniteSet(Q') /\ Cardinality(Q') \in Nat
          /\ Cardinality(Q') <= Cardinality(Q) - Worth(m.retries)
      BY <1>1, <1>3, <3>1, TurnsLost
    <3>4. IsFiniteSet(H') /\ Cardinality(H') \in Nat
          /\ Cardinality(H') <= Cardinality(H) + Worth(m.retries)
      BY <1>1, <1>3, <3>2, TurnsWon
    <3>5. QED
      BY <1>1, <1>3, <2>1, <2>2, <3>3, <3>4, RetriesAssumption DEF Worth
  <2>6. QED
    BY <2>4, <2>5
<1>9. ASSUME NEW w \in Workers, WorkerLost(w)
      PROVE  Good
  <2> DEFINE m == held[w]
  <2>1. /\ m \in Messages /\ queue' = [queue EXCEPT ![m] = @ + 1] /\ faults' = faults + 1
        /\ pc' = [pc EXCEPT ![w] = "idle"] /\ held' = [held EXCEPT ![w] = NoMessage]
        /\ UNCHANGED <<claims, published>>
    BY <1>2, <1>9 DEF WorkerLost, LoseWorker, Fault, rows
  <2> HIDE DEF m
  <2>2. StaysOrEnds
    BY <1>2, <2>1 DEF StaysOrEnds, ProcTypes
  <2>3. IsFiniteSet(H') /\ Cardinality(H') \in Nat /\ Cardinality(H') <= Cardinality(H)
    BY <1>1, <1>4, <2>2, Fewer
  <2>4. IsFiniteSet(Q') /\ Cardinality(Q') \in Nat
        /\ Cardinality(Q') <= Cardinality(Q) + MaxRetries + 1
    <3>1. CASE m.job = j
      <4>1. Q' \subseteq Q \cup Turns(<<m, queue[m]>>, m.retries)
        BY <2>1, <3>1, CopyAdded DEF Q
      <4>2. IsFiniteSet(Q') /\ Cardinality(Q') \in Nat
            /\ Cardinality(Q') <= Cardinality(Q) + Worth(m.retries)
        BY <1>1, <1>3, <2>1, <4>1, TurnsWon
      <4>3. QED
        BY <1>1, <1>3, <2>1, <4>2, RetriesAssumption DEF Worth
    <3>2. CASE m.job # j
      <4>1. Q' \subseteq Q
        BY <2>1, <3>2, CopyAdded DEF Q
      <4>2. IsFiniteSet(Q') /\ Cardinality(Q') \in Nat /\ Cardinality(Q') <= Cardinality(Q)
        BY <1>1, <4>1, Fewer
      <4>3. QED
        BY <1>1, <4>2, RetriesAssumption
    <3>3. QED
      BY <3>1, <3>2
  <2>5. Budget(j)' = Budget(j) + MaxRetries + 1
    BY <2>1, BudgetGrows
  <2>6. QED
    BY <1>1, <2>1, <2>3, <2>4, <2>5, RetriesAssumption
<1>10. ASSUME NEW w \in Workers, Retry(w)
       PROVE  Good
  <2> DEFINE m == NextAttempt(w)
  <2>1. /\ pc[w] = "raised" /\ queue' = [queue EXCEPT ![m] = @ + 1] /\ pc' = [pc EXCEPT ![w] = "ack"]
        /\ ~(held[w].retries >= MaxRetries) /\ UNCHANGED <<claims, published, faults, held>>
    BY <1>10 DEF Retry, PublishRetry, RetriesExhausted, Goto, rows
  <2>2. m \in Messages /\ m.job = held[w].job /\ m.retries = held[w].retries + 1
    BY <1>2, <2>1, RetriesAssumption DEF NextAttempt, Messages
  <2> HIDE DEF m
  <2>3. StaysOrEnds /\ Budget(j)' = Budget(j)
    BY <1>2, <2>1 DEF StaysOrEnds, ProcTypes, Budget
  <2>4. CASE m.job # j
    <3>1. Q' \subseteq Q
      BY <2>1, <2>2, <2>4, CopyAdded DEF Q
    <3>2. /\ IsFiniteSet(Q') /\ Cardinality(Q') \in Nat /\ Cardinality(Q') <= Cardinality(Q)
          /\ IsFiniteSet(H') /\ Cardinality(H') \in Nat /\ Cardinality(H') <= Cardinality(H)
      BY <1>1, <1>4, <2>3, <3>1, Fewer
    <3>3. QED
      BY <1>1, <2>1, <2>3, <3>2
  <2>5. CASE m.job = j
    <3>1. Q' \subseteq Q \cup Turns(<<m, queue[m]>>, m.retries)
      BY <2>1, <2>2, <2>5, CopyAdded DEF Q
    <3>2. IsFiniteSet(Q') /\ Cardinality(Q') \in Nat
          /\ Cardinality(Q') <= Cardinality(Q) + Worth(m.retries)
      BY <1>1, <1>3, <2>2, <3>1, TurnsWon
    <3>3. Turns(w, m.retries) \subseteq H
      <4>1. \A x \in Turns(w, m.retries) : \E i \in m.retries .. MaxRetries : x = <<w, i>>
        BY DEF Turns
      <4>2. ASSUME NEW i \in m.retries .. MaxRetries
            PROVE  <<w, i>> \in H
        <5>1. i \in 0 .. MaxRetries /\ m.retries <= i
          BY <1>3, <2>2, RetriesAssumption
        <5>2. NextClaim(w) = m.retries /\ pc[w] \notin {"idle", "ack"} /\ held[w].job = j
          BY <2>1, <2>2, <2>5 DEF NextClaim
        <5>3. QED
          BY <5>1, <5>2 DEF H, InHands
      <4>3. QED
        BY <4>1, <4>2
    <3>4. H' \subseteq H \ Turns(w, m.retries)
      <4>1. \A x \in H' : x[1] # w
        BY <1>2, <2>1 DEF H, InHands, ProcTypes
      <4>2. \A x \in Turns(w, m.retries) : x[1] = w
        BY DEF Turns
      <4>3. QED
        BY <1>4, <2>3, <4>1, <4>2
    <3>5. IsFiniteSet(H') /\ Cardinality(H') \in Nat
          /\ Cardinality(H') <= Cardinality(H) - Worth(m.retries)
      BY <1>1, <1>3, <2>2, <3>3, <3>4, TurnsLost
    <3>6. QED
      BY <1>1, <1>3, <2>1, <2>2, <2>3, <3>2, <3>5, RetriesAssumption DEF Worth
  <2>6. QED
    BY <2>4, <2>5
<1>11. ASSUME NEW w \in Workers, Claims(w)
       PROVE  Good
  <2>1. /\ pc[w] = "prepare" /\ UNCHANGED <<held, queue, published>>
        /\ \E step \in {"call", "raised"} : pc' = [pc EXCEPT ![w] = step]
        /\ claims' = [claims EXCEPT ![held[w].job] = @ + 1] /\ faults' \in {faults, faults + 1}
    BY <1>11 DEF Claims
  <2>2. Q' = Q /\ H' \subseteq H
    <3>1. StaysOrEnds
      BY <1>2, <2>1 DEF StaysOrEnds, ProcTypes
    <3>2. QED
      BY <1>4, <1>5, <2>1, <3>1
  <2>3. Budget(j)' >= Budget(j) /\ Budget(j)' \in Nat
    BY <2>1, BudgetGrows
  <2>4. CASE held[w].job # j
    <3>1. IsFiniteSet(H') /\ Cardinality(H') \in Nat /\ Cardinality(H') <= Cardinality(H)
      BY <1>1, <2>2, Fewer
    <3>2. claims'[j] = claims[j]
      BY <2>1, <2>4 DEF TypeOK
    <3>3. QED
      BY <1>1, <2>2, <2>3, <3>1, <3>2
  <2>5. CASE held[w].job = j
    <3> DEFINE turn == <<w, held[w].retries>>
    <3>1. turn \in H
      BY <1>2, <2>1, <2>5 DEF H, InHands, NextClaim
    <3>2. turn \notin H'
      BY <1>2, <2>1, RetriesAssumption DEF H, InHands, NextClaim, ProcTypes
    <3> HIDE DEF turn
    <3>3. IsFiniteSet(H \ {turn}) /\ Cardinality(H \ {turn}) = Cardinality(H) - 1
      BY <1>1, <3>1, FS_RemoveElement
    <3>4. IsFiniteSet(H') /\ Cardinality(H') \in Nat /\ Cardinality(H') <= Cardinality(H) - 1
      BY <2>2, <3>2, <3>3, Fewer
    <3>5. claims'[j] = claims[j] + 1
      BY <2>1, <2>5 DEF TypeOK
    <3>6. QED
      BY <1>1, <2>2, <2>3, <3>4, <3>5
  <2>6. QED
    BY <2>4, <2>5
<1>12. QED
  BY <1>6, <1>7, <1>8, <1>9, <1>10, <1>11, StepTurns DEF Q, H

(***************************************************************************)
(* For every number of retries, duplicate events and faults: each message  *)
(* that was sent or delivered again pays for max_retries + 1 claims.       *)
(***************************************************************************)
THEOREM AttemptsWithinBudget == Spec => []AttemptsBounded
<1>1. Init => AttemptInv
  <2> SUFFICES ASSUME Init, NEW j \in Jobs
               PROVE  /\ IsFiniteSet(Queued(j)) /\ IsFiniteSet(InHands(j))
                      /\ claims[j] + Cardinality(Queued(j)) + Cardinality(InHands(j)) <= Budget(j)
    BY DEF AttemptInv
  <2>1. Queued(j) = {} /\ InHands(j) = {} /\ claims[j] = 0
    BY DEF Init, InitDelivery, Queued, InHands
  <2>2. Budget(j) = 0
    BY RetriesAssumption DEF Init, InitDelivery, Budget
  <2>3. QED
    BY <2>1, <2>2, FS_EmptySet
<1>2. TypeOK /\ AttemptInv => AttemptsBounded
  <2> SUFFICES ASSUME TypeOK, AttemptInv, NEW j \in Jobs
               PROVE  claims[j] <= Budget(j)
    BY DEF AttemptsBounded, Budget
  <2>1. /\ Cardinality(Queued(j)) \in Nat /\ Cardinality(InHands(j)) \in Nat
        /\ claims[j] \in Nat /\ Budget(j) \in Nat
    BY BudgetGrows, FS_CardinalityType DEF AttemptInv, TypeOK
  <2>2. QED
    BY <2>1 DEF AttemptInv
<1>3. QED
  BY <1>1, <1>2, AttemptStep, TypeCorrect, PTL DEF Spec

-----------------------------------------------------------------------------
(***************************************************************************)
(* Jobs left behind: open, and without a diagnosis row or without anyone   *)
(* who will go on with them.                                               *)
(***************************************************************************)
AnsweredFaults == {"prepare_error", "outcome_error", "outcome_ack_lost"}

Unanswered == \E k \in FaultKinds \ AnsweredFaults : Fault(k)

Carried(j) == CarriedOn(j, job[j].status, job[j].token)

Safe(j) == Unsettled(j) => HasContext(j) /\ Carried(j)

LeftBehind == {j \in Jobs : ~Safe(j)}

LEMMA StaysSafe ==
  ASSUME NEW w \in Workers, NEW j \in Jobs, Safe(j), OthersStay(w),
         job'[j] = job[j], HasContext(j)' = HasContext(j), published'[j] = published[j],
         QueuedFor(j) => QueuedFor(j)',
         HasContext(j) /\ job[j].status = "PROCESSING" /\ Owns(w, j, job[j].token) =>
           Owns(w, j, job[j].token)',
         HasContext(j) /\ job[j].status \in {"PENDING", "FAILED_RETRYABLE"}
             /\ Pursues(w, j, job[j].token) =>
           QueuedFor(j)' \/ Pursues(w, j, job[j].token)'
  PROVE  Safe(j)'
<1>1. CASE ~Unsettled(j)
  BY <1>1 DEF Safe, Unsettled
<1>2. CASE HasContext(j) /\ Carried(j)
  <2> DEFINE s == job[j].status
             t == job[j].token
  <2>1. PICK s0, t0 : s0 = s /\ t0 = t
    OBVIOUS
  <2>2. CarriedOn(j, s0, t0)
    BY <1>2, <2>1 DEF Carried
  <2>3. /\ s0 = "PROCESSING" /\ Owns(w, j, t0) => Owns(w, j, t0)'
        /\ s0 \in {"PENDING", "FAILED_RETRYABLE"} /\ Pursues(w, j, t0) =>
             QueuedFor(j)' \/ Pursues(w, j, t0)'
    BY <1>2, <2>1 DEF Owns, Pursues
  <2>4. CarriedOn(j, s0, t0)'
    BY <2>2, <2>3, StillCarried
  <2>5. Carried(j)'
    BY <2>1, <2>4 DEF Carried, CarriedOn, Owns, Pursues
  <2>6. QED
    BY <1>2, <2>5 DEF Safe
<1>3. QED
  BY <1>1, <1>2 DEF Safe

(***************************************************************************)
(* What a worker does to any other job than the one in its hands: nothing. *)
(***************************************************************************)
LEMMA OthersKept ==
  ASSUME TypeOK, NEW w \in Workers, WorkerStep(w) \/ WorkerLost(w)
  PROVE  /\ OthersStay(w) /\ published' = published
         /\ \A j \in Jobs : j # held[w].job => job'[j] = job[j] /\ diagnosis'[j] = diagnosis[j]
         /\ \/ queue' = queue
            \/ \E m \in Messages : queue' = [queue EXCEPT ![m] = @ + 1]
<1>0. ProcTypes /\ RowTypes
  BY DEF TypeOK, ProcTypes, RowTypes
<1>1. CASE WorkerLost(w)
  BY <1>0, <1>1 DEF WorkerLost, LoseWorker, OthersStay, ProcTypes, rows
<1>2. CASE Retry(w)
  <2>1. held[w] \in Messages /\ ~RetriesExhausted(w)
    BY <1>0, <1>2 DEF Retry, PublishRetry, ProcTypes
  <2>2. NextAttempt(w) \in Messages
    BY <2>1, RetriesAssumption DEF NextAttempt, Messages, RetriesExhausted
  <2>3. QED
    BY <1>0, <1>2, <2>2 DEF Retry, PublishRetry, Goto, OthersStay, ProcTypes, rows
<1>3. CASE Ack(w)
  BY <1>0, <1>3 DEF Ack, Acknowledge, OthersStay, ProcTypes, rows
<1>4. ASSUME NEW new, NEW step, NEW t, ClaimWrites(w, new, step, t)
      PROVE  /\ OthersStay(w) /\ published' = published /\ queue' = queue
             /\ \A j \in Jobs : j # held[w].job => job'[j] = job[j] /\ diagnosis'[j] = diagnosis[j]
  BY <1>0, <1>4 DEF ClaimWrites, OthersStay, ProcTypes, RowTypes
<1>5. CASE PrepareClaim(w) \/ PrepareStorageUnavailable(w) \/ PrepareAckLost(w)
  BY <1>4, <1>5 DEF PrepareClaim, PrepareStorageUnavailable, PrepareAckLost
<1>6. CASE \/ PrepareSkip(w) \/ PrepareError(w) \/ OutcomeError(w) \/ MarkError(w)
           \/ RetryUnpublished(w) \/ FinalizeError(w)
           \/ \E next \in {"complete", "reject", "finalize", "mark"} : CallProvider(w, next)
  BY <1>0, <1>6 DEF PrepareSkip, PrepareError, OutcomeError, MarkError, RetryUnpublished,
                    LoseRetry, FinalizeError, CallProvider, Goto, OthersStay, ProcTypes, rows
<1>7. CASE \/ Complete(w) \/ CompleteAckLost(w) \/ Reject(w) \/ RejectAckLost(w) \/ Finalize(w)
           \/ MarkRetryable(w) \/ MarkAckLost(w) \/ Exhaust(w)
  <2>1. published' = published /\ queue' = queue /\ \E step : Goto(w, step)
    BY <1>7 DEF Complete, CompleteAckLost, Reject, RejectAckLost, Finalize, FinalizeFailure,
                MarkRetryable, MarkAckLost, Exhaust
  <2>2. /\ UNCHANGED job \/ \E row : job' = [job EXCEPT ![held[w].job] = row]
        /\ UNCHANGED diagnosis \/ \E s : diagnosis' = [diagnosis EXCEPT ![held[w].job] = s]
    BY <1>7 DEF Complete, CompleteAckLost, CompleteWrites, Reject, RejectAckLost, Finalize,
                FinalizeFailure, FinalizeWrites, MarkRetryable, MarkAckLost, Exhaust, rows
  <2>3. OthersStay(w)
    BY <1>0, <2>1 DEF Goto, OthersStay, ProcTypes
  <2>4. QED
    BY <1>0, <2>1, <2>2, <2>3 DEF RowTypes
<1>8. QED
  BY <1>1, <1>2, <1>3, <1>5, <1>6, <1>7 DEF WorkerStep

LEMMA OthersSafe ==
  ASSUME TypeOK, NEW w \in Workers, WorkerStep(w) \/ WorkerLost(w),
         NEW j \in Jobs, j # held[w].job, Safe(j)
  PROVE  Safe(j)'
<1>1. /\ OthersStay(w) /\ published' = published /\ job'[j] = job[j]
      /\ HasContext(j)' = HasContext(j)
  BY OthersKept DEF HasContext
<1>2. QueuedFor(j) => QueuedFor(j)'
  <2>1. queue \in [Messages -> Nat]
    BY DEF TypeOK
  <2>2. QED
    BY <2>1, OthersKept, Enqueues DEF QueuedFor
<1>3. ~Owns(w, j, job[j].token) /\ ~Pursues(w, j, job[j].token)
  BY DEF Owns, Pursues
<1>4. QED
  BY <1>1, <1>2, <1>3, StaysSafe

(***************************************************************************)
(* What it does to its own job.                                            *)
(***************************************************************************)
LEMMA StepSafe ==
  ASSUME TypeOK, NEW w \in Workers, NEW i \in Jobs, i = held[w].job, Safe(i),
         NEW step, Goto(w, step), UNCHANGED <<job, diagnosis, queue, published>>,
         HasContext(i) /\ job[i].status = "PROCESSING" /\ Owns(w, i, job[i].token) =>
           step \notin {"idle", "prepare", "raised", "ack"},
         HasContext(i) /\ job[i].status \in {"PENDING", "FAILED_RETRYABLE"}
             /\ Pursues(w, i, job[i].token) => step \in {"prepare", "raised"}
  PROVE  Safe(i)'
<1>1. OthersStay(w) /\ pc'[w] = step /\ held'[w] = held[w] /\ tok'[w] = tok[w]
  BY DEF TypeOK, Goto, OthersStay
<1>2. (QueuedFor(i) => QueuedFor(i)') /\ HasContext(i)' = HasContext(i)
  BY DEF QueuedFor, HasContext
<1>3. /\ HasContext(i) /\ job[i].status = "PROCESSING" /\ Owns(w, i, job[i].token) =>
           Owns(w, i, job[i].token)'
      /\ HasContext(i) /\ job[i].status \in {"PENDING", "FAILED_RETRYABLE"}
             /\ Pursues(w, i, job[i].token) => Pursues(w, i, job[i].token)'
  BY <1>1 DEF Owns, Pursues
<1>4. QED
  BY <1>1, <1>2, <1>3, StaysSafe

LEMMA FailedSafe ==
  ASSUME TypeOK, NEW i \in Jobs, NEW t, MayFinalize(i, t), FinalizeWrites(i)
  PROVE  Safe(i)'
<1>1. job[i] \in JobRows /\ job[i].status \in OpenStatuses
  BY DEF TypeOK, MayFinalize, Finalizable, CommittedStatuses, OpenStatuses
<1>2. job'[i].status = "FAILED_FINAL"
  BY <1>1, FailedRow DEF FinalizeWrites, TypeOK
<1>3. QED
  BY <1>2 DEF Safe, Unsettled, TerminalJobStatuses

LEMMA FinalizeSafe ==
  ASSUME TypeOK, IInv, NEW w \in Workers, NEW i \in Jobs, i = held[w].job, Safe(i),
         FinalizeFailure(w)
  PROVE  Safe(i)'
<1>1. CASE MayFinalize(i, tok[w])
  BY <1>1, FailedSafe DEF FinalizeFailure
<1>2. CASE ~MayFinalize(i, tok[w])
  <2>1. Goto(w, "ack") /\ UNCHANGED <<job, diagnosis, queue, published>>
    BY <1>2 DEF FinalizeFailure, rows
  <2>2. ~(HasContext(i) /\ job[i].status = "PROCESSING" /\ Owns(w, i, job[i].token))
    <3>1. job[i].status = "PROCESSING" => job[i].token # NoToken
      BY DEF TypeOK, IInv, ClaimsOnRow, NoToken
    <3>2. QED
      BY <1>2, <3>1 DEF MayFinalize, Finalizable, Owns
  <2>3. ~(HasContext(i) /\ job[i].status \in {"PENDING", "FAILED_RETRYABLE"}
            /\ Pursues(w, i, job[i].token))
    BY <1>2 DEF MayFinalize, Finalizable, Pursues, LeaseHolds, RunningJobStatuses
  <2>4. QED
    BY <2>1, <2>2, <2>3, StepSafe
<1>3. QED
  BY <1>1, <1>2

LEMMA CompletedSafe ==
  ASSUME TypeOK, NEW i \in Jobs, NEW t, IsExecuting(i, t), CompleteWrites(i, t)
  PROVE  Safe(i)'
<1>1. job[i].status = "PROCESSING" /\ job[i] \in JobRows
  BY DEF TypeOK, IsExecuting, Executing
<1>2. job'[i].status = "COMPLETED"
  BY <1>1, CompletedRow DEF CompleteWrites, TypeOK
<1>3. QED
  BY <1>2 DEF Safe, Unsettled, TerminalJobStatuses

LEMMA ClaimSafe ==
  ASSUME TypeOK, NEW w \in Workers, PrepareClaim(w) \/ PrepareStorageUnavailable(w),
         NEW i \in Jobs, i = held[w].job
  PROVE  Safe(i)'
<1> DEFINE t == claims[i] + 1
<1>1. /\ job[i] \in JobRows /\ t \in Nat /\ job[i].status \in OpenStatuses
      /\ pc[w] = "prepare" /\ HasContext(i)
  BY DEF PrepareClaim, PrepareStorageUnavailable, ClaimWrites, MayClaim, Claimable,
         TerminalJobStatuses, TypeOK, CommittedStatuses, OpenStatuses
<1>2. \/ ClaimWrites(w, Claimed(job[i], t), "call", t)
      \/ ClaimWrites(w, Transition(Claimed(job[i], t), "FAILED_RETRYABLE"), "raised", t)
  BY DEF PrepareClaim, PrepareStorageUnavailable
<1> HIDE DEF t
<1>3. /\ Claimed(job[i], t).status = "PROCESSING" /\ Claimed(job[i], t).token = t
      /\ Claimed(job[i], t) \in JobRows
  BY <1>1, ClaimedRow DEF JobRows, JobStatuses, Leases
<1>4. LET f == Transition(Claimed(job[i], t), "FAILED_RETRYABLE")
      IN  f.status = "FAILED_RETRYABLE" /\ f.token = t
  BY <1>3, RetryableRow
<1>5. ASSUME NEW new, NEW step, ClaimWrites(w, new, step, t)
      PROVE  /\ job'[i] = new /\ pc'[w] = step /\ tok'[w] = t /\ held'[w].job = i
             /\ HasContext(i)'
  BY <1>1, <1>5 DEF ClaimWrites, TypeOK, HasContext
<1>6. CASE ClaimWrites(w, Claimed(job[i], t), "call", t)
  <2>1. job'[i].status = "PROCESSING" /\ Owns(w, i, job[i].token)' /\ HasContext(i)'
    BY <1>3, <1>5, <1>6 DEF Owns
  <2>2. QED
    BY <2>1 DEF Safe, Carried, CarriedOn, Owns
<1>7. CASE ClaimWrites(w, Transition(Claimed(job[i], t), "FAILED_RETRYABLE"), "raised", t)
  <2>1. job'[i].status = "FAILED_RETRYABLE" /\ Pursues(w, i, job[i].token)' /\ HasContext(i)'
    BY <1>4, <1>5, <1>7 DEF Pursues
  <2>2. QED
    BY <2>1 DEF Safe, Carried, CarriedOn, Pursues
<1>8. QED
  BY <1>2, <1>6, <1>7

LEMMA MarkSafe ==
  ASSUME TypeOK, NEW w \in Workers, MarkRetryable(w), NEW i \in Jobs, i = held[w].job, Safe(i)
  PROVE  Safe(i)'
<1>1. CASE MayMark(i, tok[w])
  <2>1. job[i].status = "PROCESSING" /\ job[i].token = tok[w] /\ job[i] \in JobRows
    BY <1>1 DEF TypeOK, MayMark, Retryable, RunningJobStatuses, CommittedStatuses
  <2>2. job' = [job EXCEPT ![i] = Transition(@, "FAILED_RETRYABLE")] /\ Goto(w, "raised")
        /\ UNCHANGED diagnosis
    BY <1>1 DEF MarkRetryable
  <2>3. job'[i].status = "FAILED_RETRYABLE" /\ job'[i].token = tok[w]
    BY <2>1, <2>2, RetryableRow DEF TypeOK
  <2>4. pc'[w] = "raised" /\ held'[w] = held[w] /\ tok'[w] = tok[w] /\ HasContext(i)'
    BY <1>1, <2>2 DEF TypeOK, Goto, MayMark, HasContext
  <2>5. QED
    BY <2>3, <2>4 DEF Safe, Carried, CarriedOn, Pursues
<1>2. CASE ~MayMark(i, tok[w])
  <2>1. pc[w] = "mark" /\ Goto(w, "ack") /\ UNCHANGED <<job, diagnosis, queue, published>>
    BY <1>2 DEF MarkRetryable
  <2>2. /\ ~(HasContext(i) /\ job[i].status = "PROCESSING" /\ Owns(w, i, job[i].token))
        /\ ~Pursues(w, i, job[i].token)
    BY <1>2, <2>1 DEF MayMark, Retryable, RunningJobStatuses, Owns, Pursues
  <2>3. QED
    BY <2>1, <2>2, StepSafe
<1>3. QED
  BY <1>1, <1>2

LEMMA WorkerSafe ==
  ASSUME TypeOK, IInv, NEW w \in Workers, WorkerStep(w), ~Unanswered,
         NEW i \in Jobs, i = held[w].job, Safe(i)
  PROVE  Safe(i)'
<1>1. \A k \in FaultKinds \ AnsweredFaults : ~Fault(k)
  BY DEF Unanswered
<1>2. CASE \/ PrepareAckLost(w) \/ MarkError(w) \/ MarkAckLost(w) \/ RetryUnpublished(w)
           \/ FinalizeError(w)
  BY <1>1, <1>2 DEF PrepareAckLost, MarkError, MarkAckLost, RetryUnpublished, LoseRetry,
                    FinalizeError, FaultKinds, AnsweredFaults
<1>3. CASE PrepareSkip(w)
  <2>1. pc[w] = "prepare" /\ ~MayClaim(i) /\ Goto(w, "ack")
        /\ UNCHANGED <<job, diagnosis, queue, published>>
    BY <1>3 DEF PrepareSkip, rows
  <2>2. ~Owns(w, i, job[i].token)
    BY <2>1 DEF Owns
  <2>3. ~(HasContext(i) /\ job[i].status \in {"PENDING", "FAILED_RETRYABLE"})
    BY <2>1 DEF MayClaim, Claimable, TerminalJobStatuses, LeaseHolds, RunningJobStatuses
  <2>4. QED
    BY <2>1, <2>2, <2>3, StepSafe
<1>4. CASE PrepareClaim(w) \/ PrepareStorageUnavailable(w)
  BY <1>4, ClaimSafe
<1>5. CASE PrepareError(w)
  <2>1. pc[w] = "prepare" /\ Goto(w, "raised") /\ UNCHANGED <<job, diagnosis, queue, published>>
    BY <1>5 DEF PrepareError, rows
  <2>2. ~Owns(w, i, job[i].token)
    BY <2>1 DEF Owns
  <2>3. QED
    BY <2>1, <2>2, StepSafe
<1>6. CASE \/ OutcomeError(w)
           \/ \E next \in {"complete", "reject", "finalize", "mark"} : CallProvider(w, next)
  <2>1. /\ pc[w] \in {"call", "complete", "reject"} /\ UNCHANGED <<job, diagnosis, queue, published>>
        /\ \E step \in {"complete", "reject", "finalize", "mark"} : Goto(w, step)
    BY <1>6 DEF OutcomeError, CallProvider, rows
  <2>2. ~Pursues(w, i, job[i].token)
    BY <2>1 DEF Pursues
  <2>3. QED
    BY <2>1, <2>2, StepSafe
<1>7. CASE Complete(w)
  <2>1. CASE IsExecuting(i, tok[w])
    BY <1>7, <2>1, CompletedSafe DEF Complete
  <2>2. CASE ~IsExecuting(i, tok[w])
    <3>1. pc[w] = "complete" /\ Goto(w, "ack") /\ UNCHANGED <<job, diagnosis, queue, published>>
      BY <1>7, <2>2 DEF Complete, rows
    <3>2. /\ ~(HasContext(i) /\ job[i].status = "PROCESSING" /\ Owns(w, i, job[i].token))
          /\ ~Pursues(w, i, job[i].token)
      BY <2>2, <3>1 DEF IsExecuting, Executing, Owns, Pursues
    <3>3. QED
      BY <3>1, <3>2, StepSafe
  <2>3. QED
    BY <2>1, <2>2
<1>8. CASE CompleteAckLost(w) \/ RejectAckLost(w)
  BY <1>8, CompletedSafe, FailedSafe DEF CompleteAckLost, RejectAckLost
<1>9. CASE Reject(w) \/ Finalize(w) \/ Exhaust(w)
  BY <1>9, FinalizeSafe DEF Reject, Finalize, Exhaust
<1>10. CASE MarkRetryable(w)
  BY <1>10, MarkSafe
<1>11. CASE Retry(w)
  <2> DEFINE m == NextAttempt(w)
  <2>1. /\ pc[w] = "raised" /\ ~RetriesExhausted(w) /\ queue' = [queue EXCEPT ![m] = @ + 1]
        /\ Goto(w, "ack") /\ UNCHANGED <<job, diagnosis, published>>
    BY <1>11 DEF Retry, PublishRetry, rows
  <2>2. m \in Messages /\ m.job = i
    BY <2>1, RetriesAssumption DEF NextAttempt, Messages, RetriesExhausted, TypeOK
  <2> HIDE DEF m
  <2>3. QueuedFor(i)' /\ HasContext(i)' = HasContext(i)
    BY <2>1, <2>2, Enqueues DEF TypeOK, HasContext
  <2>4. OthersStay(w) /\ ~Owns(w, i, job[i].token)
    BY <2>1 DEF Goto, OthersStay, TypeOK, Owns
  <2>5. QED
    BY <2>1, <2>3, <2>4, StaysSafe
<1>12. CASE Ack(w)
  <2>1. pc[w] = "ack" /\ OthersStay(w) /\ UNCHANGED <<job, diagnosis, queue, published>>
    BY <1>12 DEF Ack, Acknowledge, OthersStay, TypeOK, rows
  <2>2. /\ ~Owns(w, i, job[i].token) /\ ~Pursues(w, i, job[i].token)
        /\ (QueuedFor(i) => QueuedFor(i)') /\ HasContext(i)' = HasContext(i)
    BY <2>1 DEF Owns, Pursues, QueuedFor, HasContext
  <2>3. QED
    BY <2>1, <2>2, StaysSafe
<1>13. QED
  BY <1>2, <1>3, <1>4, <1>5, <1>6, <1>7, <1>8, <1>9, <1>10, <1>11, <1>12 DEF WorkerStep

(***************************************************************************)
(* Events, deliveries and leases.                                          *)
(***************************************************************************)
LEMMA EnvSafe ==
  ASSUME TypeOK, NEW i \in Jobs, Publish(i) \/ LapseLease(i), NEW j \in Jobs, Safe(j)
  PROVE  Safe(j)'
<1>1. CASE Publish(i)
  <2> DEFINE m == [job |-> i, retries |-> 0]
  <2>1. m \in Messages /\ m.job = i
    BY RetriesAssumption DEF Messages
  <2>2. /\ queue' = [queue EXCEPT ![m] = @ + 1] /\ published' = [published EXCEPT ![i] = @ + 1]
        /\ UNCHANGED <<job, diagnosis, pc, held, tok>>
    BY <1>1 DEF Publish, SendEvent, procs, rows
  <2> HIDE DEF m
  <2>3. QueuedFor(i)' /\ (QueuedFor(j) => QueuedFor(j)') /\ (j # i => published'[j] = published[j])
    BY <2>1, <2>2, Enqueues DEF TypeOK
  <2>4. QED
    BY <2>2, <2>3 DEF Safe, Unsettled, HasContext, Carried, CarriedOn, Owns, Pursues
<1>2. CASE LapseLease(i)
  <2>1. job'[j].status = job[j].status /\ job'[j].token = job[j].token
    BY <1>2 DEF LapseLease, TypeOK, JobRows
  <2>2. UNCHANGED <<diagnosis, queue, published, pc, held, tok>>
    BY <1>2 DEF LapseLease, delivery, procs
  <2>3. QED
    BY <2>1, <2>2 DEF Safe, Unsettled, HasContext, Carried, CarriedOn, QueuedFor, Owns, Pursues
<1>3. QED
  BY <1>1, <1>2

LEMMA DeliverSafe ==
  ASSUME TypeOK, NEW w \in Workers, NEW m \in Messages, Deliver(w, m), NEW j \in Jobs, Safe(j)
  PROVE  Safe(j)'
<1>1. /\ pc[w] = "idle" /\ queue' = [queue EXCEPT ![m] = @ - 1] /\ OthersStay(w)
      /\ pc'[w] = "prepare" /\ held'[w] = m /\ tok'[w] = NoToken
      /\ UNCHANGED <<job, diagnosis, published>>
  BY DEF Deliver, Take, TypeOK, OthersStay, rows
<1>2. ~Owns(w, j, job[j].token) /\ ~Pursues(w, j, job[j].token)
  BY <1>1 DEF Owns, Pursues
<1>3. CASE m.job # j
  BY <1>1, <1>2, <1>3, Dequeues, StaysSafe DEF TypeOK, HasContext
<1>4. CASE m.job = j
  <2>1. Pursues(w, j, job[j].token)'
    BY <1>1, <1>4 DEF Pursues
  <2>2. \A v \in Workers : Owns(v, j, job[j].token) => Owns(v, j, job[j].token)'
    BY <1>1, <1>2 DEF OthersStay, Owns
  <2>3. QED
    BY <1>1, <2>1, <2>2 DEF Safe, Unsettled, HasContext, Carried, CarriedOn, Owns, Pursues
<1>5. QED
  BY <1>3, <1>4

LEMMA LeftStep ==
  ASSUME TypeOK, IInv, [Next]_vars
  PROVE  \/ LeftBehind' \subseteq LeftBehind
         \/ Unanswered /\ \E i : LeftBehind' \subseteq LeftBehind \cup {i}
<1>1. CASE UNCHANGED vars
  <2>1. UNCHANGED <<job, diagnosis, queue, published, pc, held, tok>>
    BY <1>1 DEF vars, rows, delivery, procs
  <2>2. \A j \in Jobs : Safe(j) => Safe(j)'
    BY <2>1 DEF Safe, Unsettled, HasContext, Carried, CarriedOn, QueuedFor, Owns, Pursues
  <2>3. QED
    BY <2>2 DEF LeftBehind
<1>2. ASSUME NEW i \in Jobs, Publish(i) \/ LapseLease(i)
      PROVE  LeftBehind' \subseteq LeftBehind
  BY <1>2, EnvSafe DEF LeftBehind
<1>3. ASSUME NEW i \in Jobs, PurgePhoto(i)
      PROVE  Unanswered /\ LeftBehind' \subseteq LeftBehind \cup {i}
  <2>1. /\ Fault("photo_purged") /\ UNCHANGED <<job, queue, published, pc, held, tok>>
        /\ diagnosis' = [diagnosis EXCEPT ![i] = "DELETED"]
    BY <1>3 DEF PurgePhoto, procs
  <2>2. \A j \in Jobs \ {i} : diagnosis'[j] = diagnosis[j]
    BY <2>1 DEF TypeOK
  <2>3. \A j \in Jobs \ {i} : Safe(j) => Safe(j)'
    BY <2>1, <2>2 DEF Safe, Unsettled, HasContext, Carried, CarriedOn, QueuedFor, Owns, Pursues
  <2>4. QED
    BY <2>1, <2>3 DEF Unanswered, FaultKinds, AnsweredFaults, LeftBehind
<1>4. ASSUME NEW w \in Workers, NEW m \in Messages, Deliver(w, m)
      PROVE  LeftBehind' \subseteq LeftBehind
  BY <1>4, DeliverSafe DEF LeftBehind
<1>5. ASSUME NEW w \in Workers, WorkerStep(w) \/ WorkerLost(w)
      PROVE  LeftBehind' \subseteq LeftBehind \cup {held[w].job}
  BY <1>5, OthersSafe DEF LeftBehind
<1>6. ASSUME NEW w \in Workers, WorkerLost(w)
      PROVE  Unanswered
  BY <1>6 DEF WorkerLost, LoseWorker, Unanswered, FaultKinds, AnsweredFaults
<1>7. ASSUME NEW w \in Workers, WorkerStep(w), ~Unanswered
      PROVE  LeftBehind' \subseteq LeftBehind
  BY <1>5, <1>7, WorkerSafe DEF LeftBehind
<1>8. QED
  BY <1>1, <1>2, <1>3, <1>4, <1>5, <1>6, <1>7 DEF Next

LEMMA InitSafe == Init => LeftBehind = {}
BY DEF Init, InitDelivery, NewJob, LeftBehind, Safe, HasContext, Carried, CarriedOn

(***************************************************************************)
(* Each fault leaves at most one job behind: an open diagnosis job that    *)
(* nothing will go on with any more, whatever messages, lapsed leases and  *)
(* late workers do.                                                        *)
(***************************************************************************)
THEOREM OneJobPerFault == Spec => [](Cardinality(LeftBehind) <= faults)
<1> DEFINE Few == IsFiniteSet(LeftBehind) /\ Cardinality(LeftBehind) <= faults
<1>1. Init => Few
  <2>1. Init => faults = 0
    BY DEF Init, InitDelivery
  <2>2. QED
    BY <2>1, InitSafe, FS_EmptySet
<1>2. TypeOK /\ IInv /\ Few /\ [Next]_vars => Few'
  <2> SUFFICES ASSUME TypeOK, IInv, Few, [Next]_vars
               PROVE  Few'
    OBVIOUS
  <2>1. faults \in Nat /\ faults' \in Nat /\ faults' >= faults
    BY StepEnv DEF TypeOK, EnvTypes
  <2>2. \/ LeftBehind' \subseteq LeftBehind
        \/ faults' = faults + 1 /\ \E i : LeftBehind' \subseteq LeftBehind \cup {i}
    BY LeftStep DEF Unanswered, Fault
  <2> HIDE DEF LeftBehind
  <2>3. QED
    BY <2>1, <2>2, OnePerFault
<1>3. QED
  BY <1>1, <1>2, TypeCorrect, Invariance, PTL DEF Spec

(***************************************************************************)
(* Unless a worker dies, a commit's answer is lost in _prepare, an error   *)
(* escapes the executor, the broker is out of reach or the photo goes, no  *)
(* interleaving of duplicate messages, lapsed leases and late workers      *)
(* leaves an unsettled job with nothing that will ever work on it.         *)
(***************************************************************************)
THEOREM NothingLeftBehind ==
  ASSUME Faults \subseteq AnsweredFaults
  PROVE  Spec => []NoJobLost
<1> DEFINE NoneLeft == LeftBehind = {}
<1>1. TypeOK /\ IInv /\ NoneLeft /\ [Next]_vars => NoneLeft'
  <2>1. ~Unanswered
    BY DEF Unanswered, Fault
  <2>2. QED
    BY <2>1, LeftStep
<1>2. TypeOK /\ NoneLeft => NoJobLost
  <2> SUFFICES ASSUME TypeOK, NoneLeft, NEW j \in Jobs, Unsettled(j)
               PROVE  OnItsWay(j)
    BY DEF NoJobLost
  <2>1. job[j].status \in {"PENDING", "PROCESSING", "FAILED_RETRYABLE"} /\ Carried(j)
    BY DEF TypeOK, Unsettled, TerminalJobStatuses, CommittedStatuses, LeftBehind, Safe
  <2>2. \A w \in Workers : Owns(w, j, job[j].token) \/ Pursues(w, j, job[j].token) =>
          pc[w] \notin {"idle", "ack"} /\ held[w].job = j
    BY DEF Owns, Pursues
  <2>3. QED
    BY <2>1, <2>2 DEF Carried, CarriedOn, OnItsWay, QueuedFor
<1>3. QED
  BY <1>1, <1>2, InitSafe, TypeCorrect, Invariance, PTL DEF Spec
=============================================================================
