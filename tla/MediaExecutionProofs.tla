------------------------ MODULE MediaExecutionProofs ------------------------
(***************************************************************************)
(* Theorems about MediaExecution, for every number of jobs, workers,       *)
(* retries, generations, duplicate events, lapsed leases and faults.       *)
(***************************************************************************)
EXTENDS MediaExecution, JobExecutionProofs, FiniteSetTheorems

-----------------------------------------------------------------------------
(***************************************************************************)
(* Every step changes the rows of at most one job, in one of these ways.   *)
(***************************************************************************)
RowsKept == UNCHANGED rows

NextRetryCount(row) ==
  IF row.status = "PENDING" THEN row.retry_count ELSE row.retry_count + 1

RowsClaimed(j) ==
  /\ job[j].status \in OpenStatuses
  /\ claims' = [claims EXCEPT ![j] = @ + 1]
  /\ job' = [job EXCEPT ![j] =
               [status |-> "PROCESSING", retry_count |-> NextRetryCount(@),
                token |-> claims[j] + 1, lease |-> "live"]]
  /\ UNCHANGED <<kind, context, subject, reservation, asset, author>>

RowsRefused(j) ==
  /\ job[j].status \in OpenStatuses
  /\ claims' = [claims EXCEPT ![j] = @ + 1]
  /\ job' = [job EXCEPT ![j] =
               [status |-> "FAILED_FINAL", retry_count |-> NextRetryCount(@),
                token |-> NoToken, lease |-> "none"]]
  /\ subject' = [subject EXCEPT ![j] = "FAILED"]
  /\ reservation' = Settled(j, "RELEASED")
  /\ UNCHANGED <<kind, context, asset, author>>

RowsCompleted(j) ==
  /\ job[j].status = "PROCESSING"
  /\ job[j].token \in objects[j] \/ deleting[j]
  /\ job' = [job EXCEPT ![j] =
               [status |-> "COMPLETED", retry_count |-> @.retry_count,
                token |-> NoToken, lease |-> "none"]]
  /\ subject' = [subject EXCEPT ![j] = "COMPLETED"]
  /\ asset' = [asset EXCEPT ![j] = job[j].token]
  /\ reservation' = Settled(j, "COMMITTED")
  /\ author' = [author EXCEPT ![j] = job[j].token]
  /\ UNCHANGED <<kind, context, claims>>

RowsFailed(j) ==
  /\ job[j].status \in OpenStatuses
  /\ job' = [job EXCEPT ![j] =
               [status |-> "FAILED_FINAL", retry_count |-> @.retry_count,
                token |-> NoToken, lease |-> "none"]]
  /\ \E verdict \in {"FAILED", "REJECTED_BY_CRITIC"} :
       /\ kind[j] = "share" => verdict = "FAILED"
       /\ subject' = [subject EXCEPT ![j] = verdict]
  /\ reservation' = Settled(j, "RELEASED")
  /\ UNCHANGED <<kind, context, asset, claims, author>>

RowsMarked(j) ==
  /\ job[j].status = "PROCESSING"
  /\ job' = [job EXCEPT ![j] =
               [status |-> "FAILED_RETRYABLE", retry_count |-> @.retry_count,
                token |-> @.token, lease |-> @.lease]]
  /\ UNCHANGED <<kind, context, subject, reservation, asset, claims, author>>

RowsLapsed(j) ==
  /\ job[j].status = "PROCESSING"
  /\ job' = [job EXCEPT ![j].lease = "lapsed"]
  /\ UNCHANGED <<kind, context, subject, reservation, asset, claims, author>>

RowsPurged(j) ==
  /\ context' = [context EXCEPT ![j] = "gone"]
  /\ asset' = [asset EXCEPT ![j] = 0]
  /\ UNCHANGED <<kind, job, subject, reservation, claims, author>>

RowStep(j) ==
  \/ RowsClaimed(j) \/ RowsRefused(j) \/ RowsCompleted(j) \/ RowsFailed(j)
  \/ RowsMarked(j) \/ RowsLapsed(j) \/ RowsPurged(j)

RowTypes ==
  /\ kind \in [Jobs -> {"optimization", "share"}]
  /\ job \in [Jobs -> JobRows]
  /\ \A j \in Jobs : job[j].status \in CommittedStatuses
  /\ context \in [Jobs -> Contexts]
  /\ subject \in [Jobs -> {"PENDING", "COMPLETED", "FAILED", "REJECTED_BY_CRITIC"}]
  /\ reservation \in [Jobs -> {"NONE", "RESERVED", "COMMITTED", "RELEASED"}]
  /\ asset \in [Jobs -> Nat]
  /\ claims \in [Jobs -> Nat]
  /\ author \in [Jobs -> Nat]

(***************************************************************************)
(* What is known of a worker by the step it is at.  TypeOK needs it: the   *)
(* generations are bounded, and a key never holds the token of nobody.     *)
(***************************************************************************)
Working == {"read", "missing", "unavailable", "generate", "criticise",
            "criticise again", "check", "put", "complete", "reject"}

Underway(w) ==
  /\ pc[w] \in {"prepare", "read"} => generation[w] = 0
  /\ pc[w] = "generate" => generation[w] < MaxGenerations
  /\ pc[w] \in Working => tok[w] > 0
  /\ pc[w] \in {"criticise", "criticise again", "reject"} =>
       kind[held[w].job] = "optimization"
  /\ pc[w] = "complete" =>
       tok[w] \in objects[held[w].job] \/ deleting[held[w].job]

AllUnderway == \A w \in Workers : Underway(w)
-----------------------------------------------------------------------------
LEMMA ClaimRows ==
  ASSUME RowTypes, NEW j \in Jobs, MayClaim(j), ClaimWrites(j)
  PROVE  RowsClaimed(j) \/ RowsRefused(j)
<1>1. job[j] \in JobRows /\ claims[j] \in Nat /\ claims[j] + 1 \in Nat
  BY DEF RowTypes
<1>2. job[j].status \in OpenStatuses
  BY DEF RowTypes, MayClaim, Claimable, TerminalJobStatuses, CommittedStatuses,
         OpenStatuses
<1> DEFINE row == [status |-> "PROCESSING", retry_count |-> NextRetryCount(job[j]),
                   token |-> claims[j] + 1, lease |-> "live"]
<1>3. Claimed(job[j], claims[j] + 1) = row
  BY <1>1, <1>2, ClaimedRow DEF NextRetryCount
<1>4. CASE context[j] = "usable"
  BY <1>2, <1>3, <1>4 DEF ClaimWrites, RowsClaimed
<1>5. CASE context[j] # "usable"
  <2>1. row \in JobRows /\ row.status \in OpenStatuses
    BY <1>1 DEF JobRows, JobStatuses, Leases, OpenStatuses, NextRetryCount
  <2>2. FailedFinal(row) = [status |-> "FAILED_FINAL", retry_count |-> row.retry_count,
                            token |-> NoToken, lease |-> "none"]
    BY <2>1, FailedRow
  <2>3. FailedFinal(row) = [status |-> "FAILED_FINAL",
                            retry_count |-> NextRetryCount(job[j]),
                            token |-> NoToken, lease |-> "none"]
    BY <2>2
  <2>4. job' = [job EXCEPT ![j] = FailedFinal(row)]
    BY <1>3, <1>5 DEF ClaimWrites
  <2> HIDE DEF row
  <2>5. QED
    BY <1>2, <1>5, <2>3, <2>4 DEF ClaimWrites, RowsRefused
<1>6. QED
  BY <1>4, <1>5

LEMMA FailRows ==
  ASSUME RowTypes, NEW j \in Jobs, NEW t, MayFinalize(j, t),
         NEW verdict \in {"FAILED", "REJECTED_BY_CRITIC"},
         kind[j] = "share" => verdict = "FAILED", FailWrites(j, verdict)
  PROVE  RowsFailed(j)
<1>1. job[j] \in JobRows /\ job[j].status \in OpenStatuses
  BY DEF RowTypes, MayFinalize, Finalizable, CommittedStatuses, OpenStatuses
<1>2. FailedFinal(job[j]) =
        [status |-> "FAILED_FINAL", retry_count |-> job[j].retry_count,
         token |-> NoToken, lease |-> "none"]
  BY <1>1, FailedRow
<1>3. job' = [job EXCEPT ![j] =
                [status |-> "FAILED_FINAL", retry_count |-> @.retry_count,
                 token |-> NoToken, lease |-> "none"]]
  BY <1>2 DEF FailWrites
<1>4. QED
  BY <1>1, <1>3 DEF FailWrites, RowsFailed

LEMMA FinalizeRows ==
  ASSUME RowTypes, NEW w \in Workers, held[w].job \in Jobs,
         NEW verdict \in {"FAILED", "REJECTED_BY_CRITIC"},
         kind[held[w].job] = "share" => verdict = "FAILED",
         FinalizeFailure(w, verdict)
  PROVE  RowsKept \/ RowsFailed(held[w].job)
<1>1. CASE MayFinalize(held[w].job, tok[w])
  BY <1>1, FailRows DEF FinalizeFailure
<1>2. CASE ~MayFinalize(held[w].job, tok[w])
  BY <1>2 DEF FinalizeFailure, RowsKept
<1>3. QED
  BY <1>1, <1>2

LEMMA MarkRows ==
  ASSUME RowTypes, NEW w \in Workers, held[w].job \in Jobs, MarkWrites(w)
  PROVE  RowsKept \/ RowsMarked(held[w].job)
<1> DEFINE j == held[w].job
<1>1. CASE MayMark(j, tok[w])
  <2>1. job[j].status = "PROCESSING" /\ job[j] \in JobRows
    BY <1>1 DEF RowTypes, MayMark, Retryable, RunningJobStatuses, CommittedStatuses
  <2>2. QED
    BY <1>1, <2>1, RetryableRow DEF MarkWrites, RowsMarked
<1>2. CASE ~MayMark(j, tok[w])
  BY <1>2 DEF MarkWrites, RowsKept, rows
<1>3. QED
  BY <1>1, <1>2

LEMMA OutcomeRows ==
  ASSUME RowTypes, NEW w \in Workers, held[w].job \in Jobs, Outcome(w),
         tok[w] \in objects[held[w].job] \/ deleting[held[w].job]
  PROVE  RowsKept \/ RowsCompleted(held[w].job)
<1> DEFINE j == held[w].job
<1>1. CASE IsExecuting(j, tok[w])
  <2>1. job[j].status = "PROCESSING" /\ job[j].token = tok[w] /\ job[j] \in JobRows
    BY <1>1 DEF IsExecuting, Executing, RowTypes
  <2>2. CompleteWrites(j, tok[w])
    BY <1>1 DEF Outcome
  <2>3. job' = [job EXCEPT ![j] =
                  [status |-> "COMPLETED", retry_count |-> @.retry_count,
                   token |-> NoToken, lease |-> "none"]]
    BY <2>1, <2>2, CompletedRow DEF CompleteWrites
  <2>4. QED
    BY <2>1, <2>2, <2>3 DEF CompleteWrites, RowsCompleted
<1>2. CASE ~IsExecuting(j, tok[w])
  BY <1>2 DEF Outcome, RowsKept
<1>3. QED
  BY <1>1, <1>2

LEMMA StepRows ==
  ASSUME TypeOK, AllUnderway, [Next]_vars
  PROVE  RowsKept \/ \E j \in Jobs : RowStep(j)
<1> SUFFICES ASSUME ~RowsKept
             PROVE  \E j \in Jobs : RowStep(j)
  OBVIOUS
<1> USE DEF RowStep
<1>0. RowTypes
  BY DEF TypeOK, RowTypes
<1>1. CASE UNCHANGED vars
  BY <1>1 DEF vars, RowsKept
<1>2. ASSUME NEW j \in Jobs, Publish(j) \/ DeleteObject(j)
      PROVE  FALSE
  BY <1>2 DEF Publish, DeleteObject, RowsKept
<1>3. ASSUME NEW j \in Jobs, LapseLease(j)
      PROVE  RowStep(j)
  BY <1>3, <1>0 DEF LapseLease, LeaseHolds, RunningJobStatuses, CommittedStatuses,
                    RowsLapsed, RowTypes
<1>4. ASSUME NEW j \in Jobs, Purge(j)
      PROVE  RowStep(j)
  BY <1>4 DEF Purge, RowsPurged
<1>5. ASSUME NEW w \in Workers, WorkerLost(w) \/ \E m \in Messages : Deliver(w, m)
      PROVE  FALSE
  BY <1>5 DEF WorkerLost, Deliver, RowsKept
<1>6. ASSUME NEW w \in Workers, WorkerStep(w)
      PROVE  \E j \in Jobs : RowStep(j)
  <2> DEFINE j == held[w].job
  <2>0. pc[w] # "idle" => j \in Jobs
    BY DEF TypeOK, Messages
  <2>1. Underway(w)
    BY DEF AllUnderway
  <2>2. ASSUME pc[w] # "idle", FinalizeFailure(w, "FAILED")
        PROVE  RowStep(j) /\ j \in Jobs
    BY <2>2, <2>0, <1>0, FinalizeRows
  <2>3. ASSUME pc[w] = "reject", FinalizeFailure(w, "REJECTED_BY_CRITIC")
        PROVE  RowStep(j) /\ j \in Jobs
    BY <2>3, <2>0, <2>1, <1>0, FinalizeRows DEF Underway
  <2>4. ASSUME pc[w] # "idle", MarkWrites(w)
        PROVE  RowStep(j) /\ j \in Jobs
    BY <2>4, <2>0, <1>0, MarkRows
  <2>5. ASSUME pc[w] = "complete", Outcome(w)
        PROVE  RowStep(j) /\ j \in Jobs
    BY <2>5, <2>0, <2>1, <1>0, OutcomeRows DEF Underway
  <2>6. ASSUME pc[w] = "prepare", MayClaim(j), ClaimWrites(j)
        PROVE  RowStep(j) /\ j \in Jobs
    BY <2>6, <2>0, <1>0, ClaimRows
  <2>7. CASE PrepareClaim(w)
    BY <2>7, <2>6 DEF PrepareClaim
  <2>8. CASE PrepareAckLost(w)
    BY <2>8, <2>2, <2>4, <2>6 DEF PrepareAckLost
  <2>9. CASE SourceMissing(w) \/ Finalize(w) \/ Exhaust(w)
    BY <2>9, <2>2 DEF SourceMissing, Finalize, Exhaust
  <2>10. CASE Reject(w) \/ Complete(w) \/ OutcomeAckLost(w)
    BY <2>10, <2>3, <2>5 DEF Reject, Complete, OutcomeAckLost
  <2>11. CASE SourceUnavailable(w) \/ MarkRetryable(w) \/ MarkError(w)
    BY <2>11, <2>4 DEF SourceUnavailable, MarkRetryable, MarkError, RowsKept
  <2>12. CASE \/ PrepareSkip(w) \/ PrepareError(w) \/ Render(w) \/ Generate(w)
              \/ Criticise(w) \/ CheckCurrent(w) \/ Put(w) \/ PutFails(w)
              \/ PutAckLost(w) \/ OutcomeError(w) \/ Retry(w) \/ RetryUnpublished(w)
              \/ FinalizeError(w) \/ Ack(w)
    BY <2>12 DEF PrepareSkip, PrepareError, Render, Generate, Criticise, CheckCurrent,
                 Put, PutFails, PutAckLost, OutcomeError, Retry, RetryUnpublished,
                 FinalizeError, Ack, RowsKept
  <2>13. CASE \/ \E next \in {"generate", "missing", "unavailable", "finalize"} :
                   ReadSource(w, next)
              \/ \E next \in {"mark", "finalize"} : Giveup(w, next)
    BY <2>13 DEF ReadSource, Giveup, RowsKept
  <2>14. QED
    BY <1>6, <2>7, <2>8, <2>9, <2>10, <2>11, <2>12, <2>13 DEF WorkerStep
<1>7. QED
  BY <1>1, <1>2, <1>3, <1>4, <1>5, <1>6 DEF Next

LEMMA RowStepTypes ==
  ASSUME RowTypes, RowsKept \/ \E j \in Jobs : RowStep(j)
  PROVE  RowTypes' /\ kind' = kind
<1> USE DEF RowTypes
<1>1. CASE RowsKept
  BY <1>1 DEF RowsKept, rows
<1>2. ASSUME NEW j \in Jobs, RowStep(j)
      PROVE  RowTypes' /\ kind' = kind
  <2> USE DEF CommittedStatuses, JobRows, JobStatuses, Leases, NoToken, NextRetryCount,
              Settled, Contexts
  <2>1. CASE RowsClaimed(j)
    BY <2>1 DEF RowsClaimed
  <2>2. CASE RowsRefused(j)
    BY <2>2 DEF RowsRefused
  <2>3. CASE RowsCompleted(j)
    BY <2>3 DEF RowsCompleted
  <2>4. CASE RowsFailed(j)
    BY <2>4 DEF RowsFailed
  <2>5. CASE RowsMarked(j)
    BY <2>5 DEF RowsMarked
  <2>6. CASE RowsLapsed(j)
    BY <2>6 DEF RowsLapsed
  <2>7. CASE RowsPurged(j)
    BY <2>7 DEF RowsPurged
  <2>8. QED
    BY <1>2, <2>1, <2>2, <2>3, <2>4, <2>5, <2>6, <2>7 DEF RowStep
<1>3. QED
  BY <1>1, <1>2
-----------------------------------------------------------------------------
(***************************************************************************)
(* COS: nothing vanishes from it but what a deletion removes.              *)
(***************************************************************************)
StoreTypes ==
  /\ objects \in [Jobs -> SUBSET (Nat \ {0})]
  /\ deleting \in [Jobs -> BOOLEAN]

StoreGrows ==
  \A j \in Jobs :
    /\ objects[j] \subseteq objects'[j] \/ deleting'[j]
    /\ deleting[j] => deleting'[j]

LEMMA StepStore ==
  ASSUME TypeOK, AllUnderway, [Next]_vars
  PROVE  StoreTypes' /\ StoreGrows
<1>0. StoreTypes
  BY DEF TypeOK, StoreTypes
<1>1. ASSUME UNCHANGED store
      PROVE  StoreTypes' /\ StoreGrows
  BY <1>0, <1>1 DEF store, StoreTypes, StoreGrows
<1>2. ASSUME NEW j \in Jobs, DeleteObject(j)
      PROVE  StoreTypes' /\ StoreGrows
  BY <1>0, <1>2 DEF DeleteObject, StoreTypes, StoreGrows
<1>3. ASSUME NEW w \in Workers, pc[w] = "put", ObjectPut(w), UNCHANGED deleting
      PROVE  StoreTypes' /\ StoreGrows
  <2>1. tok[w] \in Nat \ {0}
    <3>1. tok[w] \in Nat
      BY DEF TypeOK
    <3>2. Underway(w)
      BY DEF AllUnderway
    <3>3. tok[w] > 0
      BY <1>3, <3>2 DEF Underway, Working
    <3>4. QED
      BY <3>1, <3>3
  <2>2. held[w].job \in Jobs
    BY <1>3 DEF TypeOK, Messages
  <2>3. QED
    BY <1>0, <1>3, <2>1, <2>2 DEF ObjectPut, StoreTypes, StoreGrows
<1>4. ASSUME NEW w \in Workers, Put(w) \/ PutAckLost(w)
      PROVE  StoreTypes' /\ StoreGrows
  BY <1>3, <1>4 DEF Put, PutAckLost
<1>5. ASSUME NEW j \in Jobs, Publish(j) \/ LapseLease(j) \/ Purge(j)
      PROVE  UNCHANGED store
  BY <1>5 DEF Publish, LapseLease, Purge
<1>6. ASSUME NEW w \in Workers, WorkerLost(w) \/ \E m \in Messages : Deliver(w, m)
      PROVE  UNCHANGED store
  BY <1>6 DEF WorkerLost, Deliver
<1>7. ASSUME NEW w \in Workers, WorkerStep(w), ~Put(w), ~PutAckLost(w)
      PROVE  UNCHANGED store
  BY <1>7 DEF WorkerStep, PrepareSkip, PrepareClaim, ReadSource, SourceMissing,
              SourceUnavailable, PrepareError, PrepareAckLost, Giveup, Render, Generate,
              Criticise, CheckCurrent, PutFails, Complete, Reject, OutcomeError,
              OutcomeAckLost, Finalize, MarkRetryable, MarkError, Retry,
              RetryUnpublished, Exhaust, FinalizeError, Ack, Elsewhere
<1>8. CASE UNCHANGED vars
  BY <1>1, <1>8 DEF vars
<1>9. QED
  BY <1>1, <1>2, <1>4, <1>5, <1>6, <1>7, <1>8 DEF Next
-----------------------------------------------------------------------------
EnvTypes ==
  /\ published \in [Jobs -> Nat]
  /\ lapses \in [Jobs -> Nat]
  /\ faults \in Nat

EnvGrows == faults' >= faults /\ \A j \in Jobs : lapses'[j] >= lapses[j]

LEMMA StepEnv ==
  ASSUME EnvTypes, [Next]_vars
  PROVE  EnvTypes' /\ EnvGrows
<1> USE DEF EnvTypes, EnvGrows
<1>1. ASSUME NEW w \in Workers, WorkerStep(w)
      PROVE  EnvTypes' /\ EnvGrows
  <2>1. UNCHANGED <<published, lapses>> /\ (faults' = faults \/ faults' = faults + 1)
    BY <1>1 DEF WorkerStep, PrepareSkip, PrepareClaim, ReadSource, SourceMissing,
                SourceUnavailable, PrepareError, PrepareAckLost, Giveup, Render,
                Generate, Criticise, CheckCurrent, Put, PutFails, PutAckLost, Complete,
                Reject, OutcomeError, OutcomeAckLost, Finalize, MarkRetryable, MarkError,
                Retry, PublishRetry, RetryUnpublished, LoseRetry, Exhaust,
                FinalizeError, Ack, Acknowledge, Elsewhere, Fault
  <2>2. QED
    BY <2>1
<1>2. ASSUME NEW j \in Jobs, Publish(j) \/ LapseLease(j) \/ DeleteObject(j) \/ Purge(j)
      PROVE  EnvTypes' /\ EnvGrows
  BY <1>2 DEF Publish, SendEvent, LapseLease, DeleteObject, Purge, Fault, delivery
<1>3. ASSUME NEW w \in Workers, WorkerLost(w) \/ \E m \in Messages : Deliver(w, m)
      PROVE  EnvTypes' /\ EnvGrows
  BY <1>3 DEF WorkerLost, LoseWorker, Deliver, Take, Fault
<1>4. CASE UNCHANGED vars
  BY <1>4 DEF vars, delivery
<1>5. QED
  BY <1>1, <1>2, <1>3, <1>4 DEF Next
-----------------------------------------------------------------------------
(***************************************************************************)
(* The workers: a step moves one of them, and the store and the kinds do   *)
(* not change under the others.                                            *)
(***************************************************************************)
ProcTypes ==
  /\ generation \in [Workers -> 0 .. MaxGenerations]
  /\ queue \in [Messages -> Nat]
  /\ pc \in [Workers -> Steps]
  /\ held \in [Workers -> Messages \cup {NoMessage}]
  /\ \A w \in Workers : pc[w] # "idle" => held[w] \in Messages
  /\ tok \in [Workers -> Nat]

Surroundings == ProcTypes /\ AllUnderway /\ StoreGrows /\ kind' = kind

LEMMA StayUnderway ==
  ASSUME Surroundings, NEW v \in Workers,
         pc'[v] = pc[v], held'[v] = held[v], tok'[v] = tok[v],
         generation'[v] = generation[v]
  PROVE  Underway(v)'
<1>1. Underway(v) /\ kind' = kind
  BY DEF Surroundings, AllUnderway
<1>2. pc[v] = "complete" => held[v].job \in Jobs
  BY DEF Surroundings, ProcTypes, Messages
<1>3. pc[v] = "complete" => tok[v] \in objects'[held[v].job] \/ deleting'[held[v].job]
  BY <1>1, <1>2 DEF Underway, Surroundings, StoreGrows
<1>4. QED
  BY <1>1, <1>3 DEF Underway

LEMMA NobodyMoves ==
  ASSUME Surroundings, UNCHANGED <<procs, generation>>, queue' \in [Messages -> Nat]
  PROVE  ProcTypes' /\ AllUnderway'
BY StayUnderway DEF Surroundings, ProcTypes, procs, AllUnderway

LEMMA WorkerMoves ==
  ASSUME Surroundings, NEW w \in Workers, pc[w] # "idle",
         NEW step \in Steps \ {"idle"}, NEW t \in Nat, NEW g \in 0 .. MaxGenerations,
         pc' = [pc EXCEPT ![w] = step], tok' = [tok EXCEPT ![w] = t],
         generation' = [generation EXCEPT ![w] = g],
         held' = held, queue' \in [Messages -> Nat],
         step \in {"prepare", "read"} => g = 0,
         step = "generate" => g < MaxGenerations,
         step \in Working => t > 0,
         step \in {"criticise", "criticise again", "reject"} =>
           kind[held[w].job] = "optimization",
         step = "complete" => t \in objects'[held[w].job] \/ deleting'[held[w].job]
  PROVE  ProcTypes' /\ AllUnderway'
<1>1. ProcTypes /\ kind' = kind
  BY DEF Surroundings
<1>2. ProcTypes'
  BY <1>1 DEF ProcTypes
<1>3. pc'[w] = step /\ tok'[w] = t /\ generation'[w] = g /\ held'[w] = held[w]
  BY <1>1 DEF ProcTypes
<1>4. Underway(w)'
  BY <1>1, <1>3 DEF Underway
<1>5. ASSUME NEW v \in Workers \ {w}
      PROVE  Underway(v)'
  BY <1>1, StayUnderway DEF ProcTypes
<1>6. QED
  BY <1>2, <1>4, <1>5 DEF AllUnderway

LEMMA WorkerGoes ==
  ASSUME Surroundings, NEW w \in Workers, pc[w] # "idle",
         NEW step \in Steps \ {"idle"}, Goto(w, step), UNCHANGED generation,
         queue' \in [Messages -> Nat],
         step \in {"prepare", "read"} => generation[w] = 0,
         step = "generate" => generation[w] < MaxGenerations,
         step \in Working => tok[w] > 0,
         step \in {"criticise", "criticise again", "reject"} =>
           kind[held[w].job] = "optimization",
         step = "complete" => tok[w] \in objects'[held[w].job] \/ deleting'[held[w].job]
  PROVE  ProcTypes' /\ AllUnderway'
<1>1. tok[w] \in Nat /\ generation[w] \in 0 .. MaxGenerations
  BY DEF Surroundings, ProcTypes
<1>2. tok' = [tok EXCEPT ![w] = tok[w]] /\ generation' = [generation EXCEPT ![w] = generation[w]]
  BY DEF Surroundings, ProcTypes, Goto
<1>3. QED
  BY <1>1, <1>2, WorkerMoves DEF Goto

(***************************************************************************)
(* A worker that rests has no message and nothing to account for.          *)
(***************************************************************************)
LEMMA WorkerRests ==
  ASSUME Surroundings, NEW w \in Workers, pc' = [pc EXCEPT ![w] = "idle"],
         held' = [held EXCEPT ![w] = NoMessage], tok' = [tok EXCEPT ![w] = NoToken],
         UNCHANGED generation, queue' \in [Messages -> Nat]
  PROVE  ProcTypes' /\ AllUnderway'
<1>1. ProcTypes
  BY DEF Surroundings
<1>2. ProcTypes'
  BY <1>1 DEF ProcTypes, Steps, NoToken
<1>3. Underway(w)'
  BY <1>1 DEF ProcTypes, Underway, Working
<1>4. ASSUME NEW v \in Workers \ {w}
      PROVE  Underway(v)'
  BY <1>1, StayUnderway DEF ProcTypes
<1>5. QED
  BY <1>2, <1>3, <1>4 DEF AllUnderway

LEMMA WorkerTakes ==
  ASSUME Surroundings, NEW w \in Workers, NEW m \in Messages, Deliver(w, m)
  PROVE  ProcTypes' /\ AllUnderway'
<1>1. ProcTypes /\ 0 \in 0 .. MaxGenerations /\ 0 < MaxGenerations
  BY GenerationsAssumption DEF Surroundings
<1>2. ProcTypes'
  <2>1. /\ pc' = [pc EXCEPT ![w] = "prepare"] /\ held' = [held EXCEPT ![w] = m]
        /\ tok' = [tok EXCEPT ![w] = 0] /\ generation' = [generation EXCEPT ![w] = 0]
    BY DEF Deliver, Take, NoToken
  <2>2. queue' \in [Messages -> Nat]
    <3>1. queue' = [queue EXCEPT ![m] = @ - 1] /\ queue[m] > 0 /\ queue[m] \in Nat
      BY <1>1 DEF Deliver, Take, ProcTypes
    <3>2. queue[m] - 1 \in Nat
      BY <3>1
    <3>3. QED
      BY <1>1, <3>1, <3>2 DEF ProcTypes
  <2>3. QED
    BY <1>1, <2>1, <2>2 DEF ProcTypes, Steps
<1>3. Underway(w)'
  BY <1>1 DEF Deliver, Take, ProcTypes, Underway, Working
<1>4. ASSUME NEW v \in Workers \ {w}
      PROVE  Underway(v)'
  BY <1>1, StayUnderway DEF Deliver, Take, ProcTypes
<1>5. QED
  BY <1>2, <1>3, <1>4 DEF AllUnderway

(***************************************************************************)
(* A worker that goes somewhere it has nothing to account for.             *)
(***************************************************************************)
LEMMA WorkerEnds ==
  ASSUME Surroundings, NEW w \in Workers, pc[w] # "idle",
         NEW step \in {"finalize", "mark", "raised", "ack"}, Goto(w, step),
         UNCHANGED generation, queue' \in [Messages -> Nat]
  PROVE  ProcTypes' /\ AllUnderway'
BY WorkerGoes DEF Steps, Working

LEMMA NextTurnGoes ==
  ASSUME Surroundings, NEW w \in Workers, tok[w] > 0, NEW g \in 0 .. MaxGenerations,
         pc[w] # "idle", kind[held[w].job] = "optimization", Goto(w, NextTurn(g)),
         generation' = [generation EXCEPT ![w] = g], queue' \in [Messages -> Nat]
  PROVE  ProcTypes' /\ AllUnderway'
<1>1. tok[w] \in Nat /\ tok' = [tok EXCEPT ![w] = tok[w]]
  BY DEF Surroundings, ProcTypes, Goto
<1>2. NextTurn(g) \in {"generate", "reject"} /\ (NextTurn(g) = "generate" => g < MaxGenerations)
  BY DEF NextTurn
<1> DEFINE step == NextTurn(g)
<1>3. step \in Steps \ {"idle"} /\ step \notin {"prepare", "read", "complete"}
  BY <1>2 DEF Steps
<1>4. pc' = [pc EXCEPT ![w] = step] /\ held' = held
  BY DEF Goto
<1> HIDE DEF step
<1>5. step = "generate" => g < MaxGenerations
  BY <1>2 DEF step
<1>6. QED
  BY <1>1, <1>3, <1>4, <1>5, WorkerMoves

LEMMA StepProcs ==
  ASSUME TypeOK, Surroundings, [Next]_vars
  PROVE  ProcTypes' /\ AllUnderway'
<1>0. ProcTypes /\ queue \in [Messages -> Nat]
  BY DEF Surroundings, ProcTypes
<1>1. ASSUME NEW j \in Jobs, Publish(j) \/ LapseLease(j) \/ DeleteObject(j) \/ Purge(j)
      PROVE  ProcTypes' /\ AllUnderway'
  <2>1. UNCHANGED <<procs, generation>>
    BY <1>1 DEF Publish, SendEvent, LapseLease, DeleteObject, Purge, delivery
  <2>2. queue' \in [Messages -> Nat]
    BY <1>0, <1>1 DEF Publish, SendEvent, LapseLease, DeleteObject, Purge, delivery
  <2>3. QED
    BY <2>1, <2>2, NobodyMoves
<1>2. ASSUME NEW w \in Workers, NEW m \in Messages, Deliver(w, m)
      PROVE  ProcTypes' /\ AllUnderway'
  BY <1>2, WorkerTakes
<1>3. ASSUME NEW w \in Workers, WorkerLost(w)
      PROVE  ProcTypes' /\ AllUnderway'
  <2>1. queue' \in [Messages -> Nat]
    BY <1>0, <1>3 DEF WorkerLost, LoseWorker, ProcTypes
  <2>2. QED
    BY <1>3, <2>1, WorkerRests DEF WorkerLost, LoseWorker
<1>4. ASSUME NEW w \in Workers, WorkerStep(w)
      PROVE  ProcTypes' /\ AllUnderway'
  <2> DEFINE j == held[w].job
  <2>0. /\ pc[w] # "idle" => j \in Jobs
        /\ Underway(w)
        /\ tok[w] \in Nat /\ generation[w] \in 0 .. MaxGenerations
        /\ generation = [generation EXCEPT ![w] = generation[w]]
    BY DEF Surroundings, ProcTypes, AllUnderway, Messages
  <2>1. CASE Ack(w)
    BY <1>0, <2>1, WorkerRests DEF Ack, Acknowledge
  <2>2. CASE Retry(w)
    <3> DEFINE m == NextAttempt(w)
    <3>1. queue' = [queue EXCEPT ![m] = @ + 1]
      BY <2>2 DEF Retry, PublishRetry
    <3> HIDE DEF m
    <3>2. queue' \in [Messages -> Nat]
      <4>1. CASE m \in Messages
        BY <1>0, <3>1, <4>1
      <4>2. CASE m \notin Messages
        <5>1. queue' = queue
          BY <1>0, <3>1, <4>2
        <5>2. QED
          BY <1>0, <5>1
      <4>3. QED
        BY <4>1, <4>2
    <3>3. QED
      BY <2>2, <3>2, WorkerEnds DEF Retry, PublishRetry
  <2>3. CASE \/ PrepareSkip(w) \/ SourceMissing(w) \/ SourceUnavailable(w)
             \/ PutFails(w) \/ Complete(w) \/ Reject(w) \/ OutcomeError(w)
             \/ OutcomeAckLost(w) \/ Finalize(w) \/ MarkError(w) \/ RetryUnpublished(w)
             \/ Exhaust(w) \/ FinalizeError(w) \/ PutAckLost(w)
    <3>1. /\ pc[w] # "idle" /\ UNCHANGED <<generation, queue>>
          /\ \E step \in {"finalize", "mark", "raised", "ack"} : Goto(w, step)
      BY <2>3 DEF PrepareSkip, SourceMissing, SourceUnavailable, PutFails, Complete,
                  Reject, OutcomeError, OutcomeAckLost, Finalize, MarkError,
                  RetryUnpublished, LoseRetry, Exhaust, FinalizeError, PutAckLost,
                  Elsewhere
    <3>2. QED
      BY <3>1, <1>0, WorkerEnds
  <2>4. CASE MarkRetryable(w) \/ \E next \in {"mark", "finalize"} : Giveup(w, next)
    <3>1. /\ pc[w] # "idle" /\ UNCHANGED <<generation, queue>>
          /\ \E step \in {"finalize", "mark", "raised", "ack"} : Goto(w, step)
      BY <2>4 DEF MarkRetryable, Giveup, Elsewhere
    <3>2. QED
      BY <3>1, <1>0, WorkerEnds
  <2>5. CASE PrepareError(w) \/ PrepareAckLost(w)
    <3>1. pc[w] # "idle" /\ RaiseWithoutToken(w) /\ UNCHANGED <<generation, queue>>
      BY <2>5 DEF PrepareError, PrepareAckLost, Elsewhere
    <3>2. "raised" \in Steps \ {"idle"} /\ NoToken \in Nat
      BY DEF Steps, NoToken
    <3>3. QED
      BY <3>1, <3>2, <2>0, <1>0, WorkerMoves DEF RaiseWithoutToken, Working
  <2>6. CASE PrepareClaim(w)
    <3> DEFINE step == IF context[j] = "usable" THEN "read" ELSE "ack"
               t == claims[j] + 1
    <3>1. /\ pc[w] = "prepare" /\ held' = held /\ UNCHANGED <<generation, queue>>
          /\ pc' = [pc EXCEPT ![w] = step] /\ tok' = [tok EXCEPT ![w] = t]
      BY <2>6 DEF PrepareClaim, Elsewhere
    <3>2. step \in {"read", "ack"} /\ step \in Steps \ {"idle"}
      BY DEF Steps
    <3>3. t \in Nat /\ t > 0 /\ generation[w] = 0
      BY <3>1, <2>0 DEF TypeOK, Underway
    <3> HIDE DEF step, t
    <3>4. QED
      BY <3>1, <3>2, <3>3, <2>0, <1>0, WorkerMoves
  <2>7. CASE \E next \in {"generate", "missing", "unavailable", "finalize"} :
               ReadSource(w, next)
    <3>1. PICK next \in {"generate", "missing", "unavailable", "finalize"} :
            ReadSource(w, next)
      BY <2>7
    <3>2. pc[w] = "read" /\ Goto(w, next) /\ UNCHANGED <<generation, queue>>
      BY <3>1 DEF ReadSource, Elsewhere
    <3>3. generation[w] = 0 /\ tok[w] > 0 /\ 0 < MaxGenerations
      BY <3>2, <2>0, GenerationsAssumption DEF Underway, Working
    <3>4. QED
      BY <3>2, <3>3, <1>0, WorkerGoes DEF Steps
  <2>8. CASE Render(w) \/ CheckCurrent(w)
    <3>1. /\ pc[w] \in {"generate", "check"} /\ UNCHANGED <<generation, queue>>
          /\ \E step \in {"check", "put", "ack"} : Goto(w, step)
      BY <2>8 DEF Render, CheckCurrent, Elsewhere
    <3>2. tok[w] > 0
      BY <3>1, <2>0 DEF Underway, Working
    <3>3. QED
      BY <3>1, <3>2, <1>0, WorkerGoes DEF Steps
  <2>9. CASE Put(w)
    <3>1. /\ pc[w] = "put" /\ UNCHANGED <<generation, queue>> /\ Goto(w, "complete")
          /\ objects' = [objects EXCEPT ![j] = @ \cup {tok[w]}]
      BY <2>9 DEF Put, ObjectPut
    <3>2. tok[w] > 0 /\ tok[w] \in objects'[j]
      BY <3>1, <2>0 DEF Underway, Working, TypeOK
    <3>3. QED
      BY <3>1, <3>2, <1>0, WorkerGoes DEF Steps
  <2>10. CASE Generate(w)
    <3> DEFINE g == generation[w] + 1
    <3>1. /\ pc[w] = "generate" /\ kind[j] = "optimization" /\ queue' = queue
          /\ generation' = [generation EXCEPT ![w] = g]
          /\ Goto(w, "criticise") \/ Goto(w, NextTurn(g))
      BY <2>10 DEF Generate
    <3>2. g \in 0 .. MaxGenerations /\ tok[w] > 0
      BY <3>1, <2>0, GenerationsAssumption DEF Underway, Working
    <3> HIDE DEF g
    <3>3. CASE Goto(w, "criticise")
      <4>1. tok' = [tok EXCEPT ![w] = tok[w]] /\ pc' = [pc EXCEPT ![w] = "criticise"]
            /\ held' = held /\ "criticise" \in Steps \ {"idle"}
        BY <3>3, <1>0 DEF Goto, ProcTypes, Steps
      <4>2. QED
        BY <4>1, <3>1, <3>2, <2>0, <1>0, WorkerMoves
    <3>4. CASE Goto(w, NextTurn(g))
      BY <3>4, <3>1, <3>2, <1>0, NextTurnGoes
    <3>5. QED
      BY <3>1, <3>3, <3>4
  <2>11. CASE Criticise(w)
    <3>1. /\ pc[w] \in {"criticise", "criticise again"} /\ UNCHANGED <<generation, queue>>
          /\ \/ \E step \in {"check", "criticise again"} : Goto(w, step)
             \/ Goto(w, NextTurn(generation[w]))
      BY <2>11 DEF Criticise, Elsewhere
    <3>2. tok[w] > 0 /\ kind[j] = "optimization"
      BY <3>1, <2>0 DEF Underway, Working
    <3>3. CASE \E step \in {"check", "criticise again"} : Goto(w, step)
      BY <3>3, <3>1, <3>2, <1>0, WorkerGoes DEF Steps
    <3>4. CASE Goto(w, NextTurn(generation[w]))
      BY <3>4, <3>1, <3>2, <2>0, <1>0, NextTurnGoes
    <3>5. QED
      BY <3>1, <3>3, <3>4
  <2>12. QED
    BY <1>4, <2>1, <2>2, <2>3, <2>4, <2>5, <2>6, <2>7, <2>8, <2>9, <2>10, <2>11
       DEF WorkerStep
<1>5. CASE UNCHANGED vars
  BY <1>0, <1>5, NobodyMoves DEF vars, delivery
<1>6. QED
  BY <1>1, <1>2, <1>3, <1>4, <1>5 DEF Next
-----------------------------------------------------------------------------
(***************************************************************************)
(* The inductive invariant.  An open row carries the token of its last     *)
(* claim (ClaimsOnRow), and a worker that is about to complete has put its *)
(* image (AllUnderway): together they make the image of a completed job    *)
(* the last claim's.                                                       *)
(***************************************************************************)
ClaimsOnRow ==
  \A j \in Jobs :
    /\ job[j].status = "PENDING" => claims[j] = 0
    /\ job[j].status \in {"PROCESSING", "FAILED_RETRYABLE"} =>
         claims[j] > 0 /\ job[j].token = claims[j]

IInv ==
  /\ TypeOK
  /\ AllUnderway
  /\ SettledTogether
  /\ ImageOfLatestClaim
  /\ ClaimsOnRow

LEMMA InitInv == Init => IInv
<1> SUFFICES ASSUME Init
             PROVE  IInv
  OBVIOUS
<1>0. 0 \in 0 .. MaxGenerations
  BY GenerationsAssumption
<1>1. TypeOK
  BY <1>0 DEF Init, InitDelivery, TypeOK, NewJob, JobRows, JobStatuses, Leases,
              CommittedStatuses, NoToken, Steps, Contexts
<1>2. AllUnderway
  BY DEF Init, InitDelivery, AllUnderway, Underway, Working
<1>3. SettledTogether
  BY DEF Init, NewJob, SettledTogether
<1>4. ImageOfLatestClaim /\ ClaimsOnRow
  BY DEF Init, NewJob, ImageOfLatestClaim, ClaimsOnRow
<1>5. QED
  BY <1>1, <1>2, <1>3, <1>4 DEF IInv

LEMMA NextTypes ==
  ASSUME TypeOK, AllUnderway, [Next]_vars
  PROVE  TypeOK' /\ AllUnderway'
<1>1. RowTypes /\ ProcTypes /\ EnvTypes
  BY DEF TypeOK, RowTypes, ProcTypes, EnvTypes
<1>2. RowTypes' /\ kind' = kind
  BY <1>1, StepRows, RowStepTypes
<1>3. StoreTypes' /\ StoreGrows
  BY StepStore
<1>4. ProcTypes' /\ AllUnderway'
  BY <1>1, <1>2, <1>3, StepProcs DEF Surroundings
<1>5. EnvTypes'
  BY <1>1, StepEnv
<1>6. QED
  BY <1>2, <1>3, <1>4, <1>5 DEF TypeOK, RowTypes, ProcTypes, EnvTypes, StoreTypes

LEMMA RowStepSettled ==
  ASSUME RowTypes, SettledTogether, NEW j \in Jobs, RowStep(j)
  PROVE  SettledTogether'
<1> USE DEF RowTypes, SettledTogether, Settled
<1>1. CASE RowsClaimed(j)
  BY <1>1 DEF RowsClaimed, OpenStatuses
<1>2. CASE RowsRefused(j)
  BY <1>2 DEF RowsRefused, OpenStatuses
<1>3. CASE RowsCompleted(j)
  BY <1>3 DEF RowsCompleted
<1>4. CASE RowsFailed(j)
  BY <1>4 DEF RowsFailed, OpenStatuses
<1>5. CASE RowsMarked(j)
  BY <1>5 DEF RowsMarked
<1>6. CASE RowsLapsed(j)
  BY <1>6 DEF RowsLapsed
<1>7. CASE RowsPurged(j)
  BY <1>7 DEF RowsPurged
<1>8. QED
  BY <1>1, <1>2, <1>3, <1>4, <1>5, <1>6, <1>7 DEF RowStep

LEMMA RowStepClaims ==
  ASSUME RowTypes, ClaimsOnRow, NEW j \in Jobs, RowStep(j)
  PROVE  ClaimsOnRow'
<1> USE DEF RowTypes, ClaimsOnRow
<1>1. CASE RowsClaimed(j)
  BY <1>1 DEF RowsClaimed
<1>2. CASE RowsRefused(j)
  BY <1>2 DEF RowsRefused
<1>3. CASE RowsCompleted(j)
  BY <1>3 DEF RowsCompleted
<1>4. CASE RowsFailed(j)
  BY <1>4 DEF RowsFailed
<1>5. CASE RowsMarked(j)
  BY <1>5 DEF RowsMarked
<1>6. CASE RowsLapsed(j)
  BY <1>6 DEF RowsLapsed
<1>7. CASE RowsPurged(j)
  BY <1>7 DEF RowsPurged
<1>8. QED
  BY <1>1, <1>2, <1>3, <1>4, <1>5, <1>6, <1>7 DEF RowStep

LEMMA RowStepImage ==
  ASSUME RowTypes, ImageOfLatestClaim, ClaimsOnRow, StoreGrows,
         NEW j \in Jobs, RowStep(j)
  PROVE  ImageOfLatestClaim'
<1>0. ASSUME NEW i \in Jobs, asset[i] \in objects[i] \/ deleting[i]
      PROVE  asset[i] \in objects'[i] \/ deleting'[i]
  BY <1>0 DEF StoreGrows
<1>1. \A i \in Jobs : job[i].status = "COMPLETED" /\ HasContext(i) =>
        asset[i] = claims[i] /\ (asset[i] \in objects'[i] \/ deleting'[i])
  BY <1>0 DEF ImageOfLatestClaim
<1> USE <1>1 DEF RowTypes, ImageOfLatestClaim, HasContext
<1>2. CASE RowsClaimed(j)
  BY <1>2 DEF RowsClaimed, OpenStatuses
<1>3. CASE RowsRefused(j)
  BY <1>3 DEF RowsRefused, OpenStatuses
<1>4. CASE RowsCompleted(j)
  <2>1. job[j].token = claims[j]
    BY <1>4 DEF RowsCompleted, ClaimsOnRow
  <2>2. job[j].token \in objects'[j] \/ deleting'[j]
    BY <1>4 DEF RowsCompleted, StoreGrows
  <2>3. QED
    BY <1>4, <2>1, <2>2 DEF RowsCompleted
<1>5. CASE RowsFailed(j)
  BY <1>5 DEF RowsFailed
<1>6. CASE RowsMarked(j)
  BY <1>6 DEF RowsMarked
<1>7. CASE RowsLapsed(j)
  BY <1>7 DEF RowsLapsed
<1>8. CASE RowsPurged(j)
  BY <1>8 DEF RowsPurged
<1>9. QED
  BY <1>2, <1>3, <1>4, <1>5, <1>6, <1>7, <1>8 DEF RowStep

LEMMA NextInv ==
  ASSUME IInv, [Next]_vars
  PROVE  IInv'
<1>1. TypeOK /\ AllUnderway /\ TypeOK' /\ AllUnderway'
  BY NextTypes DEF IInv
<1>2. RowTypes /\ StoreGrows
  BY <1>1, StepStore DEF TypeOK, RowTypes
<1>3. CASE RowsKept
  <2>1. SettledTogether' /\ ClaimsOnRow'
    BY <1>3 DEF IInv, RowsKept, rows, SettledTogether, ClaimsOnRow
  <2>2. ImageOfLatestClaim'
    BY <1>2, <1>3 DEF IInv, RowsKept, rows, ImageOfLatestClaim, HasContext, StoreGrows
  <2>3. QED
    BY <1>1, <2>1, <2>2 DEF IInv
<1>4. ASSUME NEW j \in Jobs, RowStep(j)
      PROVE  IInv'
  BY <1>1, <1>2, <1>4, RowStepSettled, RowStepClaims, RowStepImage DEF IInv
<1>5. QED
  BY <1>1, <1>3, <1>4, StepRows

LEMMA Invariance == Spec => []IInv
BY InitInv, NextInv, PTL DEF Spec

(***************************************************************************)
(* The variables keep their types: no more images than the policy allows,  *)
(* no key without a claim, no status that exists only inside a             *)
(* transaction.                                                            *)
(***************************************************************************)
THEOREM TypeCorrect == Spec => []TypeOK
<1>1. IInv => TypeOK
  BY DEF IInv
<1>2. QED
  BY <1>1, Invariance, PTL

(***************************************************************************)
(* Job, result and quota of an optimization or a share always agree.       *)
(***************************************************************************)
THEOREM Settlement == Spec => []SettledTogether
<1>1. IInv => SettledTogether
  BY DEF IInv
<1>2. QED
  BY <1>1, Invariance, PTL

(***************************************************************************)
(* The image a completed job shows is in COS, until a deletion takes it,   *)
(* and is the one of its latest execution.                                 *)
(***************************************************************************)
THEOREM Fencing == Spec => []ImageOfLatestClaim
<1>1. IInv => ImageOfLatestClaim
  BY DEF IInv
<1>2. QED
  BY <1>1, Invariance, PTL
-----------------------------------------------------------------------------
(***************************************************************************)
(* The executors keep the contract of a generation job: a claim begins an  *)
(* attempt or, without a usable plan, is refused; a completion or failure  *)
(* settles everything in one step; what happens in COS stutters.           *)
(***************************************************************************)
LEMMA SettledCharge ==
  ASSUME RowTypes, NEW j \in Jobs, NEW target \in {"COMMITTED", "RELEASED"},
         reservation' = Settled(j, target), kind' = kind,
         NEW verdict, subject' = [subject EXCEPT ![j] = verdict],
         target = "COMMITTED" => verdict = "COMPLETED",
         target = "RELEASED" => verdict \in {"FAILED", "REJECTED_BY_CRITIC"}
  PROVE  \A i \in Jobs : Charge(i)' = IF i = j THEN target ELSE Charge(i)
<1>1. ASSUME NEW i \in Jobs \ {j}
      PROVE  Charge(i)' = Charge(i)
  BY DEF Charge, Settled, RowTypes
<1>2. Charge(j)' = target
  BY DEF Charge, Settled, RowTypes
<1>3. QED
  BY <1>1, <1>2

(***************************************************************************)
(* THEOREM.  Optimizations and shares, with their messages, leases, faults *)
(* and images on the way to COS, implement the contract of one job         *)
(* (optimization/executor.py, growth/executor.py).                         *)
(***************************************************************************)
THEOREM Refinement == Spec => KeepsContract
<1>1. Init => Contract!Init
  <2> SUFFICES ASSUME Init
               PROVE  Contract!Init
    OBVIOUS
  <2>1. \A j \in Jobs : Verdict(job[j]) = "open"
    BY DEF Init, NewJob, Verdict
  <2>2. \A j \in Jobs : Charge(j) = "RESERVED"
    BY DEF Init, Charge
  <2>3. QED
    BY <2>1, <2>2 DEF Init, Contract!Init
<1>2. IInv /\ [Next]_vars => [Contract!Next]_(Contract!contractVars)
  <2> SUFFICES ASSUME IInv, [Next]_vars
               PROVE  Contract!Next \/ UNCHANGED Contract!contractVars
    OBVIOUS
  <2>0. RowTypes
    BY DEF IInv, TypeOK, RowTypes
  <2>1. ASSUME UNCHANGED <<claims, author, kind, subject, reservation>>,
               \A i \in Jobs : Verdict(job'[i]) = Verdict(job[i])
        PROVE  UNCHANGED Contract!contractVars
    BY <2>1 DEF Contract!contractVars, Charge
  <2>2. CASE RowsKept
    BY <2>1, <2>2 DEF RowsKept, rows
  <2>3. ASSUME NEW j \in Jobs, RowStep(j)
        PROVE  Contract!Next \/ UNCHANGED Contract!contractVars
    <3> USE <2>0 DEF RowTypes, CommittedStatuses
    <3>0. job[j].status \in OpenStatuses => Verdict(job[j]) = "open"
      BY DEF OpenStatuses, Verdict
    <3>1. CASE RowsClaimed(j)
      <4>1. \A i \in Jobs : Verdict(job'[i]) = Verdict(job[i])
        BY <3>1, <3>0 DEF RowsClaimed, Verdict
      <4>2. \A i \in Jobs : Charge(i)' = Charge(i)
        BY <3>1 DEF RowsClaimed, Charge
      <4>3. Contract!BeginAttempt(j)
        BY <3>0, <3>1, <4>1, <4>2 DEF RowsClaimed, Contract!BeginAttempt
      <4>4. QED
        BY <4>3 DEF Contract!Next
    <3>2. CASE RowsRefused(j)
      <4>1. \A i \in Jobs : Verdict(job'[i]) = IF i = j THEN "failed" ELSE Verdict(job[i])
        BY <3>2 DEF RowsRefused, Verdict
      <4>2. \A i \in Jobs : Charge(i)' = IF i = j THEN "RELEASED" ELSE Charge(i)
        BY <3>2, SettledCharge DEF RowsRefused
      <4>3. Contract!Refuse(j)
        BY <3>0, <3>2, <4>1, <4>2 DEF RowsRefused, Contract!Refuse
      <4>4. QED
        BY <4>3 DEF Contract!Next
    <3>3. CASE RowsCompleted(j)
      <4>1. \A i \in Jobs : Verdict(job'[i]) = IF i = j THEN "succeeded"
                                                ELSE Verdict(job[i])
        BY <3>3 DEF RowsCompleted, Verdict
      <4>2. \A i \in Jobs : Charge(i)' = IF i = j THEN "COMMITTED" ELSE Charge(i)
        BY <3>3, SettledCharge DEF RowsCompleted
      <4>3. claims[j] > 0 /\ job[j].token = claims[j] /\ Verdict(job[j]) = "open"
        BY <3>0, <3>3 DEF RowsCompleted, IInv, ClaimsOnRow, OpenStatuses
      <4>4. Contract!Succeed(j)
        BY <3>3, <4>1, <4>2, <4>3 DEF RowsCompleted, Contract!Succeed
      <4>5. QED
        BY <4>4 DEF Contract!Next
    <3>4. CASE RowsFailed(j)
      <4>1. \A i \in Jobs : Verdict(job'[i]) = IF i = j THEN "failed" ELSE Verdict(job[i])
        BY <3>4 DEF RowsFailed, Verdict
      <4>2. \A i \in Jobs : Charge(i)' = IF i = j THEN "RELEASED" ELSE Charge(i)
        BY <3>4, SettledCharge DEF RowsFailed
      <4>3. Contract!Fail(j)
        BY <3>0, <3>4, <4>1, <4>2 DEF RowsFailed, Contract!Fail
      <4>4. QED
        BY <4>3 DEF Contract!Next
    <3>5. CASE RowsMarked(j) \/ RowsLapsed(j) \/ RowsPurged(j)
      <4>1. \A i \in Jobs : Verdict(job'[i]) = Verdict(job[i])
        BY <3>5 DEF RowsMarked, RowsLapsed, RowsPurged, Verdict, JobRows
      <4>2. QED
        BY <3>5, <4>1, <2>1 DEF RowsMarked, RowsLapsed, RowsPurged
    <3>6. QED
      BY <2>3, <3>1, <3>2, <3>3, <3>4, <3>5 DEF RowStep
  <2>4. QED
    BY <2>2, <2>3, StepRows DEF IInv
<1>3. QED
  BY <1>1, <1>2, Invariance, PTL DEF Spec, KeepsContract, Contract!Spec
-----------------------------------------------------------------------------
(***************************************************************************)
(* Orphans.  A worker on its way to COS is current while it is the one     *)
(* that the live lease of the row names, and stale otherwise.  A step      *)
(* moves at most one worker, and with it the row of the job it holds: when *)
(* it claims the job, or when it settles or marks it, under its own token  *)
(* or under no live lease.                                                 *)
(***************************************************************************)
Going == {"read", "generate", "criticise", "criticise again", "check", "put", "complete"}

Goes(w) ==
  /\ pc[w] \in Going /\ pc'[w] \in Going
  /\ held'[w] = held[w] /\ tok'[w] = tok[w]
  /\ UNCHANGED <<job, claims>>

Quits(w) ==
  LET j == held[w].job IN
  /\ pc'[w] \notin Going
  /\ \/ tok'[w] = NoToken
     \/ tok'[w] = tok[w] /\ held'[w] = held[w] /\ pc'[w] # "idle"
  /\ UNCHANGED claims
  /\ \/ UNCHANGED job
     \/ /\ job[j].token = tok[w] \/ ~LeaseHolds(job[j])
        /\ \E row : job' = [job EXCEPT ![j] = row]

Claims(w) ==
  LET j == held[w].job IN
  /\ pc[w] = "prepare" /\ held'[w] = held[w] /\ HasContext(j) /\ ~LeaseHolds(job[j])
  /\ claims' = [claims EXCEPT ![j] = @ + 1]
  /\ pc'[w] \notin Going \/ pc'[w] = "read"
  /\ pc'[w] # "idle" /\ tok'[w] \in {NoToken, claims[j] + 1}
  /\ \E row : /\ job' = [job EXCEPT ![j] = row]
              /\ pc'[w] = "read" => LeaseHolds(row) /\ row.token = tok'[w]

Moves(w) == /\ OthersStay(w) /\ UNCHANGED <<context, lapses>>
            /\ Goes(w) \/ Quits(w) \/ Claims(w)

LEMMA GotoMoves ==
  ASSUME TypeOK, NEW w \in Workers, NEW step \in Steps \ {"idle"}, Goto(w, step),
         pc[w] # "idle", UNCHANGED <<claims, context, lapses>>,
         \/ UNCHANGED job /\ (step \in Going => pc[w] \in Going)
         \/ /\ step \notin Going
            /\ job[held[w].job].token = tok[w] \/ ~LeaseHolds(job[held[w].job])
            /\ \E row : job' = [job EXCEPT ![held[w].job] = row]
  PROVE  Moves(w)
<1>1. OthersStay(w) /\ pc'[w] = step /\ held'[w] = held[w] /\ tok'[w] = tok[w]
  BY DEF Goto, OthersStay, TypeOK
<1>2. QED
  BY <1>1 DEF Moves, Goes, Quits

LEMMA FailMoves ==
  ASSUME NEW w \in Workers, NEW verdict, FinalizeFailure(w, verdict)
  PROVE  /\ UNCHANGED <<claims, context>>
         /\ \/ UNCHANGED job
            \/ /\ job[held[w].job].token = tok[w] \/ ~LeaseHolds(job[held[w].job])
               /\ \E row : job' = [job EXCEPT ![held[w].job] = row]
BY DEF FinalizeFailure, FailWrites, MayFinalize, Finalizable, rows

LEMMA MarkMoves ==
  ASSUME NEW w \in Workers, MarkWrites(w)
  PROVE  /\ UNCHANGED <<claims, context>>
         /\ \/ UNCHANGED job
            \/ /\ job[held[w].job].token = tok[w] \/ ~LeaseHolds(job[held[w].job])
               /\ \E row : job' = [job EXCEPT ![held[w].job] = row]
BY DEF MarkWrites, MayMark, Retryable

LEMMA OutcomeMoves ==
  ASSUME NEW w \in Workers, Outcome(w)
  PROVE  /\ UNCHANGED <<claims, context>>
         /\ \/ UNCHANGED job
            \/ /\ job[held[w].job].token = tok[w] \/ ~LeaseHolds(job[held[w].job])
               /\ \E row : job' = [job EXCEPT ![held[w].job] = row]
BY DEF Outcome, CompleteWrites, IsExecuting, Executing, rows

LEMMA ClaimMoves ==
  ASSUME TypeOK, NEW w \in Workers, MayClaim(held[w].job), ClaimWrites(held[w].job),
         pc[w] = "prepare"
  PROVE  LET j == held[w].job IN
         /\ HasContext(j) /\ ~LeaseHolds(job[j]) /\ UNCHANGED context
         /\ claims' = [claims EXCEPT ![j] = @ + 1]
         /\ \E row : /\ job' = [job EXCEPT ![j] = row]
                     /\ context[j] = "usable" => LeaseHolds(row) /\ row.token = claims[j] + 1
<1> DEFINE j == held[w].job
<1>1. /\ j \in Jobs /\ job[j] \in JobRows /\ claims[j] + 1 \in Nat
      /\ job[j].status \in OpenStatuses
  BY DEF TypeOK, Messages, MayClaim, Claimable, TerminalJobStatuses, CommittedStatuses,
         OpenStatuses
<1>2. LeaseHolds(Claimed(job[j], claims[j] + 1)) /\ Claimed(job[j], claims[j] + 1).token = claims[j] + 1
  <2> DEFINE t == claims[j] + 1
  <2>1. t \in Nat
    BY <1>1
  <2> HIDE DEF t
  <2>2. LeaseHolds(Claimed(job[j], t)) /\ Claimed(job[j], t).token = t
    BY <1>1, <2>1, ClaimedRow DEF LeaseHolds, RunningJobStatuses
  <2>3. QED
    BY <2>2 DEF t
<1>3. QED
  BY <1>2 DEF ClaimWrites, MayClaim, Claimable

LEMMA WorkerStepMoves ==
  ASSUME TypeOK, NEW w \in Workers,
         WorkerStep(w) \/ WorkerLost(w) \/ (\E m \in Messages : Deliver(w, m))
  PROVE  Moves(w)
<1>1. CASE WorkerLost(w) \/ Ack(w) \/ (\E m \in Messages : Deliver(w, m))
  <2>1. /\ \E step \in {"idle", "prepare"} : pc' = [pc EXCEPT ![w] = step]
        /\ \E m : held' = [held EXCEPT ![w] = m]
        /\ tok' = [tok EXCEPT ![w] = NoToken] /\ UNCHANGED <<job, context, claims, lapses>>
    BY <1>1 DEF WorkerLost, LoseWorker, Ack, Acknowledge, Deliver, Take, rows
  <2>2. OthersStay(w) /\ pc'[w] \in {"idle", "prepare"} /\ tok'[w] = NoToken
    BY <2>1 DEF TypeOK, OthersStay
  <2>3. QED
    BY <2>1, <2>2 DEF Moves, Quits, Going
<1>2. CASE WorkerStep(w) /\ ~Ack(w)
  <2>1. CASE PrepareSkip(w) \/ MarkError(w) \/ Retry(w) \/ RetryUnpublished(w) \/ FinalizeError(w)
             \/ PutFails(w) \/ PutAckLost(w) \/ OutcomeError(w) \/ Render(w) \/ Put(w)
             \/ CheckCurrent(w)
             \/ (\E next \in {"generate", "missing", "unavailable", "finalize"} : ReadSource(w, next))
             \/ (\E next \in {"mark", "finalize"} : Giveup(w, next))
    <3>1. CASE PrepareSkip(w) \/ Retry(w) \/ RetryUnpublished(w) \/ FinalizeError(w)
               \/ PutFails(w) \/ PutAckLost(w) \/ OutcomeError(w)
      <4>1. /\ UNCHANGED <<job, claims, context, lapses>> /\ pc[w] # "idle"
            /\ \E step \in {"mark", "ack"} : Goto(w, step)
        BY <3>1 DEF PrepareSkip, Retry, PublishRetry, RetryUnpublished, LoseRetry, FinalizeError,
                    PutFails, PutAckLost, OutcomeError, Elsewhere, rows
      <4>2. QED
        BY <4>1, GotoMoves DEF Steps, Going
    <3>2. CASE Render(w) \/ Put(w) \/ CheckCurrent(w)
      <4>1. /\ UNCHANGED <<job, claims, context, lapses>> /\ pc[w] \in {"generate", "put", "check"}
            /\ \E step \in {"check", "complete", "put", "ack"} : Goto(w, step)
        BY <3>2 DEF Render, Put, CheckCurrent, Elsewhere, rows
      <4>2. QED
        BY <4>1, GotoMoves DEF Steps, Going
    <3>3. CASE \E next \in {"generate", "missing", "unavailable", "finalize"} : ReadSource(w, next)
      <4>1. /\ UNCHANGED <<job, claims, context, lapses>> /\ pc[w] = "read"
            /\ \E step \in {"generate", "missing", "unavailable", "finalize"} : Goto(w, step)
        BY <3>3 DEF ReadSource, Elsewhere, rows
      <4>2. QED
        BY <4>1, GotoMoves DEF Steps, Going
    <3>4. CASE \E next \in {"mark", "finalize"} : Giveup(w, next)
      <4>1. /\ UNCHANGED <<job, claims, context, lapses>> /\ pc[w] # "idle"
            /\ \E step \in {"mark", "finalize"} : Goto(w, step)
        BY <3>4 DEF Giveup, Elsewhere, rows
      <4>2. QED
        BY <4>1, GotoMoves DEF Steps, Going
    <3>5. CASE MarkError(w)
      <4>1. /\ Goto(w, "ack") /\ pc[w] # "idle" /\ UNCHANGED lapses
            /\ MarkWrites(w) \/ UNCHANGED <<job, claims, context>>
        BY <3>5 DEF MarkError, Elsewhere, rows
      <4>2. QED
        BY <4>1, MarkMoves, GotoMoves DEF Steps, Going
    <3>6. QED
      BY <2>1, <3>1, <3>2, <3>3, <3>4, <3>5
  <2>2. CASE Generate(w) \/ Criticise(w)
    <3>1. /\ UNCHANGED <<job, claims, context, lapses>>
          /\ pc[w] \in {"generate", "criticise", "criticise again"}
          /\ \E step \in {"criticise", "criticise again", "check", "generate", "reject"} : Goto(w, step)
      BY <2>2 DEF Generate, Criticise, NextTurn, Elsewhere, rows
    <3>2. QED
      BY <3>1, GotoMoves DEF Steps, Going
  <2>3. CASE SourceMissing(w) \/ Finalize(w) \/ Exhaust(w) \/ Reject(w)
    <3>1. /\ Goto(w, "ack") /\ pc[w] # "idle" /\ UNCHANGED lapses
          /\ \E verdict \in {"FAILED", "REJECTED_BY_CRITIC"} : FinalizeFailure(w, verdict)
      BY <2>3 DEF SourceMissing, Finalize, Exhaust, Reject, Elsewhere
    <3>2. QED
      BY <3>1, FailMoves, GotoMoves DEF Steps, Going
  <2>4. CASE SourceUnavailable(w) \/ MarkRetryable(w)
    <3>1. /\ \E step \in {"raised", "ack"} : Goto(w, step)
          /\ pc[w] # "idle" /\ UNCHANGED lapses /\ MarkWrites(w)
      BY <2>4 DEF SourceUnavailable, MarkRetryable, Elsewhere
    <3>2. QED
      BY <3>1, MarkMoves, GotoMoves DEF Steps, Going
  <2>5. CASE Complete(w) \/ OutcomeAckLost(w)
    <3>1. /\ \E step \in {"mark", "ack"} : Goto(w, step)
          /\ pc[w] # "idle" /\ UNCHANGED lapses
          /\ Outcome(w) \/ FinalizeFailure(w, "REJECTED_BY_CRITIC")
      BY <2>5 DEF Complete, OutcomeAckLost, Elsewhere
    <3>2. QED
      BY <3>1, OutcomeMoves, FailMoves, GotoMoves DEF Steps, Going
  <2>6. ASSUME RaiseWithoutToken(w)
        PROVE  OthersStay(w) /\ pc'[w] = "raised" /\ tok'[w] = NoToken /\ held'[w] = held[w]
    BY <2>6 DEF RaiseWithoutToken, OthersStay, TypeOK
  <2>7. CASE PrepareError(w)
    <3>1. RaiseWithoutToken(w) /\ UNCHANGED <<job, claims, context, lapses>>
      BY <2>7 DEF PrepareError, Elsewhere, rows
    <3>2. QED
      BY <2>6, <3>1 DEF Moves, Quits, Going
  <2>8. CASE PrepareAckLost(w)
    <3>1. RaiseWithoutToken(w) /\ UNCHANGED lapses
      BY <2>8 DEF PrepareAckLost, Elsewhere
    <3>2. CASE FinalizeFailure(w, "FAILED") \/ MarkWrites(w)
      BY <2>6, <3>1, <3>2, FailMoves, MarkMoves DEF Moves, Quits, Going
    <3>3. CASE pc[w] = "prepare" /\ MayClaim(held[w].job) /\ ClaimWrites(held[w].job)
      BY <2>6, <3>1, <3>3, ClaimMoves DEF Moves, Claims, Going
    <3>4. QED
      BY <2>8, <3>2, <3>3 DEF PrepareAckLost
  <2>9. CASE PrepareClaim(w)
    <3> DEFINE j == held[w].job
    <3>1. /\ pc[w] = "prepare" /\ MayClaim(j) /\ ClaimWrites(j) /\ UNCHANGED <<held, lapses>>
          /\ pc' = [pc EXCEPT ![w] = IF context[j] = "usable" THEN "read" ELSE "ack"]
          /\ tok' = [tok EXCEPT ![w] = claims[j] + 1]
      BY <2>9 DEF PrepareClaim, Elsewhere
    <3>2. OthersStay(w) /\ held'[w] = held[w] /\ tok'[w] = claims[j] + 1
          /\ pc'[w] = IF context[j] = "usable" THEN "read" ELSE "ack"
      BY <3>1 DEF OthersStay, TypeOK
    <3>3. /\ HasContext(j) /\ ~LeaseHolds(job[j]) /\ UNCHANGED context
          /\ claims' = [claims EXCEPT ![j] = @ + 1]
          /\ \E row : /\ job' = [job EXCEPT ![j] = row]
                      /\ context[j] = "usable" => LeaseHolds(row) /\ row.token = claims[j] + 1
      BY <3>1, ClaimMoves
    <3>4. pc'[w] \notin Going \/ pc'[w] = "read"
      BY <3>2 DEF Going
    <3>5. \E row : /\ job' = [job EXCEPT ![j] = row]
                   /\ pc'[w] = "read" => LeaseHolds(row) /\ row.token = tok'[w]
      <4>1. pc'[w] = "read" => context[j] = "usable"
        BY <3>2
      <4>2. QED
        BY <3>2, <3>3, <4>1
    <3>6. pc'[w] # "idle" /\ tok'[w] \in {NoToken, claims[j] + 1}
      BY <3>2
    <3> HIDE DEF j
    <3>7. pc[w] = "prepare" /\ held'[w] = held[w]
      BY <3>1, <3>2
    <3>8. Claims(w)
      BY <3>3, <3>4, <3>5, <3>6, <3>7 DEF Claims, j
    <3>9. QED
      BY <3>1, <3>2, <3>3, <3>8 DEF Moves
  <2>10. QED
    BY <1>2, <2>1, <2>2, <2>3, <2>4, <2>5, <2>7, <2>8, <2>9 DEF WorkerStep
<1>3. QED
  BY <1>1, <1>2

LEMMA StepMoves ==
  ASSUME TypeOK, [Next]_vars
  PROVE  \/ UNCHANGED <<job, context, claims, lapses, procs>>
         \/ \E j \in Jobs : LapseLease(j) \/ Purge(j)
         \/ \E w \in Workers : Moves(w)
<1>1. CASE UNCHANGED vars
  BY <1>1 DEF vars, rows, delivery
<1>2. ASSUME NEW j \in Jobs, Publish(j) \/ DeleteObject(j)
      PROVE  UNCHANGED <<job, context, claims, lapses, procs>>
  BY <1>2 DEF Publish, SendEvent, DeleteObject, rows, delivery
<1>3. QED
  BY <1>1, <1>2, WorkerStepMoves DEF Next

-----------------------------------------------------------------------------
(***************************************************************************)
(* Workers on one job have drawn different tokens, so only one is current. *)
(***************************************************************************)
TokensApart ==
  \A w \in Workers :
    /\ tok[w] # NoToken => pc[w] # "idle" /\ tok[w] <= claims[held[w].job]
    /\ \A v \in Workers \ {w} :
         held[w].job = held[v].job /\ tok[w] = tok[v] => tok[w] = NoToken

LEMMA TokensStayApart ==
  ASSUME TypeOK, TokensApart, NEW w \in Workers, Moves(w)
  PROVE  TokensApart'
<1>1. \A v \in Workers \ {w} : pc'[v] = pc[v] /\ held'[v] = held[v] /\ tok'[v] = tok[v]
  BY DEF Moves, OthersStay
<1>2. \A v \in Workers : pc[v] # "idle" => held[v].job \in Jobs
  BY DEF TypeOK, Messages
<1>3. CASE Goes(w) \/ Quits(w)
  <2>1. /\ claims' = claims
        /\ \/ tok'[w] = NoToken
           \/ tok'[w] = tok[w] /\ held'[w] = held[w] /\ pc'[w] # "idle"
    BY <1>3 DEF Goes, Quits, Going
  <2>2. QED
    BY <1>1, <2>1 DEF TokensApart
<1>4. CASE Claims(w)
  <2>0. /\ held'[w] = held[w] /\ pc'[w] # "idle" /\ held[w].job \in Jobs
        /\ claims' = [claims EXCEPT ![held[w].job] = @ + 1]
        /\ tok'[w] \in {NoToken, claims[held[w].job] + 1}
    BY <1>2, <1>4 DEF Claims
  <2>1. claims[held[w].job] \in Nat /\ claims'[held[w].job] = claims[held[w].job] + 1
    BY <2>0 DEF TypeOK
  <2>2. \A i \in Jobs : claims[i] \in Nat /\ claims[i] <= claims'[i]
    BY <2>0 DEF TypeOK
  <2>3. \A v \in Workers : tok[v] \in Nat
    BY DEF TypeOK
  <2>4. ASSUME NEW v \in Workers \ {w}
        PROVE  /\ tok'[v] # NoToken => pc'[v] # "idle" /\ tok'[v] <= claims'[held'[v].job]
               /\ held'[w].job = held'[v].job /\ tok'[w] = tok'[v] => tok'[w] = NoToken
    <3>1. tok[v] # NoToken => /\ pc[v] # "idle" /\ held[v].job \in Jobs
                              /\ tok[v] <= claims[held[v].job]
      BY <1>2 DEF TokensApart
    <3>2. QED
      BY <1>1, <2>0, <2>1, <2>2, <2>3, <3>1 DEF NoToken
  <2>5. tok'[w] # NoToken => pc'[w] # "idle" /\ tok'[w] <= claims'[held'[w].job]
    BY <2>0, <2>1
  <2>6. \A u, v \in Workers \ {w} :
          u # v /\ held'[u].job = held'[v].job /\ tok'[u] = tok'[v] => tok'[u] = NoToken
    BY <1>1 DEF TokensApart
  <2>7. QED
    BY <2>4, <2>5, <2>6 DEF TokensApart
<1>5. QED
  BY <1>3, <1>4 DEF Moves

Current(w, j) == HasContext(j) /\ LeaseHolds(job[j]) /\ job[j].token = tok[w]

OnTheWay(w, j) == pc[w] \in Going /\ held[w].job = j

Stale(j) == {w \in Workers : OnTheWay(w, j) /\ ~Current(w, j)}

LEMMA OneCurrent ==
  ASSUME IInv, TokensApart, NEW j \in Jobs, NEW w \in Workers, Current(w, j), OnTheWay(w, j),
         NEW v \in Workers, held[v].job = j, job[j].token = tok[v]
  PROVE  v = w
<1>1. job[j].token # NoToken
  BY DEF Current, LeaseHolds, RunningJobStatuses, IInv, TypeOK, CommittedStatuses, ClaimsOnRow,
         NoToken
<1>2. QED
  BY <1>1 DEF Current, OnTheWay, TokensApart

LEMMA StaleByMove ==
  ASSUME IInv, TokensApart, NEW w \in Workers, Moves(w), NEW j \in Jobs
  PROVE  Stale(j)' \subseteq Stale(j)
<1>0. TypeOK /\ OthersStay(w) /\ context' = context
  BY DEF IInv, Moves
<1> SUFFICES ASSUME NEW v \in Workers, OnTheWay(v, j)', ~Current(v, j)'
             PROVE  OnTheWay(v, j) /\ ~Current(v, j)
  BY DEF Stale
<1>1. CASE Goes(w)
  BY <1>0, <1>1 DEF Goes, OthersStay, OnTheWay, Current, HasContext
<1>2. CASE Quits(w)
  <2>1. v # w
    BY <1>2 DEF Quits, OnTheWay
  <2>2. OnTheWay(v, j) /\ tok'[v] = tok[v] /\ held[v].job = j
    BY <1>0, <2>1 DEF OthersStay, OnTheWay
  <2>3. CASE job'[j] = job[j]
    BY <1>0, <2>2, <2>3 DEF Current, HasContext
  <2>4. CASE job'[j] # job[j]
    <3>1. j = held[w].job /\ (job[j].token = tok[w] \/ ~LeaseHolds(job[j]))
      BY <1>0, <1>2, <2>4 DEF Quits, TypeOK
    <3>2. ~Current(v, j)
      BY <2>1, <2>2, <3>1, OneCurrent DEF Current
    <3>3. QED
      BY <2>2, <3>2
  <2>5. QED
    BY <2>3, <2>4
<1>3. CASE Claims(w)
  <2>0. j # held[w].job => job'[j] = job[j]
    BY <1>0, <1>3 DEF Claims, TypeOK
  <2>1. v # w
    <3> SUFFICES ASSUME v = w
                 PROVE  FALSE
      OBVIOUS
    <3>1. pc'[w] = "read" /\ held[w].job = j /\ HasContext(j)
      BY <1>3 DEF Claims, OnTheWay
    <3>2. LeaseHolds(job'[j]) /\ job'[j].token = tok'[w]
      BY <1>0, <1>3, <3>1 DEF Claims, TypeOK
    <3>3. QED
      BY <1>0, <3>1, <3>2 DEF Current, HasContext, LeaseHolds
  <2>2. OnTheWay(v, j) /\ tok'[v] = tok[v]
    BY <1>0, <2>1 DEF OthersStay, OnTheWay
  <2>3. CASE j = held[w].job
    BY <1>3, <2>2, <2>3 DEF Claims, Current
  <2>4. CASE j # held[w].job
    BY <1>0, <2>0, <2>2, <2>4 DEF Current, HasContext
  <2>5. QED
    BY <2>3, <2>4
<1>4. QED
  BY <1>1, <1>2, <1>3 DEF Moves

(***************************************************************************)
(* A lease that lapses and a deletion make one worker stale at most, the   *)
(* one that was current.                                                   *)
(***************************************************************************)
LEMMA StaleByLapse ==
  ASSUME IInv, TokensApart, NEW i \in Jobs, LapseLease(i) \/ Purge(i), NEW j \in Jobs
  PROVE  \E c : Stale(j)' \subseteq Stale(j) \cup {c}
<1>1. UNCHANGED procs
  BY DEF LapseLease, Purge, delivery
<1>2. ASSUME NEW w \in Workers, NEW v \in Workers, OnTheWay(w, j), Current(w, j),
             OnTheWay(v, j), Current(v, j)
      PROVE  v = w
  BY <1>2, OneCurrent DEF OnTheWay, Current
<1>3. \A w \in Workers : OnTheWay(w, j)' = OnTheWay(w, j)
  BY <1>1 DEF OnTheWay, procs
<1>4. CASE \E w \in Workers : OnTheWay(w, j) /\ Current(w, j)
  <2>1. PICK w \in Workers : OnTheWay(w, j) /\ Current(w, j)
    BY <1>4
  <2>2. Stale(j)' \subseteq Stale(j) \cup {w}
    BY <1>2, <1>3, <2>1 DEF Stale
  <2>3. QED
    BY <2>2
<1>5. CASE \A w \in Workers : OnTheWay(w, j) => ~Current(w, j)
  BY <1>3, <1>5 DEF Stale
<1>6. QED
  BY <1>4, <1>5
-----------------------------------------------------------------------------
(***************************************************************************)
(* The objects of a job that neither its row nor a completing worker       *)
(* names.                                                                  *)
(***************************************************************************)
Loose(j) == {o \in Orphans(j) : \A w \in Completing(j) : tok[w] # o}

AssetWhenCompleted == \A j \in Jobs : asset[j] # 0 => job[j].status = "COMPLETED"

LEMMA LooseMore ==
  ASSUME NEW j \in Jobs, NEW w \in Workers, OthersStay(w),
         asset'[j] = asset[j] \/ asset[j] \notin objects[j],
         objects'[j] \subseteq objects[j] \cup {tok[w]}
  PROVE  Loose(j)' \subseteq Loose(j) \cup {tok[w]}
<1> SUFFICES ASSUME NEW o, o \in Loose(j)', o # tok[w]
             PROVE  o \in Loose(j)
  OBVIOUS
<1>1. o \in objects[j] /\ o # asset[j]
  BY DEF Loose, Orphans
<1>2. \A v \in Completing(j) : v # w => v \in Completing(j)' /\ tok'[v] = tok[v]
  BY DEF Completing, OthersStay
<1>3. QED
  BY <1>1, <1>2 DEF Loose, Orphans

LEMMA LooseKept ==
  ASSUME NEW j \in Jobs, NEW w \in Workers, OthersStay(w), w \notin Completing(j),
         asset'[j] = asset[j], objects'[j] \subseteq objects[j]
  PROVE  Loose(j)' \subseteq Loose(j)
<1>1. \A v \in Completing(j) : v \in Completing(j)' /\ tok'[v] = tok[v]
  BY DEF Completing, OthersStay
<1>2. QED
  BY <1>1 DEF Loose, Orphans

(***************************************************************************)
(* How a worker's step touches COS and the asset rows.                     *)
(***************************************************************************)
Names(w) ==
  \/ asset' = asset
  \/ asset[held[w].job] = 0 /\ asset' = [asset EXCEPT ![held[w].job] = tok[w]]

LEMMA OutcomeNames ==
  ASSUME AssetWhenCompleted, NEW w \in Workers, held[w].job \in Jobs, Outcome(w)
  PROVE  Names(w)
BY DEF AssetWhenCompleted, Outcome, CompleteWrites, IsExecuting, Executing, Names, rows

LEMMA WorkerStores ==
  ASSUME TypeOK, AssetWhenCompleted, NEW w \in Workers,
         WorkerStep(w) \/ WorkerLost(w) \/ (\E m \in Messages : Deliver(w, m))
  PROVE  \/ pc[w] # "complete" /\ UNCHANGED <<asset, objects>>
         \/ Put(w)
         \/ Complete(w)
         \/ /\ faults' = faults + 1 /\ held[w].job \in Jobs
            /\ Names(w) /\ (objects' = objects \/ ObjectPut(w))
<1>0. pc[w] # "idle" => held[w].job \in Jobs
  BY DEF TypeOK, Messages
<1>1. CASE WorkerLost(w) \/ Ack(w) \/ (\E m \in Messages : Deliver(w, m))
  BY <1>0, <1>1 DEF WorkerLost, LoseWorker, Fault, Ack, Acknowledge, Deliver, Take, rows, store,
                    Names
<1>2. CASE OutcomeError(w) \/ OutcomeAckLost(w) \/ PutAckLost(w)
  <2>1. /\ faults' = faults + 1 /\ held[w].job \in Jobs
        /\ objects' = objects \/ ObjectPut(w)
    BY <1>0, <1>2 DEF OutcomeError, OutcomeAckLost, PutAckLost, Fault, Elsewhere, store
  <2>2. \/ UNCHANGED rows
        \/ Outcome(w) \/ FinalizeFailure(w, "REJECTED_BY_CRITIC")
    BY <1>2 DEF OutcomeError, OutcomeAckLost, PutAckLost
  <2>3. Names(w)
    BY <2>1, <2>2, OutcomeNames DEF FinalizeFailure, FailWrites, rows, Names
  <2>4. QED
    BY <2>1, <2>3
<1>3. CASE PrepareSkip(w) \/ PrepareError(w) \/ CheckCurrent(w) \/ PutFails(w) \/ Render(w)
           \/ Retry(w) \/ RetryUnpublished(w) \/ FinalizeError(w)
           \/ (\E next \in {"generate", "missing", "unavailable", "finalize"} : ReadSource(w, next))
           \/ (\E next \in {"mark", "finalize"} : Giveup(w, next))
  BY <1>3 DEF PrepareSkip, PrepareError, CheckCurrent, PutFails, Render, Retry, PublishRetry,
              RetryUnpublished, LoseRetry, FinalizeError, ReadSource, Giveup, Elsewhere, rows, store
<1>4. CASE Generate(w) \/ Criticise(w)
  BY <1>4 DEF Generate, Criticise, Elsewhere, rows, store
<1>5. CASE SourceMissing(w) \/ Finalize(w) \/ Exhaust(w) \/ Reject(w)
  BY <1>5 DEF SourceMissing, Finalize, Exhaust, Reject, FinalizeFailure, FailWrites, Elsewhere,
              rows, store
<1>6. CASE SourceUnavailable(w) \/ MarkRetryable(w) \/ MarkError(w)
  BY <1>6 DEF SourceUnavailable, MarkRetryable, MarkError, MarkWrites, Elsewhere, rows, store
<1>7. CASE PrepareClaim(w)
  BY <1>7 DEF PrepareClaim, ClaimWrites, Elsewhere, store
<1>8. CASE PrepareAckLost(w)
  BY <1>8 DEF PrepareAckLost, ClaimWrites, FinalizeFailure, FailWrites, MarkWrites, Elsewhere,
              rows, store
<1>9. QED
  BY <1>1, <1>2, <1>3, <1>4, <1>5, <1>6, <1>7, <1>8 DEF WorkerStep
-----------------------------------------------------------------------------
(***************************************************************************)
(* A worker adds a loose object only where it meets a fault, or where it   *)
(* was stale and goes no further.                                          *)
(***************************************************************************)
LEMMA LooseByWorker ==
  ASSUME IInv, TokensApart, AssetWhenCompleted, NEW w \in Workers,
         WorkerStep(w) \/ WorkerLost(w) \/ (\E m \in Messages : Deliver(w, m)),
         NEW j \in Jobs
  PROVE  \/ Loose(j)' \subseteq Loose(j)
         \/ /\ Loose(j)' \subseteq Loose(j) \cup {tok[w]}
            /\ faults' = faults + 1 \/ (w \in Stale(j) /\ w \notin Stale(j)')
<1>0. TypeOK /\ OthersStay(w)
  BY WorkerStepMoves DEF IInv, Moves
<1>1. CASE pc[w] # "complete" /\ UNCHANGED <<asset, objects>>
  BY <1>0, <1>1, LooseKept DEF Completing
<1>2. CASE Put(w)
  <2>1. /\ pc[w] = "put" /\ pc'[w] = "complete" /\ held'[w] = held[w] /\ tok'[w] = tok[w]
        /\ asset' = asset /\ objects' = [objects EXCEPT ![held[w].job] = @ \cup {tok[w]}]
    BY <1>0, <1>2 DEF Put, ObjectPut, Goto, rows, TypeOK
  <2>2. CASE held[w].job = j
    <3>1. Loose(j)' \subseteq Loose(j) \cup {tok[w]}
      BY <1>0, <2>1, <2>2, LooseMore DEF TypeOK
    <3>2. w \in Completing(j)' /\ tok'[w] = tok[w]
      BY <2>1, <2>2 DEF Completing
    <3>3. QED
      BY <3>1, <3>2 DEF Loose
  <2>3. CASE held[w].job # j
    BY <1>0, <2>1, <2>3, LooseKept DEF TypeOK, Completing
  <2>4. QED
    BY <2>2, <2>3
<1>3. CASE Complete(w)
  <2>0. /\ pc[w] = "complete" /\ pc'[w] = "ack" /\ objects' = objects /\ Outcome(w)
        /\ held[w].job \in Jobs
    BY <1>0, <1>3 DEF Complete, Goto, Elsewhere, store, TypeOK, Messages
  <2>1. Names(w)
    BY <2>0, OutcomeNames
  <2>2. CASE held[w].job = j
    <3>1. Loose(j)' \subseteq Loose(j) \cup {tok[w]}
      <4>1. asset'[j] = asset[j] \/ asset[j] \notin objects[j]
        BY <1>0, <2>1, <2>2 DEF Names, TypeOK
      <4>2. QED
        BY <1>0, <2>0, <4>1, LooseMore
    <3>2. CASE IsExecuting(j, tok[w])
      <4>1. asset'[j] = tok[w]
        BY <1>0, <2>0, <2>2, <3>2 DEF Outcome, CompleteWrites, TypeOK
      <4>2. QED
        BY <3>1, <4>1 DEF Loose, Orphans
    <3>3. CASE ~IsExecuting(j, tok[w])
      <4>1. ~Current(w, j)
        BY <1>0, <3>3 DEF Current, IsExecuting, Executing, LeaseHolds, RunningJobStatuses,
                          TypeOK, CommittedStatuses
      <4>2. w \in Stale(j) /\ w \notin Stale(j)'
        BY <2>0, <2>2, <4>1 DEF Stale, OnTheWay, Going
      <4>3. QED
        BY <3>1, <4>2
    <3>4. QED
      BY <3>2, <3>3
  <2>3. CASE held[w].job # j
    <3>1. asset'[j] = asset[j]
      BY <1>0, <2>1, <2>3 DEF Names, TypeOK
    <3>2. QED
      BY <1>0, <2>0, <2>3, <3>1, LooseKept DEF Completing
  <2>4. QED
    BY <2>2, <2>3
<1>4. CASE /\ faults' = faults + 1 /\ held[w].job \in Jobs
           /\ Names(w) /\ (objects' = objects \/ ObjectPut(w))
  <2>1. asset'[j] = asset[j] \/ asset[j] \notin objects[j]
    BY <1>0, <1>4 DEF Names, TypeOK
  <2>2. objects'[j] \subseteq objects[j] \cup {tok[w]}
    BY <1>0, <1>4 DEF ObjectPut, TypeOK
  <2>3. QED
    BY <1>0, <1>4, <2>1, <2>2, LooseMore
<1>5. QED
  BY <1>0, <1>1, <1>2, <1>3, <1>4, WorkerStores

(***************************************************************************)
(* Every other step leaves the loose objects as they are.                  *)
(***************************************************************************)
LEMMA LooseByOthers ==
  ASSUME TypeOK, NEW i \in Jobs, NEW j \in Jobs,
         Publish(i) \/ LapseLease(i) \/ DeleteObject(i) \/ Purge(i)
  PROVE  Loose(j)' \subseteq Loose(j)
<1>1. Completing(j)' = Completing(j) /\ tok' = tok
  BY DEF Publish, SendEvent, LapseLease, DeleteObject, Purge, delivery, procs, Completing
<1>2. Orphans(j)' \subseteq Orphans(j)
  <2>1. CASE Publish(i) \/ LapseLease(i)
    BY <2>1 DEF Publish, LapseLease, rows, store, Orphans
  <2>2. CASE DeleteObject(i)
    BY <2>2 DEF DeleteObject, rows, Orphans, TypeOK
  <2>3. CASE Purge(i)
    BY <2>3 DEF Purge, store, Orphans, TypeOK
  <2>4. QED
    BY <2>1, <2>2, <2>3
<1>3. QED
  BY <1>1, <1>2 DEF Loose

LEMMA AssetStays ==
  ASSUME IInv, AssetWhenCompleted, [Next]_vars
  PROVE  AssetWhenCompleted'
<1>1. TypeOK
  BY DEF IInv
<1>2. CASE RowsKept
  BY <1>2 DEF RowsKept, rows, AssetWhenCompleted
<1>3. ASSUME NEW j \in Jobs, RowStep(j)
      PROVE  AssetWhenCompleted'
  <2>1. RowTypes
    BY <1>1 DEF TypeOK, RowTypes
  <2>2. CASE RowsCompleted(j)
    BY <2>1, <2>2 DEF RowsCompleted, RowTypes, AssetWhenCompleted
  <2>3. CASE RowsPurged(j)
    BY <2>1, <2>3 DEF RowsPurged, RowTypes, AssetWhenCompleted
  <2>4. CASE RowsClaimed(j) \/ RowsRefused(j)
    BY <2>1, <2>4 DEF RowsClaimed, RowsRefused, RowTypes, AssetWhenCompleted, OpenStatuses
  <2>5. CASE RowsFailed(j) \/ RowsMarked(j) \/ RowsLapsed(j)
    BY <2>1, <2>5 DEF RowsFailed, RowsMarked, RowsLapsed, RowTypes, AssetWhenCompleted,
                      OpenStatuses
  <2>6. QED
    BY <1>3, <2>2, <2>3, <2>4, <2>5 DEF RowStep
<1>4. QED
  BY <1>1, <1>2, <1>3, StepRows DEF IInv, TypeOK, RowTypes

LEMMA CausesGrow ==
  ASSUME TypeOK, [Next]_vars, NEW j \in Jobs
  PROVE  /\ lapses[j] \in Nat /\ lapses'[j] \in Nat /\ lapses'[j] >= lapses[j]
         /\ faults \in Nat /\ faults' \in Nat /\ faults' >= faults
BY StepEnv DEF TypeOK, EnvTypes, EnvGrows

(***************************************************************************)
(* The causes pay for every loose object and for every stale worker, which *)
(* may yet leave one.                                                      *)
(***************************************************************************)
Paid(j) ==
  /\ IsFiniteSet(Loose(j)) /\ IsFiniteSet(Stale(j))
  /\ Cardinality(Loose(j)) + Cardinality(Stale(j)) <= lapses[j] + faults

OrphanInv == TokensApart /\ AssetWhenCompleted /\ \A j \in Jobs : Paid(j)

LEMMA OneMore ==
  ASSUME NEW S, IsFiniteSet(S), NEW T, NEW c, T \subseteq S \cup {c}
  PROVE  IsFiniteSet(T) /\ Cardinality(T) <= Cardinality(S) + 1
<1>1. IsFiniteSet(S \cup {c}) /\ Cardinality(S) \in Nat
  BY FS_AddElement, FS_CardinalityType
<1>2. Cardinality(S \cup {c}) \in {Cardinality(S), Cardinality(S) + 1}
  BY FS_AddElement
<1>3. T \in SUBSET (S \cup {c})
  OBVIOUS
<1>4. IsFiniteSet(T) /\ Cardinality(T) <= Cardinality(S \cup {c})
  BY <1>1, <1>3, FS_Subset
<1>5. Cardinality(T) \in Nat
  BY <1>4, FS_CardinalityType
<1>6. QED
  BY <1>1, <1>2, <1>4, <1>5

LEMMA OneLess ==
  ASSUME NEW S, IsFiniteSet(S), NEW T, T \subseteq S, NEW c \in S, c \notin T
  PROVE  IsFiniteSet(T) /\ Cardinality(T) + 1 <= Cardinality(S)
<1>1. IsFiniteSet(S \ {c}) /\ Cardinality(S \ {c}) = Cardinality(S) - 1
  BY FS_RemoveElement
<1>2. T \in SUBSET (S \ {c})
  OBVIOUS
<1>3. IsFiniteSet(T) /\ Cardinality(T) <= Cardinality(S \ {c})
  BY <1>1, <1>2, FS_Subset
<1>4. Cardinality(T) \in Nat /\ Cardinality(S) \in Nat
  BY <1>3, FS_CardinalityType
<1>5. QED
  BY <1>1, <1>3, <1>4

LEMMA StillPaid ==
  ASSUME NEW L, NEW S, IsFiniteSet(L), IsFiniteSet(S), NEW K, NEW R, NEW m \in Nat, NEW n \in Nat,
         n >= m, Cardinality(L) + Cardinality(S) <= m,
         \/ K \subseteq L /\ R \subseteq S
         \/ \E c : /\ K \subseteq L \cup {c} /\ R \subseteq S
                   /\ n > m \/ (\E w \in S : w \notin R)
         \/ \E c : K \subseteq L /\ R \subseteq S \cup {c} /\ n > m
  PROVE  IsFiniteSet(K) /\ IsFiniteSet(R) /\ Cardinality(K) + Cardinality(R) <= n
<1>0. Cardinality(L) \in Nat /\ Cardinality(S) \in Nat
  BY FS_CardinalityType
<1>1. ASSUME NEW A, IsFiniteSet(A), NEW B, B \subseteq A
      PROVE  IsFiniteSet(B) /\ Cardinality(B) <= Cardinality(A)
  <2>1. B \in SUBSET A
    BY <1>1
  <2>2. QED
    BY <1>1, <2>1, FS_Subset
<1>2. CASE K \subseteq L /\ R \subseteq S
  <2>1. /\ IsFiniteSet(K) /\ Cardinality(K) <= Cardinality(L)
        /\ IsFiniteSet(R) /\ Cardinality(R) <= Cardinality(S)
    BY <1>1, <1>2
  <2>2. Cardinality(K) \in Nat /\ Cardinality(R) \in Nat
    BY <2>1, FS_CardinalityType
  <2>3. QED
    BY <1>0, <2>1, <2>2
<1>3. ASSUME NEW c, K \subseteq L \cup {c}, R \subseteq S, n > m \/ (\E w \in S : w \notin R)
      PROVE  IsFiniteSet(K) /\ IsFiniteSet(R) /\ Cardinality(K) + Cardinality(R) <= n
  <2>1. IsFiniteSet(K) /\ Cardinality(K) <= Cardinality(L) + 1
    BY <1>3, OneMore
  <2>2. IsFiniteSet(R) /\ Cardinality(R) <= Cardinality(S)
    BY <1>1, <1>3
  <2>3. Cardinality(K) \in Nat /\ Cardinality(R) \in Nat
    BY <2>1, <2>2, FS_CardinalityType
  <2>4. CASE n > m
    BY <1>0, <2>1, <2>2, <2>3, <2>4
  <2>5. CASE \E w \in S : w \notin R
    <3>1. Cardinality(R) + 1 <= Cardinality(S)
      BY <1>3, <2>5, OneLess
    <3>2. QED
      BY <1>0, <2>1, <2>2, <2>3, <3>1
  <2>6. QED
    BY <1>3, <2>4, <2>5
<1>4. ASSUME NEW c, K \subseteq L, R \subseteq S \cup {c}, n > m
      PROVE  IsFiniteSet(K) /\ IsFiniteSet(R) /\ Cardinality(K) + Cardinality(R) <= n
  <2>1. IsFiniteSet(K) /\ Cardinality(K) <= Cardinality(L)
    BY <1>1, <1>4
  <2>2. IsFiniteSet(R) /\ Cardinality(R) <= Cardinality(S) + 1
    BY <1>4, OneMore
  <2>3. Cardinality(K) \in Nat /\ Cardinality(R) \in Nat
    BY <2>1, <2>2, FS_CardinalityType
  <2>4. QED
    BY <1>0, <1>4, <2>1, <2>2, <2>3
<1>5. QED
  BY <1>2, <1>3, <1>4

LEMMA InitPaid == Init => OrphanInv
<1> SUFFICES ASSUME Init
             PROVE  OrphanInv
  OBVIOUS
<1>1. TokensApart /\ AssetWhenCompleted
  BY DEF Init, InitDelivery, TokensApart, AssetWhenCompleted
<1>2. ASSUME NEW j \in Jobs
      PROVE  Paid(j)
  <2>1. Loose(j) = {} /\ Stale(j) = {} /\ lapses[j] = 0 /\ faults = 0
    BY DEF Init, InitDelivery, Loose, Orphans, Stale, OnTheWay, Going
  <2>2. IsFiniteSet({}) /\ Cardinality({}) = 0
    BY FS_EmptySet
  <2>3. QED
    BY <2>1, <2>2 DEF Paid
<1>3. QED
  BY <1>1, <1>2 DEF OrphanInv

LEMMA NextPaid ==
  ASSUME IInv, OrphanInv, [Next]_vars
  PROVE  OrphanInv'
<1>0. TypeOK /\ TokensApart /\ AssetWhenCompleted
  BY DEF IInv, OrphanInv
<1>1. AssetWhenCompleted'
  BY <1>0, AssetStays
<1>2. TokensApart'
  <2>1. CASE UNCHANGED <<claims, procs>>
    BY <1>0, <2>1 DEF procs, TokensApart
  <2>2. ASSUME NEW j \in Jobs, LapseLease(j) \/ Purge(j)
        PROVE  UNCHANGED <<claims, procs>>
    BY <2>2 DEF LapseLease, Purge, delivery
  <2>3. QED
    BY <1>0, <2>1, <2>2, StepMoves, TokensStayApart
<1>3. ASSUME NEW j \in Jobs
      PROVE  Paid(j)'
  <2> DEFINE m == lapses[j] + faults
             n == lapses'[j] + faults'
  <2>0. IsFiniteSet(Loose(j)) /\ IsFiniteSet(Stale(j))
        /\ Cardinality(Loose(j)) + Cardinality(Stale(j)) <= m
    BY DEF OrphanInv, Paid
  <2>1. /\ m \in Nat /\ n \in Nat /\ n >= m
        /\ faults' = faults + 1 \/ lapses'[j] = lapses[j] + 1 => n > m
    BY <1>0, CausesGrow
  <2>2. \/ Loose(j)' \subseteq Loose(j) /\ Stale(j)' \subseteq Stale(j)
        \/ \E c : /\ Loose(j)' \subseteq Loose(j) \cup {c} /\ Stale(j)' \subseteq Stale(j)
                  /\ n > m \/ (\E w \in Stale(j) : w \notin Stale(j)')
        \/ \E c : Loose(j)' \subseteq Loose(j) /\ Stale(j)' \subseteq Stale(j) \cup {c} /\ n > m
    <3>1. CASE UNCHANGED vars
      BY <3>1 DEF vars, rows, store, delivery, procs, Loose, Orphans, Completing, Stale, OnTheWay,
                  Current, HasContext
    <3>2. ASSUME NEW i \in Jobs, Publish(i) \/ DeleteObject(i) \/ (LapseLease(i) /\ i # j)
          PROVE  Loose(j)' \subseteq Loose(j) /\ Stale(j)' \subseteq Stale(j)
      <4>1. Loose(j)' \subseteq Loose(j)
        BY <1>0, <3>2, LooseByOthers
      <4>2. /\ UNCHANGED <<procs, context>> /\ job'[j] = job[j]
        BY <1>0, <3>2 DEF Publish, SendEvent, DeleteObject, LapseLease, rows, delivery, TypeOK
      <4>3. Stale(j)' \subseteq Stale(j)
        BY <4>2 DEF procs, Stale, OnTheWay, Current, HasContext
      <4>4. QED
        BY <4>1, <4>3
    <3>3. ASSUME NEW i \in Jobs, (LapseLease(i) /\ i = j) \/ Purge(i)
          PROVE  \E c : Loose(j)' \subseteq Loose(j) /\ Stale(j)' \subseteq Stale(j) \cup {c} /\ n > m
      <4>1. Loose(j)' \subseteq Loose(j)
        BY <1>0, <3>3, LooseByOthers
      <4>2. \E c : Stale(j)' \subseteq Stale(j) \cup {c}
        BY <1>0, <3>3, StaleByLapse
      <4>3. faults' = faults + 1 \/ lapses'[j] = lapses[j] + 1
        BY <1>0, <3>3 DEF LapseLease, Purge, Fault, TypeOK
      <4>4. QED
        BY <2>1, <4>1, <4>2, <4>3
    <3>4. ASSUME NEW w \in Workers,
                 WorkerStep(w) \/ WorkerLost(w) \/ (\E i \in Messages : Deliver(w, i))
          PROVE  /\ Stale(j)' \subseteq Stale(j)
                 /\ \/ Loose(j)' \subseteq Loose(j)
                    \/ \E c : /\ Loose(j)' \subseteq Loose(j) \cup {c}
                              /\ n > m \/ (\E v \in Stale(j) : v \notin Stale(j)')
      <4>1. Stale(j)' \subseteq Stale(j)
        BY <1>0, <3>4, WorkerStepMoves, StaleByMove
      <4>2. \/ Loose(j)' \subseteq Loose(j)
            \/ /\ Loose(j)' \subseteq Loose(j) \cup {tok[w]}
               /\ faults' = faults + 1 \/ (w \in Stale(j) /\ w \notin Stale(j)')
        BY <1>0, <3>4, LooseByWorker
      <4>3. QED
        BY <2>1, <4>1, <4>2
    <3>5. QED
      BY <3>1, <3>2, <3>3, <3>4 DEF Next
  <2> HIDE DEF m, n
  <2>3. /\ IsFiniteSet(Loose(j)') /\ IsFiniteSet(Stale(j)')
        /\ Cardinality(Loose(j)') + Cardinality(Stale(j)') <= n
    BY <2>0, <2>1, <2>2, StillPaid
  <2>4. QED
    BY <2>3 DEF Paid, n
<1>4. QED
  BY <1>1, <1>2, <1>3 DEF OrphanInv

(***************************************************************************)
(* The completing workers are the stale ones and the current one.          *)
(***************************************************************************)
LEMMA FewCompleting ==
  ASSUME IInv, OrphanInv, NEW j \in Jobs
  PROVE  IsFiniteSet(Completing(j))
<1>0. TokensApart /\ IsFiniteSet(Stale(j))
  BY DEF OrphanInv, Paid
<1>1. \A w \in Completing(j) : w \in Workers /\ OnTheWay(w, j)
  BY DEF Completing, OnTheWay, Going
<1>2. CASE Completing(j) \subseteq Stale(j)
  <2>1. Completing(j) \in SUBSET Stale(j)
    BY <1>2
  <2>2. QED
    BY <1>0, <2>1, FS_Subset
<1>3. CASE ~(Completing(j) \subseteq Stale(j))
  <2>1. PICK w \in Completing(j) : w \notin Stale(j)
    BY <1>3
  <2>2. \A v \in Completing(j) : v \notin Stale(j) => v = w
    BY <1>0, <1>1, <2>1, OneCurrent DEF Stale, OnTheWay, Current
  <2>3. Completing(j) \subseteq Stale(j) \cup {w}
    BY <2>2
  <2>4. QED
    BY <1>0, <2>3, OneMore
<1>4. QED
  BY <1>2, <1>3

LEMMA PaidOrphans ==
  ASSUME IInv, OrphanInv, NEW j \in Jobs
  PROVE  Cardinality(Orphans(j)) <= Cardinality(Completing(j)) + lapses[j] + faults
<1> DEFINE C == Completing(j)
           T == {tok[w] : w \in C}
<1>0. /\ IsFiniteSet(Loose(j)) /\ IsFiniteSet(Stale(j)) /\ IsFiniteSet(C)
      /\ Cardinality(Loose(j)) + Cardinality(Stale(j)) <= lapses[j] + faults
      /\ lapses[j] \in Nat /\ faults \in Nat
  BY FewCompleting DEF OrphanInv, Paid, IInv, TypeOK
<1>1. IsFiniteSet(T) /\ Cardinality(T) <= Cardinality(C)
  <2>1. [w \in C |-> tok[w]] \in Surjection(C, T)
    BY DEF Surjection
  <2>2. QED
    BY <1>0, <2>1, FS_Surjection
<1>2. Orphans(j) \in SUBSET (Loose(j) \cup T)
  BY DEF Loose
<1>3. /\ IsFiniteSet(Loose(j) \cup T)
      /\ Cardinality(Loose(j) \cup T)
           = Cardinality(Loose(j)) + Cardinality(T) - Cardinality(Loose(j) \cap T)
  BY <1>0, <1>1, FS_Union
<1>4. IsFiniteSet(Orphans(j)) /\ Cardinality(Orphans(j)) <= Cardinality(Loose(j) \cup T)
  BY <1>2, <1>3, FS_Subset
<1>5. IsFiniteSet(Loose(j) \cap T)
  <2>1. (Loose(j) \cap T) \in SUBSET T
    OBVIOUS
  <2>2. QED
    BY <1>1, <2>1, FS_Subset
<1>6. /\ Cardinality(Orphans(j)) \in Nat /\ Cardinality(C) \in Nat /\ Cardinality(T) \in Nat
      /\ Cardinality(Loose(j)) \in Nat /\ Cardinality(Stale(j)) \in Nat
      /\ Cardinality(Loose(j) \cap T) \in Nat /\ Cardinality(Loose(j) \cup T) \in Nat
  BY <1>0, <1>1, <1>3, <1>4, <1>5, FS_CardinalityType
<1> HIDE DEF C, T
<1>7. Cardinality(Orphans(j)) <= Cardinality(C) + lapses[j] + faults
  BY <1>0, <1>1, <1>3, <1>4, <1>6
<1>8. QED
  BY <1>7 DEF C

(***************************************************************************)
(* However many executions there are: an object in COS that no row names   *)
(* is one a worker is about to name, or one for which a lease lapsed, a    *)
(* call failed or a deletion came in between.                              *)
(***************************************************************************)
THEOREM OrphansHaveACause == Spec => []OrphansExplained
<1>1. IInv /\ OrphanInv /\ [Next]_vars => OrphanInv'
  BY NextPaid
<1>2. IInv /\ OrphanInv => OrphansExplained
  BY PaidOrphans DEF OrphansExplained
<1>3. QED
  BY <1>1, <1>2, InitPaid, Invariance, PTL DEF Spec

-----------------------------------------------------------------------------
(***************************************************************************)
(* Jobs left behind: open, and without rows to work from or without anyone *)
(* who will go on with them.                                               *)
(***************************************************************************)
AnsweredFaults == {"put_ack_lost", "outcome_error", "outcome_ack_lost"}

Unanswered == \E k \in FaultKinds \ AnsweredFaults : Fault(k)

Carried(j) == CarriedOn(j, job[j].status, job[j].token)

Safe(j) == job[j].status \in TerminalJobStatuses \/ (HasContext(j) /\ Carried(j))

LeftBehind == {j \in Jobs : ~Safe(j)}

LEMMA StaysSafe ==
  ASSUME NEW w \in Workers, NEW j \in Jobs, Safe(j), OthersStay(w),
         job'[j] = job[j], context'[j] = context[j], published'[j] = published[j],
         QueuedFor(j) => QueuedFor(j)',
         HasContext(j) /\ job[j].status = "PROCESSING" /\ Owns(w, j, job[j].token) =>
           Owns(w, j, job[j].token)',
         HasContext(j) /\ job[j].status \in {"PENDING", "FAILED_RETRYABLE"}
             /\ Pursues(w, j, job[j].token) =>
           QueuedFor(j)' \/ Pursues(w, j, job[j].token)'
  PROVE  Safe(j)'
<1>1. CASE job[j].status \in TerminalJobStatuses
  BY <1>1 DEF Safe
<1>2. CASE HasContext(j) /\ Carried(j)
  <2> DEFINE s == job[j].status
             t == job[j].token
  <2>1. PICK s0, t0 : s0 = s /\ t0 = t
    OBVIOUS
  <2>2. CarriedOn(j, s0, t0)
    BY <1>2, <2>1 DEF Carried
  <2>3. /\ s0 = "PROCESSING" /\ Owns(w, j, t0) => Owns(w, j, t0)'
        /\ s0 \in {"PENDING", "FAILED_RETRYABLE"} /\ Pursues(w, j, t0) =>
             QueuedFor(j)' \/ Pursues(w, j, t0)'
    BY <1>2, <2>1 DEF Owns, Pursues
  <2>4. CarriedOn(j, s0, t0)'
    BY <2>2, <2>3, StillCarried
  <2>5. Carried(j)'
    BY <2>1, <2>4 DEF Carried, CarriedOn, Owns, Pursues
  <2>6. QED
    BY <1>2, <2>5 DEF Safe, HasContext
<1>3. QED
  BY <1>1, <1>2 DEF Safe

(***************************************************************************)
(* What a worker does to any other job than the one in its hands: nothing. *)
(***************************************************************************)
LEMMA WorkerSends ==
  ASSUME TypeOK, NEW w \in Workers, WorkerStep(w) \/ WorkerLost(w)
  PROVE  /\ published' = published
         /\ \/ queue' = queue
            \/ \E m \in Messages : queue' = [queue EXCEPT ![m] = @ + 1]
<1>1. CASE WorkerLost(w)
  BY <1>1 DEF WorkerLost, LoseWorker, TypeOK
<1>2. CASE Retry(w)
  <2>1. held[w] \in Messages /\ ~RetriesExhausted(w)
    BY <1>2 DEF Retry, PublishRetry, TypeOK
  <2>2. NextAttempt(w) \in Messages
    BY <2>1, RetriesAssumption DEF NextAttempt, Messages, RetriesExhausted
  <2>3. QED
    BY <1>2, <2>2 DEF Retry, PublishRetry
<1>3. CASE WorkerStep(w) /\ ~Retry(w)
  BY <1>3 DEF WorkerStep, PrepareSkip, PrepareClaim, ReadSource, SourceMissing,
              SourceUnavailable, PrepareError, PrepareAckLost, Giveup, Render, Generate,
              Criticise, CheckCurrent, Put, PutFails, PutAckLost, Complete, Reject,
              OutcomeError, OutcomeAckLost, Finalize, MarkRetryable, MarkError,
              RetryUnpublished, LoseRetry, Exhaust, FinalizeError, Ack, Acknowledge, Elsewhere
<1>4. QED
  BY <1>1, <1>2, <1>3

LEMMA OthersSafe ==
  ASSUME TypeOK, NEW w \in Workers, WorkerStep(w) \/ WorkerLost(w),
         NEW j \in Jobs, j # held[w].job, Safe(j)
  PROVE  Safe(j)'
<1>1. Moves(w)
  BY WorkerStepMoves
<1>2. OthersStay(w) /\ context' = context /\ job'[j] = job[j]
  BY <1>1 DEF Moves, Goes, Quits, Claims, TypeOK
<1>3. published' = published /\ (QueuedFor(j) => QueuedFor(j)')
  <2>1. queue \in [Messages -> Nat]
    BY DEF TypeOK
  <2>2. QED
    BY <2>1, WorkerSends, Enqueues DEF QueuedFor
<1>4. ~Owns(w, j, job[j].token) /\ ~Pursues(w, j, job[j].token)
  BY DEF Owns, Pursues
<1>5. QED
  BY <1>2, <1>3, <1>4, StaysSafe

(***************************************************************************)
(* What it does to its own job.                                            *)
(***************************************************************************)
LEMMA StepSafe ==
  ASSUME TypeOK, NEW w \in Workers, NEW i \in Jobs, i = held[w].job, Safe(i),
         NEW step, Goto(w, step), UNCHANGED <<job, context, queue, published>>,
         HasContext(i) /\ job[i].status = "PROCESSING" /\ Owns(w, i, job[i].token) =>
           step \notin {"idle", "prepare", "raised", "ack"},
         HasContext(i) /\ job[i].status \in {"PENDING", "FAILED_RETRYABLE"}
             /\ Pursues(w, i, job[i].token) => step \in {"prepare", "raised"}
  PROVE  Safe(i)'
<1>1. OthersStay(w) /\ pc'[w] = step /\ held'[w] = held[w] /\ tok'[w] = tok[w]
  BY DEF TypeOK, Goto, OthersStay
<1>2. QueuedFor(i) => QueuedFor(i)'
  BY DEF QueuedFor
<1>3. /\ HasContext(i) /\ job[i].status = "PROCESSING" /\ Owns(w, i, job[i].token) =>
           Owns(w, i, job[i].token)'
      /\ HasContext(i) /\ job[i].status \in {"PENDING", "FAILED_RETRYABLE"}
             /\ Pursues(w, i, job[i].token) => Pursues(w, i, job[i].token)'
  BY <1>1 DEF Owns, Pursues
<1>4. QED
  BY <1>1, <1>2, <1>3, StaysSafe

LEMMA FinalizeSafe ==
  ASSUME IInv, NEW w \in Workers, NEW i \in Jobs, i = held[w].job, Safe(i),
         NEW verdict \in {"FAILED", "REJECTED_BY_CRITIC"}, FinalizeFailure(w, verdict),
         kind[i] = "share" => verdict = "FAILED",
         NEW step, Goto(w, step), UNCHANGED <<queue, published>>
  PROVE  Safe(i)'
<1>0. RowTypes /\ TypeOK
  BY DEF IInv, TypeOK, RowTypes
<1>1. CASE MayFinalize(i, tok[w])
  <2>1. RowsFailed(i)
    BY <1>0, <1>1, FailRows DEF FinalizeFailure
  <2>2. job'[i].status = "FAILED_FINAL"
    BY <1>0, <2>1 DEF RowsFailed, RowTypes
  <2>3. QED
    BY <2>2 DEF Safe, TerminalJobStatuses
<1>2. CASE ~MayFinalize(i, tok[w])
  <2>1. UNCHANGED <<job, context>>
    BY <1>2 DEF FinalizeFailure, rows
  <2>2. ~(HasContext(i) /\ job[i].status = "PROCESSING" /\ Owns(w, i, job[i].token))
    <3>1. job[i].status = "PROCESSING" => job[i].token # NoToken
      BY DEF IInv, ClaimsOnRow, NoToken
    <3>2. QED
      BY <1>2, <3>1 DEF MayFinalize, Finalizable, Owns
  <2>3. ~(HasContext(i) /\ job[i].status \in {"PENDING", "FAILED_RETRYABLE"}
            /\ Pursues(w, i, job[i].token))
    BY <1>2 DEF MayFinalize, Finalizable, Pursues, LeaseHolds, RunningJobStatuses
  <2>4. QED
    BY <1>0, <2>1, <2>2, <2>3, StepSafe
<1>3. QED
  BY <1>1, <1>2

LEMMA OutcomeSafe ==
  ASSUME IInv, NEW w \in Workers, NEW i \in Jobs, i = held[w].job, Safe(i),
         pc[w] = "complete", Outcome(w), NEW step, Goto(w, step), UNCHANGED <<queue, published>>
  PROVE  Safe(i)'
<1>0. RowTypes /\ TypeOK
  BY DEF IInv, TypeOK, RowTypes
<1>1. CASE IsExecuting(i, tok[w])
  <2>1. job[i].status = "PROCESSING" /\ job[i] \in JobRows
    BY <1>0, <1>1 DEF IsExecuting, Executing, RowTypes
  <2>2. job'[i].status = "COMPLETED"
    BY <1>0, <1>1, <2>1, CompletedRow DEF Outcome, CompleteWrites, RowTypes
  <2>3. QED
    BY <2>2 DEF Safe, TerminalJobStatuses
<1>2. CASE ~IsExecuting(i, tok[w])
  <2>1. UNCHANGED <<job, context>>
    BY <1>2 DEF Outcome, rows
  <2>2. /\ ~(HasContext(i) /\ job[i].status = "PROCESSING" /\ Owns(w, i, job[i].token))
        /\ ~Pursues(w, i, job[i].token)
    BY <1>2 DEF IsExecuting, Executing, Owns, Pursues
  <2>3. QED
    BY <1>0, <2>1, <2>2, StepSafe
<1>3. QED
  BY <1>1, <1>2

LEMMA MarkSafe ==
  ASSUME TypeOK, NEW w \in Workers, NEW i \in Jobs, i = held[w].job, Safe(i),
         pc[w] \in {"unavailable", "mark"}, MarkWrites(w),
         NEW step, Goto(w, step), step = "raised" \/ (step = "ack" /\ ~MayMark(i, tok[w])),
         UNCHANGED <<queue, published>>
  PROVE  Safe(i)'
<1>1. CASE MayMark(i, tok[w])
  <2>1. job[i].status = "PROCESSING" /\ job[i].token = tok[w] /\ job[i] \in JobRows
    BY <1>1 DEF TypeOK, MayMark, Retryable, RunningJobStatuses, CommittedStatuses
  <2>2. job'[i].status = "FAILED_RETRYABLE" /\ job'[i].token = tok[w]
    BY <1>1, <2>1, RetryableRow DEF MarkWrites, TypeOK
  <2>3. pc'[w] = "raised" /\ held'[w] = held[w] /\ tok'[w] = tok[w]
    BY <1>1 DEF TypeOK, Goto
  <2>4. HasContext(i)'
    BY <1>1 DEF MayMark, MarkWrites, HasContext
  <2>5. QED
    BY <2>2, <2>3, <2>4 DEF Safe, Carried, CarriedOn, Pursues
<1>2. CASE ~MayMark(i, tok[w])
  <2>1. UNCHANGED <<job, context>>
    BY <1>2 DEF MarkWrites
  <2>2. /\ ~(HasContext(i) /\ job[i].status = "PROCESSING" /\ Owns(w, i, job[i].token))
        /\ ~Pursues(w, i, job[i].token)
    BY <1>2 DEF MayMark, Retryable, RunningJobStatuses, Owns, Pursues
  <2>3. QED
    BY <2>1, <2>2, StepSafe
<1>3. QED
  BY <1>1, <1>2

LEMMA ClaimSafe ==
  ASSUME IInv, NEW w \in Workers, PrepareClaim(w), NEW i \in Jobs, i = held[w].job
  PROVE  Safe(i)'
<1>0. RowTypes /\ TypeOK
  BY DEF IInv, TypeOK, RowTypes
<1>1. MayClaim(i) /\ ClaimWrites(i) /\ job[i] \in JobRows /\ claims[i] + 1 \in Nat
      /\ job[i].status \in OpenStatuses
  BY <1>0 DEF PrepareClaim, RowTypes, MayClaim, Claimable, TerminalJobStatuses,
              CommittedStatuses, OpenStatuses
<1>2. CASE context[i] = "usable"
  <2> DEFINE t == claims[i] + 1
  <2>1. t \in Nat /\ job' = [job EXCEPT ![i] = Claimed(@, t)] /\ pc'[w] = "read" /\ tok'[w] = t
        /\ held'[w].job = i /\ context' = context
    BY <1>0, <1>1, <1>2 DEF PrepareClaim, ClaimWrites, TypeOK
  <2> HIDE DEF t
  <2>2. job'[i].status = "PROCESSING" /\ job'[i].token = t
    BY <1>0, <1>1, <2>1, ClaimedRow DEF RowTypes
  <2>3. Owns(w, i, job[i].token)' /\ HasContext(i)'
    BY <1>2, <2>1, <2>2 DEF Owns, HasContext
  <2>4. QED
    BY <2>2, <2>3 DEF Safe, Carried, CarriedOn, Owns
<1>3. CASE context[i] # "usable"
  <2>1. RowsClaimed(i) \/ RowsRefused(i)
    BY <1>0, <1>1, ClaimRows
  <2>2. job'[i].status = "FAILED_FINAL"
    <3> DEFINE t == claims[i] + 1
    <3>1. t \in Nat /\ job' = [job EXCEPT ![i] = FailedFinal(Claimed(@, t))]
      BY <1>1, <1>3 DEF ClaimWrites
    <3> HIDE DEF t
    <3>2. Claimed(job[i], t) \in JobRows /\ Claimed(job[i], t).status \in OpenStatuses
      BY <1>1, <3>1, ClaimedRow DEF JobRows, JobStatuses, Leases, OpenStatuses
    <3>3. FailedFinal(Claimed(job[i], t)).status = "FAILED_FINAL"
      BY <3>2, FailedRow
    <3>4. QED
      BY <1>0, <3>1, <3>3 DEF RowTypes
  <2>3. QED
    BY <2>2 DEF Safe, TerminalJobStatuses
<1>4. QED
  BY <1>2, <1>3

LEMMA WorkerSafe ==
  ASSUME IInv, NEW w \in Workers, WorkerStep(w), ~Unanswered,
         NEW i \in Jobs, i = held[w].job, Safe(i)
  PROVE  Safe(i)'
<1>0. TypeOK /\ Underway(w)
  BY DEF IInv, AllUnderway
<1>1. \A k \in FaultKinds \ AnsweredFaults : ~Fault(k)
  BY DEF Unanswered
<1>2. CASE \/ PrepareError(w) \/ PrepareAckLost(w) \/ MarkError(w) \/ RetryUnpublished(w)
           \/ FinalizeError(w)
  BY <1>1, <1>2 DEF PrepareError, PrepareAckLost, MarkError, RetryUnpublished, LoseRetry,
                    FinalizeError, FaultKinds, AnsweredFaults
<1>3. CASE PrepareSkip(w)
  <2>1. pc[w] = "prepare" /\ ~MayClaim(i) /\ Goto(w, "ack")
        /\ UNCHANGED <<job, context, queue, published>>
    BY <1>3 DEF PrepareSkip, Elsewhere, rows
  <2>2. ~Owns(w, i, job[i].token)
    BY <2>1 DEF Owns
  <2>3. ~(HasContext(i) /\ job[i].status \in {"PENDING", "FAILED_RETRYABLE"})
    BY <2>1 DEF MayClaim, Claimable, TerminalJobStatuses, LeaseHolds, RunningJobStatuses
  <2>4. QED
    BY <1>0, <2>1, <2>2, <2>3, StepSafe
<1>4. CASE PrepareClaim(w)
  BY <1>4, ClaimSafe
<1>5. CASE \/ \E next \in {"generate", "missing", "unavailable", "finalize"} : ReadSource(w, next)
           \/ \E next \in {"mark", "finalize"} : Giveup(w, next)
           \/ Render(w) \/ Generate(w) \/ Criticise(w) \/ Put(w) \/ PutFails(w) \/ PutAckLost(w)
           \/ OutcomeError(w)
  <2>1. pc[w] \notin {"prepare", "raised"} /\ UNCHANGED <<job, context, queue, published>>
    BY <1>5 DEF ReadSource, Giveup, Render, Generate, Criticise, Put, PutFails, PutAckLost,
                OutcomeError, Elsewhere, rows
  <2>2. \E step \in Steps \ {"idle", "prepare", "raised", "ack"} : Goto(w, step)
    BY <1>5 DEF ReadSource, Giveup, Render, Generate, Criticise, Put, PutFails, PutAckLost,
                OutcomeError, NextTurn, Steps
  <2>3. ~Pursues(w, i, job[i].token)
    BY <2>1 DEF Pursues
  <2>4. QED
    BY <1>0, <2>1, <2>2, <2>3, StepSafe
<1>6. CASE CheckCurrent(w)
  <2>1. pc[w] = "check" /\ UNCHANGED <<job, context, queue, published>>
        /\ Goto(w, IF IsExecuting(i, tok[w]) THEN "put" ELSE "ack")
    BY <1>6 DEF CheckCurrent, Elsewhere, rows
  <2>2. ~Pursues(w, i, job[i].token)
    BY <2>1 DEF Pursues
  <2>3. HasContext(i) /\ job[i].status = "PROCESSING" /\ Owns(w, i, job[i].token) =>
          IsExecuting(i, tok[w])
    BY DEF IsExecuting, Executing, Owns
  <2>4. QED
    BY <1>0, <2>1, <2>2, <2>3, StepSafe
<1>7. CASE SourceMissing(w) \/ Finalize(w) \/ Exhaust(w)
  <2>1. FinalizeFailure(w, "FAILED") /\ Goto(w, "ack") /\ UNCHANGED <<queue, published>>
    BY <1>7 DEF SourceMissing, Finalize, Exhaust, Elsewhere
  <2>2. QED
    BY <2>1, FinalizeSafe
<1>8. CASE Reject(w) \/ OutcomeAckLost(w) \/ Complete(w)
  <2>1. UNCHANGED <<queue, published>> /\ \E step \in {"ack", "mark"} : Goto(w, step)
    BY <1>8 DEF Reject, OutcomeAckLost, Complete, Elsewhere
  <2>2. \/ pc[w] = "complete" /\ Outcome(w)
        \/ pc[w] = "reject" /\ FinalizeFailure(w, "REJECTED_BY_CRITIC")
    BY <1>8 DEF Reject, OutcomeAckLost, Complete
  <2>3. pc[w] = "reject" => kind[i] # "share"
    BY <1>0 DEF Underway
  <2>4. QED
    BY <2>1, <2>2, <2>3, OutcomeSafe, FinalizeSafe
<1>9. CASE SourceUnavailable(w) \/ MarkRetryable(w)
  <2>1. /\ pc[w] \in {"unavailable", "mark"} /\ MarkWrites(w) /\ UNCHANGED <<queue, published>>
        /\ \E step : Goto(w, step) /\ (step = "raised" \/ (step = "ack" /\ ~MayMark(i, tok[w])))
    BY <1>9 DEF SourceUnavailable, MarkRetryable, Elsewhere
  <2>2. QED
    BY <1>0, <2>1, MarkSafe
<1>10. CASE Retry(w)
  <2> DEFINE m == NextAttempt(w)
  <2>1. /\ pc[w] = "raised" /\ ~RetriesExhausted(w) /\ queue' = [queue EXCEPT ![m] = @ + 1]
        /\ Goto(w, "ack") /\ UNCHANGED <<job, context, published>>
    BY <1>10 DEF Retry, PublishRetry, rows
  <2>2. m \in Messages /\ m.job = i
    BY <1>0, <2>1, RetriesAssumption DEF NextAttempt, Messages, RetriesExhausted, TypeOK
  <2> HIDE DEF m
  <2>3. QueuedFor(i)'
    BY <1>0, <2>1, <2>2, Enqueues DEF TypeOK
  <2>4. OthersStay(w) /\ ~Owns(w, i, job[i].token)
    BY <1>0, <2>1 DEF Goto, OthersStay, TypeOK, Owns
  <2>5. QED
    BY <2>1, <2>3, <2>4, StaysSafe
<1>11. CASE Ack(w)
  <2>1. pc[w] = "ack" /\ OthersStay(w) /\ UNCHANGED <<job, context, queue, published>>
    BY <1>0, <1>11 DEF Ack, Acknowledge, OthersStay, TypeOK, rows
  <2>2. ~Owns(w, i, job[i].token) /\ ~Pursues(w, i, job[i].token) /\ (QueuedFor(i) => QueuedFor(i)')
    BY <2>1 DEF Owns, Pursues, QueuedFor
  <2>3. QED
    BY <2>1, <2>2, StaysSafe
<1>12. QED
  BY <1>2, <1>3, <1>4, <1>5, <1>6, <1>7, <1>8, <1>9, <1>10, <1>11 DEF WorkerStep

(***************************************************************************)
(* Events, deliveries, leases and deletions.                               *)
(***************************************************************************)
LEMMA EnvSafe ==
  ASSUME TypeOK, NEW i \in Jobs, Publish(i) \/ LapseLease(i) \/ DeleteObject(i),
         NEW j \in Jobs, Safe(j)
  PROVE  Safe(j)'
<1>1. CASE Publish(i)
  <2> DEFINE m == [job |-> i, retries |-> 0]
  <2>1. m \in Messages /\ m.job = i
    BY RetriesAssumption DEF Messages
  <2>2. /\ queue' = [queue EXCEPT ![m] = @ + 1] /\ published' = [published EXCEPT ![i] = @ + 1]
        /\ UNCHANGED <<job, context, pc, held, tok>>
    BY <1>1 DEF Publish, SendEvent, procs, rows
  <2> HIDE DEF m
  <2>3. QueuedFor(i)' /\ (QueuedFor(j) => QueuedFor(j)') /\ (j # i => published'[j] = published[j])
    BY <2>1, <2>2, Enqueues DEF TypeOK
  <2>4. QED
    BY <2>2, <2>3 DEF Safe, HasContext, Carried, CarriedOn, Owns, Pursues
<1>2. CASE LapseLease(i)
  <2>1. job'[j].status = job[j].status /\ job'[j].token = job[j].token
    BY <1>2 DEF LapseLease, TypeOK, JobRows
  <2>2. UNCHANGED <<context, queue, published, pc, held, tok>>
    BY <1>2 DEF LapseLease, delivery, procs
  <2>3. QED
    BY <2>1, <2>2 DEF Safe, HasContext, Carried, CarriedOn, QueuedFor, Owns, Pursues
<1>3. CASE DeleteObject(i)
  <2>1. UNCHANGED <<job, context, queue, published, pc, held, tok>>
    BY <1>3 DEF DeleteObject, delivery, procs, rows
  <2>2. QED
    BY <2>1 DEF Safe, HasContext, Carried, CarriedOn, QueuedFor, Owns, Pursues
<1>4. QED
  BY <1>1, <1>2, <1>3

LEMMA DeliverSafe ==
  ASSUME TypeOK, NEW w \in Workers, NEW m \in Messages, Deliver(w, m), NEW j \in Jobs, Safe(j)
  PROVE  Safe(j)'
<1>1. /\ pc[w] = "idle" /\ queue' = [queue EXCEPT ![m] = @ - 1] /\ OthersStay(w)
      /\ pc'[w] = "prepare" /\ held'[w] = m /\ tok'[w] = NoToken
      /\ UNCHANGED <<job, context, published>>
  BY DEF Deliver, Take, TypeOK, OthersStay, rows
<1>2. ~Owns(w, j, job[j].token) /\ ~Pursues(w, j, job[j].token)
  BY <1>1 DEF Owns, Pursues
<1>3. CASE m.job # j
  BY <1>1, <1>2, <1>3, Dequeues, StaysSafe DEF TypeOK
<1>4. CASE m.job = j
  <2>1. Pursues(w, j, job[j].token)'
    BY <1>1, <1>4 DEF Pursues
  <2>2. \A v \in Workers : Owns(v, j, job[j].token) => Owns(v, j, job[j].token)'
    BY <1>1, <1>2 DEF OthersStay, Owns
  <2>3. QED
    BY <1>1, <2>1, <2>2 DEF Safe, HasContext, Carried, CarriedOn, Owns, Pursues
<1>5. QED
  BY <1>3, <1>4

LEMMA LeftStep ==
  ASSUME IInv, [Next]_vars
  PROVE  \/ LeftBehind' \subseteq LeftBehind
         \/ Unanswered /\ \E i : LeftBehind' \subseteq LeftBehind \cup {i}
<1>0. TypeOK
  BY DEF IInv
<1>1. CASE UNCHANGED vars
  <2>1. UNCHANGED <<job, context, queue, published, pc, held, tok>>
    BY <1>1 DEF vars, rows, delivery, procs
  <2>2. \A j \in Jobs : Safe(j) => Safe(j)'
    BY <2>1 DEF Safe, HasContext, Carried, CarriedOn, QueuedFor, Owns, Pursues
  <2>3. QED
    BY <2>2 DEF LeftBehind
<1>2. ASSUME NEW i \in Jobs, Publish(i) \/ LapseLease(i) \/ DeleteObject(i)
      PROVE  LeftBehind' \subseteq LeftBehind
  BY <1>0, <1>2, EnvSafe DEF LeftBehind
<1>3. ASSUME NEW i \in Jobs, Purge(i)
      PROVE  Unanswered /\ LeftBehind' \subseteq LeftBehind \cup {i}
  <2>1. /\ Fault("deleted") /\ UNCHANGED <<job, queue, published, pc, held, tok>>
        /\ context' = [context EXCEPT ![i] = "gone"]
    BY <1>3 DEF Purge, procs
  <2>2. \A j \in Jobs \ {i} : context'[j] = context[j]
    BY <1>0, <2>1 DEF TypeOK
  <2>3. \A j \in Jobs \ {i} : Safe(j) => Safe(j)'
    BY <2>1, <2>2 DEF Safe, HasContext, Carried, CarriedOn, QueuedFor, Owns, Pursues
  <2>4. QED
    BY <2>1, <2>3 DEF Unanswered, FaultKinds, AnsweredFaults, LeftBehind
<1>4. ASSUME NEW w \in Workers, NEW m \in Messages, Deliver(w, m)
      PROVE  LeftBehind' \subseteq LeftBehind
  BY <1>0, <1>4, DeliverSafe DEF LeftBehind
<1>5. ASSUME NEW w \in Workers, WorkerStep(w) \/ WorkerLost(w)
      PROVE  LeftBehind' \subseteq LeftBehind \cup {held[w].job}
  BY <1>0, <1>5, OthersSafe DEF LeftBehind
<1>6. ASSUME NEW w \in Workers, WorkerLost(w)
      PROVE  Unanswered
  BY <1>6 DEF WorkerLost, LoseWorker, Unanswered, FaultKinds, AnsweredFaults
<1>7. ASSUME NEW w \in Workers, WorkerStep(w), ~Unanswered
      PROVE  LeftBehind' \subseteq LeftBehind
  BY <1>5, <1>7, WorkerSafe DEF LeftBehind
<1>8. QED
  BY <1>1, <1>2, <1>3, <1>4, <1>5, <1>6, <1>7 DEF Next

LEMMA InitSafe == Init => LeftBehind = {}
BY DEF Init, InitDelivery, NewJob, LeftBehind, Safe, HasContext, Carried, CarriedOn

(***************************************************************************)
(* Each fault leaves at most one job behind: an open optimization or share *)
(* job that nothing will go on with any more, whatever messages, lapsed    *)
(* leases and late workers do.                                             *)
(***************************************************************************)
THEOREM OneJobPerFault == Spec => [](Cardinality(LeftBehind) <= faults)
<1> DEFINE Few == IsFiniteSet(LeftBehind) /\ Cardinality(LeftBehind) <= faults
<1>1. Init => Few
  <2>1. Init => faults = 0
    BY DEF Init, InitDelivery
  <2>2. QED
    BY <2>1, InitSafe, FS_EmptySet
<1>2. IInv /\ Few /\ [Next]_vars => Few'
  <2> SUFFICES ASSUME IInv, Few, [Next]_vars
               PROVE  Few'
    OBVIOUS
  <2>1. faults \in Nat /\ faults' \in Nat /\ faults' >= faults
    <3>1. EnvTypes
      BY DEF IInv, TypeOK, EnvTypes
    <3>2. EnvTypes' /\ EnvGrows
      BY <3>1, StepEnv
    <3>3. QED
      BY <3>1, <3>2 DEF EnvTypes, EnvGrows
  <2>2. \/ LeftBehind' \subseteq LeftBehind
        \/ faults' = faults + 1 /\ \E i : LeftBehind' \subseteq LeftBehind \cup {i}
    BY LeftStep DEF Unanswered, Fault
  <2> HIDE DEF LeftBehind
  <2>3. QED
    BY <2>1, <2>2, OnePerFault
<1>3. QED
  BY <1>1, <1>2, Invariance, PTL DEF Spec

(***************************************************************************)
(* Those the executor answers leave none: an object of which COS lost the  *)
(* acknowledgement, an exception inside run's try, a commit whose answer   *)
(* is lost there.                                                          *)
(***************************************************************************)
THEOREM NothingLeftBehind ==
  ASSUME Faults \subseteq AnsweredFaults
  PROVE  Spec => [](LeftBehind = {})
<1> DEFINE NoneLeft == LeftBehind = {}
<1>1. IInv /\ NoneLeft /\ [Next]_vars => NoneLeft'
  <2>1. ~Unanswered
    BY DEF Unanswered, Fault
  <2>2. QED
    BY <2>1, LeftStep
<1>2. QED
  BY <1>1, InitSafe, Invariance, PTL DEF Spec
-----------------------------------------------------------------------------
(***************************************************************************)
(* Nothing settles a job twice: a row that says COMPLETED or FAILED_FINAL  *)
(* is what it stays, with the verdict, the charge and the image it shows.  *)
(***************************************************************************)
SettledIsFinal ==
  [][\A j \in Jobs : job[j].status \in TerminalJobStatuses =>
       UNCHANGED <<job[j], subject[j], reservation[j], author[j]>>]_vars

(***************************************************************************)
(* THEOREM.  Late messages, retries, stale workers, answers lost after the *)
(* commit and a deletion leave a settled optimization or share, its quota  *)
(* and its author alone (_complete, finalize_failure, _mark_retryable).    *)
(***************************************************************************)
THEOREM SettlementIsFinal == Spec => SettledIsFinal
<1>1. IInv /\ [Next]_vars =>
        [\A j \in Jobs : job[j].status \in TerminalJobStatuses =>
           UNCHANGED <<job[j], subject[j], reservation[j], author[j]>>]_vars
  <2> SUFFICES ASSUME IInv, [Next]_vars, NEW i \in Jobs, job[i].status \in TerminalJobStatuses
               PROVE  UNCHANGED <<job[i], subject[i], reservation[i], author[i]>>
    OBVIOUS
  <2>0. TypeOK /\ AllUnderway /\ RowTypes
    BY DEF IInv, TypeOK, RowTypes
  <2>1. CASE RowsKept
    BY <2>1 DEF RowsKept, rows
  <2>2. ASSUME NEW j \in Jobs, RowStep(j)
        PROVE  UNCHANGED <<job[i], subject[i], reservation[i], author[i]>>
    <3>1. job[i].status \notin OpenStatuses
      BY DEF OpenStatuses, TerminalJobStatuses
    <3>2. CASE RowsPurged(j)
      BY <3>2 DEF RowsPurged
    <3>3. job[j].status \in OpenStatuses \/ RowsPurged(j)
      BY <2>2 DEF RowStep, RowsClaimed, RowsRefused, RowsCompleted, RowsFailed, RowsMarked,
                  RowsLapsed, OpenStatuses
    <3>4. CASE i # j
      <4>1. CASE RowsRefused(j) \/ RowsCompleted(j) \/ RowsFailed(j)
        BY <2>0, <3>4, <4>1 DEF RowsRefused, RowsCompleted, RowsFailed, RowTypes, Settled
      <4>2. CASE RowsClaimed(j) \/ RowsMarked(j) \/ RowsLapsed(j)
        BY <2>0, <3>4, <4>2 DEF RowsClaimed, RowsMarked, RowsLapsed, RowTypes
      <4>3. QED
        BY <2>2, <3>2, <4>1, <4>2 DEF RowStep
    <3>5. QED
      BY <3>1, <3>2, <3>3, <3>4
  <2>3. QED
    BY <2>0, <2>1, <2>2, StepRows
<1>2. QED
  BY <1>1, Invariance, PTL DEF Spec, SettledIsFinal
-----------------------------------------------------------------------------
(***************************************************************************)
(* What a deletion leaves in COS.  DeletedLeavesNoImage does not hold: a   *)
(* worker that passed _is_current before the purge still puts its image.   *)
(* Only such a worker does, once, and none becomes one afterwards.         *)
(***************************************************************************)
Late(j) == {w \in Workers : pc[w] = "put" /\ held[w].job = j}

LateImagesOnly ==
  [][\A j \in Jobs : ~HasContext(j) =>
       /\ ~HasContext(j)' /\ Late(j)' \subseteq Late(j)
       /\ \A t \in objects'[j] \ objects[j] : \E w \in Late(j) \ Late(j)' : tok[w] = t]_vars

(***************************************************************************)
(* A worker comes to put only by _is_current, and leaves by its next step. *)
(***************************************************************************)
LEMMA ComesToPut ==
  ASSUME TypeOK, NEW w \in Workers,
         WorkerStep(w) \/ WorkerLost(w) \/ (\E m \in Messages : Deliver(w, m)),
         pc'[w] = "put"
  PROVE  pc[w] # "put" /\ held'[w] = held[w] /\ HasContext(held[w].job)
<1>0. /\ pc \in [Workers -> Steps]
      /\ \A step : Goto(w, step) => pc'[w] = step /\ held' = held
      /\ \A step : pc' = [pc EXCEPT ![w] = step] => pc'[w] = step
      /\ \A step : Goto(w, step) \/ pc' = [pc EXCEPT ![w] = step] => step = "put"
  BY DEF TypeOK, Goto
<1>1. ~WorkerLost(w) /\ ~Ack(w) /\ ~(\E m \in Messages : Deliver(w, m))
  BY <1>0 DEF WorkerLost, LoseWorker, Ack, Acknowledge, Deliver, Take
<1>2. ~PrepareSkip(w) /\ ~PrepareClaim(w) /\ ~PrepareError(w) /\ ~PrepareAckLost(w)
  BY <1>0 DEF PrepareSkip, PrepareClaim, PrepareError, PrepareAckLost, RaiseWithoutToken
<1>3. /\ ~\E next \in {"generate", "missing", "unavailable", "finalize"} : ReadSource(w, next)
      /\ ~\E next \in {"mark", "finalize"} : Giveup(w, next)
  BY <1>0 DEF ReadSource, Giveup
<1>4. ~Generate(w) /\ ~Criticise(w) /\ ~Render(w)
  BY <1>0 DEF Generate, Criticise, Render, NextTurn
<1>5. ~Put(w) /\ ~PutFails(w) /\ ~PutAckLost(w) /\ ~Complete(w) /\ ~OutcomeError(w)
      /\ ~OutcomeAckLost(w)
  BY <1>0 DEF Put, PutFails, PutAckLost, Complete, OutcomeError, OutcomeAckLost
<1>6. ~SourceMissing(w) /\ ~SourceUnavailable(w) /\ ~Reject(w) /\ ~Finalize(w)
      /\ ~MarkRetryable(w) /\ ~MarkError(w) /\ ~Exhaust(w) /\ ~FinalizeError(w)
  BY <1>0 DEF SourceMissing, SourceUnavailable, Reject, Finalize, MarkRetryable, MarkError,
              Exhaust, FinalizeError
<1>7. ~Retry(w) /\ ~RetryUnpublished(w)
  BY <1>0 DEF Retry, PublishRetry, RetryUnpublished, LoseRetry, Goto
<1>8. CheckCurrent(w)
  BY <1>1, <1>2, <1>3, <1>4, <1>5, <1>6, <1>7 DEF WorkerStep
<1>9. QED
  BY <1>0, <1>8 DEF CheckCurrent, IsExecuting

LEMMA PutsOwn ==
  ASSUME TypeOK, NEW w \in Workers,
         WorkerStep(w) \/ WorkerLost(w) \/ (\E m \in Messages : Deliver(w, m))
  PROVE  UNCHANGED objects \/ (pc[w] = "put" /\ ObjectPut(w))
<1>1. CASE WorkerLost(w) \/ Ack(w) \/ (\E m \in Messages : Deliver(w, m))
  BY <1>1 DEF WorkerLost, Ack, Deliver, store
<1>2. CASE Put(w) \/ PutAckLost(w)
  BY <1>2 DEF Put, PutAckLost
<1>3. CASE Retry(w) \/ RetryUnpublished(w) \/ Generate(w)
  BY <1>3 DEF Retry, RetryUnpublished, Generate, store
<1>4. CASE Elsewhere
  BY <1>4 DEF Elsewhere, store
<1>5. QED
  BY <1>1, <1>2, <1>3, <1>4 DEF WorkerStep, PrepareSkip, PrepareClaim, ReadSource, SourceMissing,
     SourceUnavailable, PrepareError, PrepareAckLost, Giveup, Render, Criticise, CheckCurrent,
     PutFails, Complete, Reject, OutcomeError, OutcomeAckLost, Finalize, MarkRetryable, MarkError,
     Exhaust, FinalizeError

(***************************************************************************)
(* THEOREM.  After a photo deletion has purged the rows of a job, each     *)
(* image that still comes to COS is that of a worker then between          *)
(* _is_current and put_object, one at most for each (optimization/         *)
(* executor.py, growth/executor.py, governance/deletion_repository.py).    *)
(***************************************************************************)
THEOREM OnlyLateImages == Spec => LateImagesOnly
<1>1. TypeOK /\ [Next]_vars =>
        [\A j \in Jobs : ~HasContext(j) =>
           /\ ~HasContext(j)' /\ Late(j)' \subseteq Late(j)
           /\ \A t \in objects'[j] \ objects[j] : \E w \in Late(j) \ Late(j)' : tok[w] = t]_vars
  <2> SUFFICES ASSUME TypeOK, [Next]_vars, NEW j \in Jobs, ~HasContext(j)
               PROVE  /\ ~HasContext(j)' /\ Late(j)' \subseteq Late(j)
                      /\ \A t \in objects'[j] \ objects[j] :
                           \E w \in Late(j) \ Late(j)' : tok[w] = t
    OBVIOUS
  <2>1. ASSUME NEW w \in Workers,
               WorkerStep(w) \/ WorkerLost(w) \/ (\E m \in Messages : Deliver(w, m))
        PROVE  /\ ~HasContext(j)' /\ Late(j)' \subseteq Late(j)
               /\ \A t \in objects'[j] \ objects[j] :
                    \E v \in Late(j) \ Late(j)' : tok[v] = t
    <3>1. OthersStay(w) /\ UNCHANGED context
      BY <2>1, WorkerStepMoves DEF Moves
    <3>2. pc'[w] = "put" => pc[w] # "put" /\ held'[w] = held[w] /\ HasContext(held[w].job)
      BY <2>1, ComesToPut
    <3>3. w \notin Late(j)'
      BY <3>1, <3>2 DEF Late
    <3>4. Late(j)' \subseteq Late(j)
      BY <3>1, <3>3 DEF Late, OthersStay
    <3>5. ASSUME NEW t \in objects'[j] \ objects[j]
          PROVE  w \in Late(j) /\ tok[w] = t
      BY <2>1, <3>5, PutsOwn DEF ObjectPut, Late, TypeOK
    <3>6. QED
      BY <3>1, <3>3, <3>4, <3>5 DEF HasContext
  <2>2. ASSUME NEW i \in Jobs, Publish(i) \/ LapseLease(i) \/ DeleteObject(i) \/ Purge(i)
        PROVE  ~HasContext(j)' /\ UNCHANGED <<pc, held>> /\ objects'[j] \subseteq objects[j]
    <3>1. CASE Publish(i) \/ LapseLease(i)
      BY <3>1 DEF Publish, SendEvent, LapseLease, rows, store, delivery, procs, HasContext
    <3>2. CASE DeleteObject(i)
      BY <3>2 DEF DeleteObject, rows, delivery, procs, HasContext, TypeOK
    <3>3. CASE Purge(i)
      BY <3>3 DEF Purge, store, procs, HasContext, TypeOK
    <3>4. QED
      BY <2>2, <3>1, <3>2, <3>3
  <2>3. CASE UNCHANGED vars
    BY <2>3 DEF vars, rows, store, delivery, procs, HasContext, Late
  <2>4. QED
    BY <2>1, <2>2, <2>3 DEF Next, Late
<1>2. QED
  BY <1>1, TypeCorrect, PTL DEF Spec, LateImagesOnly
=============================================================================
