------------------------- MODULE JobExecutionProofs -------------------------
(***************************************************************************)
(* Lemmas for the theorems about each executor: what the compositions of   *)
(* transition_job that the executors make do to a row, and which events,   *)
(* messages and workers carry an open job on.                              *)
(***************************************************************************)
EXTENDS JobExecution, FiniteSets, FiniteSetTheorems, TLAPS

OpenStatuses == {"PENDING", "PROCESSING", "FAILED_RETRYABLE"}

LEMMA LegalMoves ==
  ASSUME NEW row
  PROVE  /\ row.status \in {"PENDING", "FAILED_RETRYABLE"} =>
              Transition(row, "QUEUED") = Moved(row, "QUEUED")
         /\ row.status = "QUEUED" =>
              Transition(row, "PROCESSING") = Moved(row, "PROCESSING")
         /\ row.status = "PROCESSING" =>
              /\ Transition(row, "QUALITY_CHECKING") = Moved(row, "QUALITY_CHECKING")
              /\ Transition(row, "FAILED_RETRYABLE") = Moved(row, "FAILED_RETRYABLE")
         /\ row.status = "QUALITY_CHECKING" =>
              Transition(row, "COMPLETED") = Moved(row, "COMPLETED")
         /\ row.status \in {"QUEUED", "PROCESSING", "FAILED_RETRYABLE"} =>
              Transition(row, "FAILED_FINAL") = Moved(row, "FAILED_FINAL")
<1>1. /\ AllowedTransitions["PENDING"] = {"QUEUED", "CANCELLED"}
      /\ AllowedTransitions["QUEUED"] = {"PROCESSING", "FAILED_RETRYABLE",
             "FAILED_FINAL", "TIMED_OUT", "CANCELLED"}
      /\ AllowedTransitions["PROCESSING"] = {"QUALITY_CHECKING", "COMPLETED",
             "FAILED_RETRYABLE", "FAILED_FINAL", "TIMED_OUT"}
      /\ AllowedTransitions["QUALITY_CHECKING"] = {"COMPLETED",
             "FAILED_RETRYABLE", "FAILED_FINAL", "TIMED_OUT"}
      /\ AllowedTransitions["FAILED_RETRYABLE"] = {"QUEUED", "FAILED_FINAL",
             "CANCELLED"}
  BY DEF AllowedTransitions
<1>2. QED
  BY <1>1, Zenon DEF Transition, MayTransition, JobStatuses

LEMMA ClaimedRow ==
  ASSUME NEW row \in JobRows, row.status \in OpenStatuses, NEW t \in Nat
  PROVE  Claimed(row, t) =
           [status |-> "PROCESSING",
            retry_count |-> IF row.status = "PENDING" THEN row.retry_count
                                                      ELSE row.retry_count + 1,
            token |-> t, lease |-> "live"]
<1> DEFINE at(s, n) == [status |-> s, retry_count |-> n, token |-> row.token,
                        lease |-> row.lease]
<1>1. row = at(row.status, row.retry_count)
  BY DEF JobRows
<1>2. CASE row.status = "PENDING"
  <2>1. Transition(row, "QUEUED") = at("QUEUED", row.retry_count)
    BY <1>2, LegalMoves DEF Moved, TerminalJobStatuses
  <2>2. Transition(at("QUEUED", row.retry_count), "PROCESSING")
          = at("PROCESSING", row.retry_count)
    BY LegalMoves DEF Moved, TerminalJobStatuses
  <2>3. Claimed(row, t) = [at("PROCESSING", row.retry_count) EXCEPT
                             !.token = t, !.lease = "live"]
    BY <1>2, <2>1, <2>2 DEF Claimed, RunningJobStatuses
  <2>4. QED
    BY <1>2, <2>3
<1>3. Transition(at("FAILED_RETRYABLE", row.retry_count), "QUEUED")
        = at("QUEUED", row.retry_count + 1)
  BY LegalMoves DEF Moved, TerminalJobStatuses
<1>4. Transition(at("QUEUED", row.retry_count + 1), "PROCESSING")
        = at("PROCESSING", row.retry_count + 1)
  BY LegalMoves DEF Moved, TerminalJobStatuses
<1>5. CASE row.status = "PROCESSING"
  <2>1. Transition(row, "FAILED_RETRYABLE") = at("FAILED_RETRYABLE", row.retry_count)
    BY <1>5, LegalMoves DEF Moved, TerminalJobStatuses
  <2>2. row.status \in RunningJobStatuses
    BY <1>5 DEF RunningJobStatuses
  <2>3. at("FAILED_RETRYABLE", row.retry_count).status = "FAILED_RETRYABLE"
    OBVIOUS
  <2>4. Claimed(row, t) = [at("PROCESSING", row.retry_count + 1) EXCEPT
                             !.token = t, !.lease = "live"]
    BY <1>3, <1>4, <2>1, <2>2, <2>3, Zenon DEF Claimed
  <2>5. QED
    BY <1>5, <2>4
<1>6. CASE row.status = "FAILED_RETRYABLE"
  <2>1. row = at("FAILED_RETRYABLE", row.retry_count)
    BY <1>6, <1>1
  <2>2. Transition(row, "QUEUED") = at("QUEUED", row.retry_count + 1)
    BY <2>1, <1>3
  <2>3. Claimed(row, t) = [at("PROCESSING", row.retry_count + 1) EXCEPT
                             !.token = t, !.lease = "live"]
    BY <1>6, <1>4, <2>2 DEF Claimed, RunningJobStatuses
  <2>4. QED
    BY <1>6, <2>3
<1>7. QED
  BY <1>2, <1>5, <1>6 DEF OpenStatuses

LEMMA RetryableRow ==
  ASSUME NEW row \in JobRows, row.status = "PROCESSING"
  PROVE  Transition(row, "FAILED_RETRYABLE") =
           [status |-> "FAILED_RETRYABLE", retry_count |-> row.retry_count,
            token |-> row.token, lease |-> row.lease]
BY LegalMoves DEF Moved, JobRows, TerminalJobStatuses

LEMMA CompletedRow ==
  ASSUME NEW row \in JobRows, row.status = "PROCESSING"
  PROVE  Completed(row) =
           [status |-> "COMPLETED", retry_count |-> row.retry_count,
            token |-> NoToken, lease |-> "none"]
<1>1. Transition(row, "QUALITY_CHECKING") =
        [status |-> "QUALITY_CHECKING", retry_count |-> row.retry_count,
         token |-> row.token, lease |-> row.lease]
  BY LegalMoves DEF Moved, TerminalJobStatuses
<1>2. QED
  BY <1>1, LegalMoves DEF Completed, Moved, TerminalJobStatuses

LEMMA FailedRow ==
  ASSUME NEW row \in JobRows, row.status \in OpenStatuses
  PROVE  FailedFinal(row) =
           [status |-> "FAILED_FINAL", retry_count |-> row.retry_count,
            token |-> NoToken, lease |-> "none"]
<1>1. CASE row.status = "PENDING"
  <2>1. Transition(row, "QUEUED") =
          [status |-> "QUEUED", retry_count |-> row.retry_count,
           token |-> row.token, lease |-> row.lease]
    BY <1>1, LegalMoves DEF FailedFinal, Moved, TerminalJobStatuses
  <2>2. QED
    BY <1>1, <2>1, LegalMoves DEF FailedFinal, Moved, TerminalJobStatuses
<1>2. CASE row.status # "PENDING"
  BY <1>2, LegalMoves DEF FailedFinal, Moved, OpenStatuses, TerminalJobStatuses
<1>3. QED
  BY <1>1, <1>2

-----------------------------------------------------------------------------
(***************************************************************************)
(* Jobs left behind.  A job with status s and token t on its row is        *)
(* carried on: one that runs by the worker that holds its token, any other *)
(* by its event, by a message, or by a worker that has yet to claim it or  *)
(* holds an error it may finalize.                                         *)
(***************************************************************************)
QueuedFor(j) == \E m \in Messages : m.job = j /\ queue[m] > 0

Owns(w, j, t) ==
  /\ pc[w] \notin {"idle", "prepare", "raised", "ack"}
  /\ held[w].job = j
  /\ tok[w] = t

Pursues(w, j, t) ==
  /\ pc[w] \in {"prepare", "raised"}
  /\ held[w].job = j
  /\ tok[w] \in {NoToken, t}

CarriedOn(j, s, t) ==
  /\ s = "PROCESSING" => \E w \in Workers : Owns(w, j, t)
  /\ s = "FAILED_RETRYABLE" => QueuedFor(j) \/ \E w \in Workers : Pursues(w, j, t)
  /\ s = "PENDING" => published[j] = 0 \/ QueuedFor(j) \/ \E w \in Workers : Pursues(w, j, t)

OthersStay(w) ==
  \A v \in Workers \ {w} : pc'[v] = pc[v] /\ held'[v] = held[v] /\ tok'[v] = tok[v]

(***************************************************************************)
(* A step of w that leaves the row of j alone keeps j carried on unless w  *)
(* carried it and lets it go.                                              *)
(***************************************************************************)
LEMMA StillCarried ==
  ASSUME NEW w \in Workers, NEW j, NEW s, NEW t, CarriedOn(j, s, t), OthersStay(w),
         published'[j] = published[j], QueuedFor(j) => QueuedFor(j)',
         s = "PROCESSING" /\ Owns(w, j, t) => Owns(w, j, t)',
         s \in {"PENDING", "FAILED_RETRYABLE"} /\ Pursues(w, j, t) =>
           QueuedFor(j)' \/ Pursues(w, j, t)'
  PROVE  CarriedOn(j, s, t)'
<1>1. \A v \in Workers \ {w} :
        (Owns(v, j, t) => Owns(v, j, t)') /\ (Pursues(v, j, t) => Pursues(v, j, t)')
  BY DEF OthersStay, Owns, Pursues
<1>2. CASE s = "PROCESSING"
  <2>1. PICK v \in Workers : Owns(v, j, t)
    BY <1>2 DEF CarriedOn
  <2>2. Owns(v, j, t)'
    BY <1>1, <1>2, <2>1
  <2>3. QED
    BY <1>2, <2>2 DEF CarriedOn
<1>3. CASE s \in {"PENDING", "FAILED_RETRYABLE"}
  <2>1. CASE \E v \in Workers : Pursues(v, j, t)
    <3>1. PICK v \in Workers : Pursues(v, j, t)
      BY <2>1
    <3>2. QueuedFor(j)' \/ Pursues(v, j, t)'
      BY <1>1, <1>3, <3>1
    <3>3. QED
      BY <1>3, <3>2 DEF CarriedOn
  <2>2. CASE ~\E v \in Workers : Pursues(v, j, t)
    BY <1>3, <2>2 DEF CarriedOn
  <2>3. QED
    BY <2>1, <2>2
<1>4. QED
  BY <1>2, <1>3 DEF CarriedOn

(***************************************************************************)
(* A new event or retry of i: queue only grows, and i is queued.           *)
(***************************************************************************)
LEMMA Enqueues ==
  ASSUME queue \in [Messages -> Nat], NEW m \in Messages, queue' = [queue EXCEPT ![m] = @ + 1]
  PROVE  QueuedFor(m.job)' /\ \A j : QueuedFor(j) => QueuedFor(j)'
<1>1. \A n \in Messages : queue'[n] \in Nat /\ queue'[n] >= queue[n]
  OBVIOUS
<1>2. queue'[m] > 0
  OBVIOUS
<1>3. QED
  BY <1>1, <1>2 DEF QueuedFor

LEMMA Dequeues ==
  ASSUME queue \in [Messages -> Nat], NEW m \in Messages, queue' = [queue EXCEPT ![m] = @ - 1]
  PROVE  \A j : j # m.job /\ QueuedFor(j) => QueuedFor(j)'
BY DEF QueuedFor

(***************************************************************************)
(* Each step loses at most one job, and only by a fault: then no more jobs *)
(* are lost than there were faults.                                        *)
(***************************************************************************)
LEMMA OnePerFault ==
  ASSUME NEW L, NEW K, NEW n \in Nat, NEW k \in Nat, IsFiniteSet(L), Cardinality(L) <= n,
         \/ K \subseteq L /\ k >= n
         \/ k = n + 1 /\ \E i : K \subseteq L \cup {i}
  PROVE  IsFiniteSet(K) /\ Cardinality(K) <= k
<1>1. Cardinality(L) \in Nat
  BY FS_CardinalityType
<1>2. CASE K \subseteq L /\ k >= n
  <2>1. IsFiniteSet(K) /\ Cardinality(K) <= Cardinality(L) /\ Cardinality(K) \in Nat
    BY <1>2, FS_Subset, FS_CardinalityType
  <2>2. QED
    BY <1>1, <1>2, <2>1
<1>3. ASSUME k = n + 1, NEW i, K \subseteq L \cup {i}
      PROVE  IsFiniteSet(K) /\ Cardinality(K) <= k
  <2>1. /\ IsFiniteSet(L \cup {i})
        /\ Cardinality(L \cup {i}) = IF i \in L THEN Cardinality(L) ELSE Cardinality(L) + 1
    BY FS_AddElement
  <2>2. IsFiniteSet(K) /\ Cardinality(K) <= Cardinality(L \cup {i}) /\ Cardinality(K) \in Nat
    BY <1>3, <2>1, FS_Subset, FS_CardinalityType
  <2>3. QED
    BY <1>1, <1>3, <2>1, <2>2
<1>4. QED
  BY <1>2, <1>3
=============================================================================
