-------------------------- MODULE JobStateMachine --------------------------
(***************************************************************************)
(* The generation-job row and the one function that changes its status,    *)
(* transition_job (modules/jobs/state_machine.py).  Every executor and the *)
(* deletion flow move a job through this function only.                    *)
(*                                                                         *)
(* A row keeps the fields that control what happens next.  Timestamps,     *)
(* progress and the error texts are left out: nothing reads them to        *)
(* decide.                                                                 *)
(***************************************************************************)
EXTENDS Naturals

JobStatuses ==
  {"PENDING", "QUEUED", "PROCESSING", "QUALITY_CHECKING", "COMPLETED",
   "FAILED_RETRYABLE", "FAILED_FINAL", "TIMED_OUT", "CANCELLED"}

TerminalJobStatuses == {"COMPLETED", "FAILED_FINAL", "TIMED_OUT", "CANCELLED"}

RunningJobStatuses == {"PROCESSING", "QUALITY_CHECKING"}

(***************************************************************************)
(* ALLOWED_JOB_TRANSITIONS: the targets transition_job accepts.            *)
(***************************************************************************)
AllowedTransitions ==
  [PENDING          |-> {"QUEUED", "CANCELLED"},
   QUEUED           |-> {"PROCESSING", "FAILED_RETRYABLE", "FAILED_FINAL",
                         "TIMED_OUT", "CANCELLED"},
   PROCESSING       |-> {"QUALITY_CHECKING", "COMPLETED", "FAILED_RETRYABLE",
                         "FAILED_FINAL", "TIMED_OUT"},
   QUALITY_CHECKING |-> {"COMPLETED", "FAILED_RETRYABLE", "FAILED_FINAL",
                         "TIMED_OUT"},
   COMPLETED        |-> {},
   FAILED_RETRYABLE |-> {"QUEUED", "FAILED_FINAL", "CANCELLED"},
   FAILED_FINAL     |-> {},
   TIMED_OUT        |-> {},
   CANCELLED        |-> {}]

(***************************************************************************)
(* An execution token is a uuid4; here it is the number of the claim that  *)
(* drew it, so tokens are fresh, and 0 stands for the NULL column.         *)
(***************************************************************************)
NoToken == 0

Leases == {"none", "live", "lapsed"}

JobRows == [status : JobStatuses, retry_count : Nat, token : Nat, lease : Leases]

NewJob == [status |-> "PENDING", retry_count |-> 0,
           token |-> NoToken, lease |-> "none"]

(***************************************************************************)
(* transition_job on a row.  Where the code raises                         *)
(* InvalidJobTransitionError the result has the status "ILLEGAL", which no *)
(* row may take: that the executors never get there is for their type      *)
(* invariants to show.                                                     *)
(***************************************************************************)
MayTransition(row, target) ==
  row.status \in JobStatuses /\ target \in AllowedTransitions[row.status]

Moved(row, target) ==
  [status      |-> target,
   retry_count |-> IF target = "QUEUED" /\ row.status = "FAILED_RETRYABLE"
                     THEN row.retry_count + 1 ELSE row.retry_count,
   token       |-> IF target \in TerminalJobStatuses THEN NoToken ELSE row.token,
   lease       |-> IF target \in TerminalJobStatuses THEN "none" ELSE row.lease]

Transition(row, target) ==
  IF MayTransition(row, target) THEN Moved(row, target)
                                ELSE [row EXCEPT !.status = "ILLEGAL"]

(***************************************************************************)
(* The lease test every executor repeats: a running job whose lease is in  *)
(* the future belongs to somebody else.                                    *)
(***************************************************************************)
LeaseHolds(row) == row.status \in RunningJobStatuses /\ row.lease = "live"
=============================================================================
