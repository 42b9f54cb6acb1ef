------------------------------- MODULE Outbox -------------------------------
(***************************************************************************)
(* The transactional outbox (modules/events): API transactions commit      *)
(* events, and dispatch_outbox tasks, of which several may run at once,    *)
(* claim batches of them, send each to the broker and record the outcome.  *)
(*                                                                         *)
(* Claiming and each recording are transactions of their own; nothing is   *)
(* locked while a batch is being sent.  Time is abstracted to two facts    *)
(* that it makes true: a claim outlives its lock timeout, and a failed     *)
(* event's retry delay passes.  The former may happen while the claiming   *)
(* dispatcher is still at work.                                            *)
(*                                                                         *)
(* Definitions named Bug_X are plausible mistakes in the definition that   *)
(* follows; the specification never uses them.                             *)
(***************************************************************************)
EXTENDS Naturals, FiniteSets

CONSTANTS NumEvents,     \* events, numbered by created_at
          Dispatchers,   \* dispatch_outbox tasks that may run at once
          BatchSize,     \* outbox_batch_size
          MaxFailures,   \* bound: sends that raise
          MaxCrashes     \* bound: dispatchers that end in mid batch

ASSUME OutboxAssumption ==
  /\ NumEvents \in Nat
  /\ BatchSize \in Nat \ {0}
  /\ MaxFailures \in Nat /\ MaxCrashes \in Nat
  /\ IsFiniteSet(Dispatchers)

Events == 1 .. NumEvents

VARIABLES
  status,     \* outbox_events.status, "NONE" before the event is committed
  attempts,   \* outbox_events.attempt_count
  delayed,    \* next_retry_at is still to come
  stale,      \* locked_at is older than the lock timeout
  batch,      \* per dispatcher: the claimed events it has not sent yet
  current,    \* per dispatcher: the event it tried to send, else 0
  outcome,    \* per dispatcher: what became of that
  sent,       \* messages the broker took, per event
  expiries,   \* history: claims that outlived their lock, per event
  failures, crashes

rows == <<status, attempts, delayed, stale>>
history == <<sent, expiries, failures, crashes>>
tasks == <<batch, current, outcome>>
vars == <<rows, tasks, history>>

Init ==
  /\ status = [e \in Events |-> "NONE"]
  /\ attempts = [e \in Events |-> 0]
  /\ delayed = [e \in Events |-> FALSE]
  /\ stale = [e \in Events |-> FALSE]
  /\ batch = [d \in Dispatchers |-> {}]
  /\ current = [d \in Dispatchers |-> 0]
  /\ outcome = [d \in Dispatchers |-> "none"]
  /\ sent = [e \in Events |-> 0]
  /\ expiries = [e \in Events |-> 0]
  /\ failures = 0
  /\ crashes = 0

(***************************************************************************)
(* A job and its event are committed together.  Transactions may commit in *)
(* another order than they stamped created_at.                             *)
(***************************************************************************)
Create(e) ==
  /\ status[e] = "NONE"
  /\ status' = [status EXCEPT ![e] = "PENDING"]
  /\ UNCHANGED <<attempts, delayed, stale, tasks, history>>
-----------------------------------------------------------------------------
(***************************************************************************)
(* claim_batch.  SKIP LOCKED keeps two claims apart, so a claim is one     *)
(* step.                                                                   *)
(***************************************************************************)
Bug_IgnoreLock(e) ==
  \/ status[e] \in {"PENDING", "PROCESSING"}
  \/ status[e] = "FAILED" /\ ~delayed[e]

Bug_ForgetStale(e) ==
  status[e] = "PENDING" \/ (status[e] = "FAILED" /\ ~delayed[e])

Bug_IgnoreDelay(e) ==
  \/ status[e] \in {"PENDING", "FAILED"}
  \/ status[e] = "PROCESSING" /\ stale[e]

Due(e) ==
  \/ status[e] = "PENDING"
  \/ status[e] = "FAILED" /\ ~delayed[e]
  \/ status[e] = "PROCESSING" /\ stale[e]

Oldest(S, n) == {e \in S : Cardinality({f \in S : f < e}) < n}

Claim(d) ==
  LET claimed == Oldest({e \in Events : Due(e)}, BatchSize) IN
  /\ batch[d] = {} /\ current[d] = 0 /\ claimed # {}
  /\ batch' = [batch EXCEPT ![d] = claimed]
  /\ status' = [e \in Events |-> IF e \in claimed THEN "PROCESSING" ELSE status[e]]
  /\ stale' = [e \in Events |-> stale[e] /\ e \notin claimed]
  /\ UNCHANGED <<attempts, delayed, current, outcome, history>>

(***************************************************************************)
(* Events claimed together expire together.  One that has expired and one  *)
(* that has not behave alike until the next claim takes it, so each may    *)
(* expire by itself here.                                                  *)
(***************************************************************************)
LockExpires(e) ==
  /\ status[e] = "PROCESSING" /\ ~stale[e]
  /\ stale' = [stale EXCEPT ![e] = TRUE]
  /\ expiries' = [expiries EXCEPT ![e] = @ + 1]
  /\ UNCHANGED <<status, attempts, delayed, tasks, sent, failures, crashes>>

RetryDue(e) ==
  /\ delayed[e]
  /\ delayed' = [delayed EXCEPT ![e] = FALSE]
  /\ UNCHANGED <<status, attempts, stale, tasks, history>>
-----------------------------------------------------------------------------
(***************************************************************************)
(* _publish_one for the events of a batch, one after the other.  What the  *)
(* row says by now is not looked at.                                       *)
(***************************************************************************)
Take(d, e, result) ==
  /\ current[d] = 0
  /\ e \in batch[d] /\ \A f \in batch[d] : e <= f
  /\ batch' = [batch EXCEPT ![d] = @ \ {e}]
  /\ current' = [current EXCEPT ![d] = e]
  /\ outcome' = [outcome EXCEPT ![d] = result]

Send(d, e) ==
  /\ Take(d, e, "published")
  /\ sent' = [sent EXCEPT ![e] = @ + 1]
  /\ UNCHANGED <<rows, expiries, failures, crashes>>

(***************************************************************************)
(* send_task raises, before or after the broker took the message.          *)
(***************************************************************************)
SendFails(d, e) ==
  /\ failures < MaxFailures
  /\ failures' = failures + 1
  /\ Take(d, e, "failed")
  /\ \E taken \in {0, 1} : sent' = [sent EXCEPT ![e] = @ + taken]
  /\ UNCHANGED <<rows, expiries, crashes>>

Record(d) ==
  /\ current' = [current EXCEPT ![d] = 0]
  /\ outcome' = [outcome EXCEPT ![d] = "none"]
  /\ stale' = [stale EXCEPT ![current[d]] = FALSE]
  /\ UNCHANGED <<batch, history>>

Bug_NoReturn(d) == outcome[d] \in {"published", "failed"}

Succeeded(d) == outcome[d] = "published"

MarkPublished(d) ==
  /\ Succeeded(d)
  /\ status' = [status EXCEPT ![current[d]] = "PUBLISHED"]
  /\ delayed' = [delayed EXCEPT ![current[d]] = FALSE]
  /\ Record(d)
  /\ UNCHANGED attempts

MarkFailed(d) ==
  /\ outcome[d] = "failed"
  /\ status' = [status EXCEPT ![current[d]] = "FAILED"]
  /\ delayed' = [delayed EXCEPT ![current[d]] = TRUE]
  /\ attempts' = [attempts EXCEPT ![current[d]] = @ + 1]
  /\ Record(d)

(***************************************************************************)
(* The task dies, or recording raises and dispatch_once gives up the rest  *)
(* of its batch.                                                           *)
(***************************************************************************)
Crash(d) ==
  /\ batch[d] # {} \/ current[d] # 0
  /\ crashes < MaxCrashes
  /\ crashes' = crashes + 1
  /\ batch' = [batch EXCEPT ![d] = {}]
  /\ current' = [current EXCEPT ![d] = 0]
  /\ outcome' = [outcome EXCEPT ![d] = "none"]
  /\ UNCHANGED <<rows, sent, expiries, failures>>
-----------------------------------------------------------------------------
Dispatch(d) == (\E e \in Events : Send(d, e)) \/ MarkPublished(d) \/ MarkFailed(d)

Next ==
  \/ \E e \in Events : Create(e) \/ LockExpires(e) \/ RetryDue(e)
  \/ \E d \in Dispatchers : \/ Claim(d) \/ Dispatch(d) \/ Crash(d)
                            \/ \E e \in Events : SendFails(d, e)

Spec == Init /\ [][Next]_vars

(***************************************************************************)
(* Beat starts a dispatcher every few seconds, a running one goes on, and  *)
(* time passes.  Nothing says that a send succeeds except the bound on the *)
(* failures.                                                               *)
(***************************************************************************)
FairSpec ==
  /\ Spec
  /\ WF_vars(\E d \in Dispatchers : Claim(d))
  /\ \A d \in Dispatchers : WF_vars(Dispatch(d))
  /\ \A e \in Events : WF_vars(LockExpires(e)) /\ WF_vars(RetryDue(e))
-----------------------------------------------------------------------------
TypeOK ==
  /\ status \in [Events -> {"NONE", "PENDING", "PROCESSING", "PUBLISHED", "FAILED"}]
  /\ attempts \in [Events -> Nat]
  /\ delayed \in [Events -> BOOLEAN] /\ stale \in [Events -> BOOLEAN]
  /\ \A e \in Events : /\ delayed[e] => status[e] = "FAILED"
                       /\ stale[e] => status[e] = "PROCESSING"
  /\ batch \in [Dispatchers -> SUBSET Events]
  /\ current \in [Dispatchers -> Events \cup {0}]
  /\ outcome \in [Dispatchers -> {"none", "published", "failed"}]
  /\ \A d \in Dispatchers : current[d] = 0 <=> outcome[d] = "none"
  /\ sent \in [Events -> Nat] /\ expiries \in [Events -> Nat]
  /\ failures \in Nat /\ crashes \in Nat

(***************************************************************************)
(* An event the table calls PUBLISHED has reached the broker, whichever    *)
(* dispatcher recorded it and whoever crashed in between.                  *)
(***************************************************************************)
PublishedWasSent == \A e \in Events : status[e] = "PUBLISHED" => sent[e] > 0

(***************************************************************************)
(* A job's message is sent again only after a recorded failure or a claim  *)
(* that outlived its lock; dispatchers that merely run at once never       *)
(* duplicate it.                                                           *)
(***************************************************************************)
DuplicatesExplained == \A e \in Events : sent[e] <= 1 + attempts[e] + expiries[e]

(***************************************************************************)
(* No event is lost: once the failures are over, every committed event is  *)
(* published and stays so.                                                 *)
(***************************************************************************)
EveryEventPublished ==
  \A e \in Events : status[e] # "NONE" ~> [](status[e] = "PUBLISHED")

(***************************************************************************)
(* docs/02 section 7 and docs/03 section 18 give the states PENDING ->     *)
(* PROCESSING -> PUBLISHED / FAILED: nothing leaves PUBLISHED.             *)
(***************************************************************************)
PublishedIsFinal ==
  [][\A e \in Events : status[e] = "PUBLISHED" => status'[e] = "PUBLISHED"]_vars
=============================================================================
