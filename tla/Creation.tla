------------------------------ MODULE Creation ------------------------------
(***************************************************************************)
(* Requests that create something at most once: diagnoses, optimizations   *)
(* and shares under an idempotency key (modules/jobs/service.py and the    *)
(* service of each), feedback, and the account behind a WeChat login.      *)
(*                                                                         *)
(* All of them find a row by its unique key, insert one in a savepoint if  *)
(* there is none, and look again when the insert meets a row committed in  *)
(* between.  A transaction is READ COMMITTED: a statement sees what was    *)
(* committed when it began, and an insert waits for the transaction that   *)
(* inserted the same key.  Before that a diagnosis, optimization or share  *)
(* locks what it is made from, after it a diagnosis or optimization locks  *)
(* the quota counter (see Quota).                                          *)
(*                                                                         *)
(* The session commits when the response is on its way                     *)
(* (api/dependencies.py), so an answer may be given and then not kept.     *)
(*                                                                         *)
(* Definitions named Bug_X are plausible mistakes in the definition that   *)
(* follows; the specification never uses them.                             *)
(***************************************************************************)
EXTENDS Naturals, FiniteSets

CONSTANTS Requests,  \* HTTP requests
          Keys,      \* idempotency keys, or subjects of a login
          Sources,   \* what a request is about; the rest of its payload
          Nobody,    \* the creator of a row that is not there
          Endpoints, \* bound: the endpoints looked at
          Limit      \* the quota

AllEndpoints == {"diagnosis", "optimization", "share", "feedback", "login"}

ASSUME CreationAssumption ==
  /\ Nobody \notin Requests /\ Limit \in Nat /\ Endpoints \subseteq AllEndpoints
  /\ IsFiniteSet(Keys)

VARIABLES
  endpoint,  \* the one endpoint all requests go to
  source,    \* per source: "ready" or "gone"
  row,       \* per key: the committed row
  used,      \* committed quota reservations
  wants,     \* per request: its key and source
  pc,        \* per request: next step, or how it ended
  answer,    \* per request: creator of the row its client was told of
  purged     \* an account deletion was completed

creationVars == <<endpoint, source, row, used, wants, pc, answer, purged>>

(***************************************************************************)
(* A row, and whether the record that belongs to it is there: it may be    *)
(* deleted together with its source, or alone.                             *)
(***************************************************************************)
NoRow == [by |-> Nobody]

Rows == [by : Requests, source : Sources, record : {"there", "with_source", "alone"}]

LocksSource == endpoint \in {"diagnosis", "optimization", "share"}

HasRecord == LocksSource

NamesJob == endpoint = "feedback"

TakesQuota == endpoint \in {"diagnosis", "optimization"}

ComparesPayload == endpoint # "login"

(***************************************************************************)
(* The locks of a transaction, by how far it has come.                     *)
(***************************************************************************)
CreatorSteps == {"record", "reserve", "respond", "commit"}

ReaderSteps == {"find", "check_job", "insert", "find_again", "follow",
                "respond_found", "commit_found"}

Active == CreatorSteps \cup ReaderSteps

Bug_NoLock(r, s) == FALSE

HoldsSource(r, s) == LocksSource /\ pc[r] \in Active /\ wants[r].source = s

Bug_NoRollback(r, k) ==
  pc[r] \in CreatorSteps \cup {"QUOTA_EXCEEDED"} /\ wants[r].key = k

HoldsKey(r, k) == pc[r] \in CreatorSteps /\ wants[r].key = k

HoldsCounter(r) == TakesQuota /\ pc[r] \in {"respond", "commit"}

Goto(r, step) == pc' = [pc EXCEPT ![r] = step]
-----------------------------------------------------------------------------
CreationInit ==
  /\ endpoint \in Endpoints
  /\ source = [s \in Sources |-> "ready"]
  /\ row = [k \in Keys |-> NoRow]
  /\ used = 0
  /\ wants \in [Requests -> [key : Keys, source : Sources]]
  /\ pc = [r \in Requests |-> "begin"]
  /\ answer = [r \in Requests |-> Nobody]
  /\ purged = FALSE

Database == UNCHANGED <<endpoint, source, row, used, wants, purged>>

Read == Database /\ UNCHANGED answer

(***************************************************************************)
(* create of the service: the source is read FOR UPDATE and must be there. *)
(***************************************************************************)
BeginRequest(r) ==
  /\ pc[r] = "begin"
  /\ LocksSource => \A q \in Requests : ~HoldsSource(q, wants[r].source)
  /\ Goto(r, IF LocksSource /\ source[wants[r].source] = "gone"
               THEN "NOT_FOUND" ELSE "find")
  /\ Read

(***************************************************************************)
(* find_idempotent, and where it leads.                                    *)
(***************************************************************************)
SamePayload(r) == ComparesPayload => row[wants[r].key].source = wants[r].source

Found(r, absent) ==
  IF row[wants[r].key] = NoRow THEN absent
  ELSE IF ~SamePayload(r) THEN "KEY_REUSED"
  ELSE IF HasRecord THEN "follow" ELSE "respond_found"

Find(r) ==
  /\ pc[r] = "find"
  /\ Goto(r, Found(r, IF NamesJob THEN "check_job" ELSE "insert"))
  /\ Read

(***************************************************************************)
(* Feedback may be about a job: it is looked up, and a foreign key of the  *)
(* row.  An insert that fails, for whatever reason, is taken for a row of  *)
(* the same key.                                                           *)
(***************************************************************************)
OwnedJobExists(r) ==
  /\ pc[r] = "check_job"
  /\ Goto(r, IF source[wants[r].source] = "gone" THEN "NOT_FOUND" ELSE "insert")
  /\ Read

Insertable(r) ==
  /\ row[wants[r].key] = NoRow
  /\ NamesJob => source[wants[r].source] = "ready"

Insert(r) ==
  /\ pc[r] = "insert"
  /\ \A q \in Requests : ~HoldsKey(q, wants[r].key)
  /\ Goto(r, IF ~Insertable(r) THEN "find_again"
             ELSE IF HasRecord THEN "record" ELSE "respond")
  /\ Read

FindAgain(r) ==
  /\ pc[r] = "find_again"
  /\ Goto(r, Found(r, "CREATE_CONFLICT"))
  /\ Read

(***************************************************************************)
(* A job that is reused must have its record.                              *)
(***************************************************************************)
Follow(r) ==
  /\ pc[r] = "follow"
  /\ Goto(r, IF row[wants[r].key].record = "there"
               THEN "respond_found" ELSE "STATE_INCOMPLETE")
  /\ Read

(***************************************************************************)
(* A new job gets its record, then a reservation: the whole request fails  *)
(* when the quota is used up.                                              *)
(***************************************************************************)
CreateRecord(r) ==
  /\ pc[r] = "record"
  /\ Goto(r, IF TakesQuota THEN "reserve" ELSE "respond")
  /\ Read

Reserve(r) ==
  /\ pc[r] = "reserve"
  /\ \A q \in Requests : ~HoldsCounter(q)
  /\ Goto(r, IF used < Limit THEN "respond" ELSE "QUOTA_EXCEEDED")
  /\ Read

Respond(r) ==
  /\ \/ /\ pc[r] = "respond"
        /\ answer' = [answer EXCEPT ![r] = r]
        /\ Goto(r, "commit")
     \/ /\ pc[r] = "respond_found"
        /\ answer' = [answer EXCEPT ![r] = row[wants[r].key].by]
        /\ Goto(r, "commit_found")
  /\ Database

(***************************************************************************)
(* The session commits, or rolls back.                                     *)
(***************************************************************************)
Bug_ReserveAgain(r) == TakesQuota

Reserves(r) == TakesQuota /\ pc[r] = "commit"

CommitRequest(r) ==
  /\ pc[r] \in {"commit", "commit_found"}
  /\ row' = IF pc[r] = "commit"
              THEN [row EXCEPT ![wants[r].key] =
                      [by |-> r, source |-> wants[r].source, record |-> "there"]]
              ELSE row
  /\ used' = IF Reserves(r) THEN used + 1 ELSE used
  /\ Goto(r, "done")
  /\ UNCHANGED <<endpoint, source, wants, answer, purged>>

FailRequest(r) ==
  /\ pc[r] \in Active
  /\ Goto(r, "failed")
  /\ Read
-----------------------------------------------------------------------------
(***************************************************************************)
(* Deletions that commit meanwhile.  A deletion of the source takes its    *)
(* lock and every record made from it; jobs and reservations stay.  An     *)
(* optimized image or a card may be deleted alone, and its record with it. *)
(***************************************************************************)
DeleteSource(s) ==
  /\ LocksSource
  /\ source[s] = "ready"
  /\ \A r \in Requests : ~HoldsSource(r, s)
  /\ source' = [source EXCEPT ![s] = "gone"]
  /\ row' = [k \in Keys |->
               IF row[k] # NoRow /\ row[k].source = s /\ row[k].record = "there"
                 THEN [row[k] EXCEPT !.record = "with_source"] ELSE row[k]]
  /\ UNCHANGED <<endpoint, used, wants, pc, answer, purged>>

DeleteResult(k) ==
  /\ endpoint \in {"optimization", "share"}
  /\ row[k] # NoRow /\ row[k].record = "there"
  /\ row' = [row EXCEPT ![k].record = "alone"]
  /\ UNCHANGED <<endpoint, source, used, wants, pc, answer, purged>>

(***************************************************************************)
(* purge_account takes photos, jobs, counters and the identity, and leaves *)
(* feedback.  Rows of its user that are being inserted hold his row by     *)
(* their foreign key; a login inserts a new user.                          *)
(***************************************************************************)
PurgeAccount ==
  /\ ~purged
  /\ \A r \in Requests : endpoint # "login" => pc[r] \notin CreatorSteps
  /\ \A r \in Requests, s \in Sources : ~HoldsSource(r, s)
  /\ purged' = TRUE
  /\ source' = [s \in Sources |-> "gone"]
  /\ row' = IF NamesJob THEN row ELSE [k \in Keys |-> NoRow]
  /\ used' = 0
  /\ UNCHANGED <<endpoint, wants, pc, answer>>
-----------------------------------------------------------------------------
Step(r) ==
  \/ BeginRequest(r)
  \/ Find(r)
  \/ OwnedJobExists(r)
  \/ Insert(r)
  \/ FindAgain(r)
  \/ Follow(r)
  \/ CreateRecord(r)
  \/ Reserve(r)
  \/ Respond(r)
  \/ CommitRequest(r)

CreationNext ==
  \/ \E r \in Requests : Step(r) \/ FailRequest(r)
  \/ \E s \in Sources : DeleteSource(s)
  \/ \E k \in Keys : DeleteResult(k)
  \/ PurgeAccount

CreationSpec == CreationInit /\ [][CreationNext]_creationVars

(***************************************************************************)
(* A request under way goes on when the locks let it.                      *)
(***************************************************************************)
CreationFairness == \A r \in Requests : WF_creationVars(Step(r))
-----------------------------------------------------------------------------
Refusals == {"NOT_FOUND", "KEY_REUSED", "CREATE_CONFLICT", "STATE_INCOMPLETE", "QUOTA_EXCEEDED"}

CreationTypeOK ==
  /\ endpoint \in Endpoints
  /\ source \in [Sources -> {"ready", "gone"}]
  /\ row \in [Keys -> Rows \cup {NoRow}]
  /\ used \in Nat
  /\ wants \in [Requests -> [key : Keys, source : Sources]]
  /\ pc \in [Requests -> Active \cup Refusals \cup {"begin", "done", "failed"}]
  /\ answer \in [Requests -> Requests \cup {Nobody}]
  /\ purged \in BOOLEAN

Created == {k \in Keys : row[k] # NoRow}

(***************************************************************************)
(* DIA-002: until the account is deleted, requests with one key that went  *)
(* through were answered with the same row, for the same payload, and the  *)
(* key took one reservation.                                               *)
(***************************************************************************)
CreatedOnce ==
  ~purged =>
    /\ \A r \in Requests : pc[r] = "done" =>
         /\ row[wants[r].key].by = answer[r]
         /\ ComparesPayload => row[wants[r].key].source = wants[r].source
    /\ used = IF TakesQuota THEN Cardinality(Created) ELSE 0

(***************************************************************************)
(* Until then a retried request is never told that its row vanished, and   *)
(* that its job has no record only if the user deleted just the result:    *)
(* never while its source is being deleted, in whatever order the two go.  *)
(***************************************************************************)
NeverIncomplete ==
  ~purged => \A r \in Requests :
    /\ pc[r] # "CREATE_CONFLICT"
    /\ pc[r] = "STATE_INCOMPLETE" => row[wants[r].key].record = "alone"

(***************************************************************************)
(* Whatever locks the requests wait for, each of them ends.                *)
(***************************************************************************)
RequestsEnd == \A r \in Requests : <>(pc[r] \notin Active \cup {"begin"})
=============================================================================
