----------------------------- MODULE MiniProgram -----------------------------
(***************************************************************************)
(* What the mini program remembers of the jobs it asks for: the stores of  *)
(* diagnoses, optimizations and shares (miniapp/src/stores), which create  *)
(* alike, and the list of tracked jobs.  A request carries an idempotency  *)
(* key that is kept, also in the phone's storage, until an answer comes.   *)
(* Taps overlap while they log in; requests and answers get lost; the      *)
(* program is killed; the server commits after it answered (get_session of *)
(* the backend) and later may delete the job.                              *)
(*                                                                         *)
(* A job has the number of the key that created it (one key, one job: see  *)
(* Creation).  The lists are cut to their newest 20 entries; MaxKeys stays *)
(* below that.  Polled statuses decide nothing here.                       *)
(*                                                                         *)
(* Definitions named Bug_X are plausible mistakes in the definition that   *)
(* follows; the specification never uses them.                             *)
(***************************************************************************)
EXTENDS Naturals

CONSTANTS Taps,        \* taps on a button that creates
          Subjects,    \* what can be asked for: a photo with an occasion, ...
          NoRequest,   \* nothing pending
          MaxKeys,     \* bound on the keys drawn
          MaxRestarts  \* bound on how often the program is killed

ASSUME MiniAssumption ==
  /\ MaxKeys \in 0 .. 20 /\ MaxRestarts \in Nat
  /\ \A s \in Subjects, k \in 1 .. MaxKeys : NoRequest # [subject |-> s, key |-> k]

VARIABLES
  pendingRequest,  \* the request without an answer: its subject and key
  trackedJobIds,   \* jobs in the task list
  activeId,        \* the job last shown, 0 if none
  storage,         \* the three above, as the phone has stored them
  submitting,      \* a creation is being sent
  tap,             \* per tap: its step, and the key it sent
  missing,         \* jobs a poll was told do not exist
  keysDrawn,       \* number of keys drawn
  onTheWay,        \* requests, by key, that may still reach the server
  answered,        \* keys the server has answered with a job
  jobRow,          \* per key: the job on the server
  restarts,        \* number of restarts so far
  forsaken         \* keys the program dropped although a job may have them

memory == <<pendingRequest, trackedJobIds, activeId>>
client == <<memory, storage, submitting, tap, missing, keysDrawn, restarts, forsaken>>
server == <<onTheWay, answered, jobRow>>
miniVars == <<client, server>>

RequestKeys == 1 .. MaxKeys

Idle == [step |-> "idle"]

MiniInit ==
  /\ pendingRequest = NoRequest /\ trackedJobIds = {} /\ activeId = 0
  /\ storage = [pending |-> NoRequest, jobs |-> {}, active |-> 0]
  /\ submitting = FALSE
  /\ tap = [c \in Taps |-> Idle]
  /\ missing = {}
  /\ keysDrawn = 0
  /\ onTheWay = {} /\ answered = {}
  /\ jobRow = [k \in RequestKeys |-> "NONE"]
  /\ restarts = 0 /\ forsaken = {}
-----------------------------------------------------------------------------
Bug_PersistAnswersOnly ==
  storage' = [storage EXCEPT !.jobs = trackedJobIds', !.active = activeId']

Persist ==
  storage' = [pending |-> pendingRequest', jobs |-> trackedJobIds', active |-> activeId']

(***************************************************************************)
(* The key that is forgotten when the pending request is replaced.         *)
(***************************************************************************)
PendingKeys == IF pendingRequest = NoRequest THEN {} ELSE {pendingRequest.key}

(***************************************************************************)
(* The flag submitting is set only after the login.                        *)
(***************************************************************************)
Create(c) ==
  /\ tap[c].step = "idle" /\ ~submitting
  /\ tap' = [tap EXCEPT ![c] = [step |-> "authenticate"]]
  /\ UNCHANGED <<memory, storage, submitting, missing, keysDrawn, restarts, forsaken, server>>

LoginFails(c) ==
  /\ tap[c].step = "authenticate"
  /\ tap' = [tap EXCEPT ![c] = Idle]
  /\ UNCHANGED <<memory, storage, submitting, missing, keysDrawn, restarts, forsaken, server>>

(***************************************************************************)
(* forceNew is given by the buttons that repeat a failed creation.  What   *)
(* is asked for is chosen here: nothing looks at it before.                *)
(***************************************************************************)
Renews(s, forceNew) ==
  forceNew \/ pendingRequest = NoRequest \/ pendingRequest.subject # s

Send(c) ==
  /\ tap[c].step = "authenticate"
  /\ \E s \in Subjects, forceNew \in BOOLEAN :
       IF Renews(s, forceNew)
         THEN /\ keysDrawn < MaxKeys
              /\ keysDrawn' = keysDrawn + 1
              /\ pendingRequest' = [subject |-> s, key |-> keysDrawn + 1]
              /\ forsaken' = forsaken \cup PendingKeys
         ELSE UNCHANGED <<keysDrawn, pendingRequest, forsaken>>
  /\ UNCHANGED <<trackedJobIds, activeId>>
  /\ Persist
  /\ submitting' = TRUE
  /\ onTheWay' = onTheWay \cup {pendingRequest'.key}
  /\ tap' = [tap EXCEPT ![c] = [step |-> "sent", key |-> pendingRequest'.key]]
  /\ UNCHANGED <<missing, restarts, answered, jobRow>>

(***************************************************************************)
(* The request stays pending, to be sent again with its key.               *)
(***************************************************************************)
CreateFails(c) ==
  /\ tap[c].step = "sent"
  /\ UNCHANGED memory
  /\ Persist
  /\ submitting' = FALSE
  /\ tap' = [tap EXCEPT ![c] = Idle]
  /\ UNCHANGED <<missing, keysDrawn, restarts, forsaken, server>>

Accept(k) ==
  /\ trackedJobIds' = trackedJobIds \cup {k}
  /\ activeId' = k

(***************************************************************************)
(* An answer drops the pending request, also one of an overlapping tap.    *)
(***************************************************************************)
CreateSucceeds(c) ==
  /\ tap[c].step = "sent" /\ tap[c].key \in answered
  /\ Accept(tap[c].key)
  /\ pendingRequest' = NoRequest
  /\ forsaken' = forsaken \cup (PendingKeys \ {tap[c].key})
  /\ Persist
  /\ submitting' = FALSE
  /\ tap' = [tap EXCEPT ![c] = Idle]
  /\ UNCHANGED <<missing, keysDrawn, restarts, server>>

Hydrated(stored) ==
  /\ pendingRequest' = stored.pending
  /\ trackedJobIds' = stored.jobs
  /\ activeId' = stored.active
  /\ storage' = stored
  /\ submitting' = FALSE
  /\ tap' = [c \in Taps |-> Idle]
  /\ missing' = {}
  /\ restarts < MaxRestarts /\ restarts' = restarts + 1

Restart ==
  /\ Hydrated(storage)
  /\ UNCHANGED <<keysDrawn, forsaken, server>>

(***************************************************************************)
(* Killed while it stores an answer: the task list first, then the answer  *)
(* with the request still pending, then without it.                        *)
(***************************************************************************)
RestartInAnswer(c) ==
  /\ tap[c].step = "sent" /\ tap[c].key \in answered
  /\ \E shown \in {storage.active, tap[c].key} :
       Hydrated([storage EXCEPT !.jobs = @ \cup {tap[c].key}, !.active = shown])
  /\ UNCHANGED <<keysDrawn, forsaken, server>>

(***************************************************************************)
(* A page shows a job again, which puts it back on the task list.          *)
(***************************************************************************)
Refresh(k) ==
  /\ k \in trackedJobIds \cup {activeId} /\ jobRow[k] \in {"STORED", "DELETED"}
  /\ Accept(k)
  /\ UNCHANGED pendingRequest
  /\ Persist
  /\ UNCHANGED <<submitting, tap, missing, keysDrawn, restarts, forsaken, server>>

(***************************************************************************)
(* The task list polls; what it is told does not exist leaves the list.    *)
(* Between the two a page may have shown the job.                          *)
(***************************************************************************)
PollMisses(k) ==
  /\ k \in trackedJobIds /\ jobRow[k] # "STORED"
  /\ missing' = missing \cup {k}
  /\ UNCHANGED <<memory, storage, submitting, tap, keysDrawn, restarts, forsaken, server>>

Untrack(k) ==
  /\ k \in missing
  /\ missing' = missing \ {k}
  /\ trackedJobIds' = trackedJobIds \ {k}
  /\ UNCHANGED <<pendingRequest, activeId>>
  /\ Persist
  /\ forsaken' = forsaken \cup {k}
  /\ UNCHANGED <<submitting, tap, keysDrawn, restarts, server>>
-----------------------------------------------------------------------------
(***************************************************************************)
(* The server, as Creation has it: a request inserts the job or finds it,  *)
(* answers, and commits or rolls back after that.  What it asked for being *)
(* deleted, it is refused; an answer may be that to an earlier copy.       *)
(***************************************************************************)
Arrive(k) ==
  /\ k \in onTheWay /\ jobRow[k] # "DELETED"
  /\ onTheWay' = onTheWay \ {k}
  /\ answered' = answered \cup {k}
  /\ jobRow' = [jobRow EXCEPT ![k] = IF @ = "NONE" THEN "INSERTED" ELSE @]
  /\ UNCHANGED client

LoseRequest(k) ==
  /\ k \in onTheWay
  /\ onTheWay' = onTheWay \ {k}
  /\ UNCHANGED <<client, answered, jobRow>>

CommitJob(k) ==
  /\ jobRow[k] = "INSERTED"
  /\ jobRow' = [jobRow EXCEPT ![k] = "STORED"]
  /\ UNCHANGED <<client, onTheWay, answered>>

RollbackJob(k) ==
  /\ jobRow[k] = "INSERTED"
  /\ jobRow' = [jobRow EXCEPT ![k] = "NONE"]
  /\ UNCHANGED <<client, onTheWay, answered>>

DeleteJob(k) ==
  /\ jobRow[k] = "STORED"
  /\ jobRow' = [jobRow EXCEPT ![k] = "DELETED"]
  /\ UNCHANGED <<client, onTheWay, answered>>
-----------------------------------------------------------------------------
TapStep(c) ==
  \/ Create(c) \/ LoginFails(c) \/ Send(c) \/ CreateFails(c)
  \/ CreateSucceeds(c) \/ RestartInAnswer(c)

JobStep(k) ==
  \/ Refresh(k) \/ PollMisses(k) \/ Untrack(k)
  \/ Arrive(k) \/ LoseRequest(k) \/ CommitJob(k) \/ RollbackJob(k) \/ DeleteJob(k)

MiniNext ==
  \/ \E c \in Taps : TapStep(c)
  \/ \E k \in RequestKeys : JobStep(k)
  \/ Restart

MiniSpec == MiniInit /\ [][MiniNext]_miniVars
-----------------------------------------------------------------------------
Pending == [subject : Subjects, key : RequestKeys] \cup {NoRequest}

TapStates ==
  [step : {"idle", "authenticate"}] \cup [step : {"sent"}, key : RequestKeys]

MiniTypeOK ==
  /\ pendingRequest \in Pending
  /\ trackedJobIds \subseteq RequestKeys /\ activeId \in 0 .. MaxKeys
  /\ storage \in [pending : Pending, jobs : SUBSET RequestKeys, active : 0 .. MaxKeys]
  /\ submitting \in BOOLEAN
  /\ tap \in [Taps -> TapStates]
  /\ missing \subseteq RequestKeys
  /\ keysDrawn \in 0 .. MaxKeys
  /\ onTheWay \subseteq RequestKeys /\ answered \subseteq RequestKeys
  /\ jobRow \in [RequestKeys -> {"NONE", "INSERTED", "STORED", "DELETED"}]
  /\ restarts \in Nat /\ forsaken \subseteq RequestKeys

(***************************************************************************)
(* However answers are lost and the program killed: a job on the server is *)
(* one the phone would know after a restart, in its task list or as the    *)
(* one last shown, or one it would ask for again with the same key.        *)
(* Otherwise another request took its place, or a poll did not find it     *)
(* before it was committed (stores: create, accept, hydrate, untrack).     *)
(***************************************************************************)
JobKnown ==
  \A k \in RequestKeys : jobRow[k] \in {"INSERTED", "STORED"} =>
    \/ k \in storage.jobs \cup {storage.active}
    \/ storage.pending # NoRequest /\ storage.pending.key = k
    \/ k \in forsaken
=============================================================================
