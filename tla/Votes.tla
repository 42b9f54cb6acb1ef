-------------------------------- MODULE Votes --------------------------------
(***************************************************************************)
(* The friends of a shared result: opening the scene, voting and changing  *)
(* the vote, going on to the program, each with an analytics event         *)
(* (modules/growth/service.py and repository.py), while the owner's        *)
(* deletion of the photo or of the account takes the share away            *)
(* (purge_asset_plan, purge_account) and a friend's deletion of his own    *)
(* account takes his votes and events (purge_account).                     *)
(*                                                                         *)
(* A vote is read first and written later; the events are kept apart by a  *)
(* dedupe key.  Transactions are READ COMMITTED: a write waits for the one *)
(* that wrote the same vote or the same event.  A new vote needs its share *)
(* and its user (foreign keys), a new event its user; a changed vote       *)
(* neither.                                                                *)
(*                                                                         *)
(* Definitions named Bug_X are plausible mistakes in the definition that   *)
(* follows; the specification never uses them.                             *)
(***************************************************************************)
CONSTANTS Visits,    \* HTTP requests of friends, authenticated
          Voters,    \* users rows of friends; their fingerprints differ
          Choices,   \* BEFORE and AFTER
          NoChoice   \* no vote, or an event that is not about one

ASSUME VotesAssumption == NoChoice \notin Choices

VARIABLES
  share,     \* the share record: "ACTIVE" or "GONE"
  vote,      \* per voter: the committed vote
  events,    \* committed analytics events, by dedupe key
  visit,     \* per request: what it is about
  at,        \* per request: next step, or how it ended
  previous,  \* per request: the vote it read
  eraser,    \* the owner's deletion: next step
  doomed,    \* events its first statement found
  purge      \* per voter: next step of the deletion of his account

voteVars == <<share, vote, events, visit, at, previous, eraser, doomed, purge>>

Visit == [name : {"opened", "continue"}, voter : Voters, choice : {NoChoice}]
         \cup [name : {"vote"}, voter : Voters, choice : Choices]

(***************************************************************************)
(* name and dedupe_key of the event of a request are the request itself.   *)
(***************************************************************************)
VotesInit ==
  /\ share = "ACTIVE"
  /\ vote = [v \in Voters |-> NoChoice]
  /\ events = {}
  /\ visit \in [Visits -> Visit]
  /\ at = [r \in Visits |-> "begin"]
  /\ previous = [r \in Visits |-> NoChoice]
  /\ eraser = "plan"
  /\ doomed = {}
  /\ purge = [v \in Voters |-> "lock_user"]

MoveTo(r, step) == at' = [at EXCEPT ![r] = step]

Stored == <<share, vote, events>>

Deletions == <<eraser, doomed, purge>>

(***************************************************************************)
(* What a transaction has written so far: its vote, and a new one holds    *)
(* the share by its foreign key; its event.  A new row of either holds the *)
(* user.                                                                   *)
(***************************************************************************)
HasVoted(r) ==
  visit[r].name = "vote" /\ at[r] \in {"record_event", "commit", "commit_event"}

HoldsShare(r) == HasVoted(r) /\ vote[visit[r].voter] = NoChoice

HasRecorded(r) == at[r] = "commit_event"

HoldsUser(r) == HoldsShare(r) \/ HasRecorded(r)

(***************************************************************************)
(* What the deletions hold: the share (for a photo from the plan on), the  *)
(* user, the events and votes they have deleted.                           *)
(***************************************************************************)
ShareLocked == eraser \in {"delete_events", "erase"}

UserLocked(v) == purge[v] \in {"delete_events", "delete_votes", "commit"}

OfVoter(v) == {x \in events : x.voter = v}

EventDoomed(x) ==
  \/ eraser \in {"erase", "erase_account"} /\ x \in doomed
  \/ purge[x.voter] \in {"delete_votes", "commit"} /\ x \in events

VoteDoomed(v) == purge[v] = "commit" /\ vote[v] # NoChoice
-----------------------------------------------------------------------------
(***************************************************************************)
(* get_scene: a share that is not there or not active ends the request.    *)
(***************************************************************************)
GetScene(r) ==
  /\ at[r] = "begin"
  /\ MoveTo(r, IF share # "ACTIVE" THEN "refused"
             ELSE IF visit[r].name = "vote" THEN "read_vote" ELSE "record_event")
  /\ UNCHANGED <<Stored, visit, previous, Deletions>>

(***************************************************************************)
(* upsert_vote: a read, then the write.                                    *)
(***************************************************************************)
ReadVote(r) ==
  /\ at[r] = "read_vote"
  /\ previous' = [previous EXCEPT ![r] = vote[visit[r].voter]]
  /\ MoveTo(r, "upsert")
  /\ UNCHANGED <<Stored, visit, Deletions>>

Bug_FirstVoteOnly(r) == previous[r] = NoChoice

Fresh(r) == previous[r] # visit[r].choice

Bug_NoForeignKey(v) == FALSE

ShareMissing(v) == vote[v] = NoChoice /\ share = "GONE"

UpsertVote(r) ==
  LET v == visit[r].voter IN
  /\ at[r] = "upsert"
  /\ \A q \in Visits : HasVoted(q) => visit[q].voter # v
  /\ ~VoteDoomed(v)
  /\ vote[v] = NoChoice => ~ShareLocked /\ ~UserLocked(v)
  /\ MoveTo(r, IF ShareMissing(v) THEN "failed"
             ELSE IF Fresh(r) THEN "record_event" ELSE "commit")
  /\ UNCHANGED <<Stored, visit, previous, Deletions>>

(***************************************************************************)
(* record_event: one that is there stays; one that is being written or     *)
(* deleted is waited for.  A vote that changes nothing has no event.       *)
(***************************************************************************)
RecordEvent(r) ==
  /\ at[r] = "record_event"
  /\ \A q \in Visits : HasRecorded(q) => visit[q] # visit[r]
  /\ ~EventDoomed(visit[r])
  /\ IF visit[r] \in events
       THEN MoveTo(r, "commit")
       ELSE ~UserLocked(visit[r].voter) /\ MoveTo(r, "commit_event")
  /\ UNCHANGED <<Stored, visit, previous, Deletions>>

CommitVisit(r) ==
  /\ at[r] \in {"commit", "commit_event"}
  /\ vote' = IF visit[r].name = "vote"
               THEN [vote EXCEPT ![visit[r].voter] = visit[r].choice] ELSE vote
  /\ events' = IF HasRecorded(r) THEN events \cup {visit[r]} ELSE events
  /\ MoveTo(r, "done")
  /\ UNCHANGED <<share, visit, previous, Deletions>>

FailVisit(r) ==
  /\ at[r] \in {"read_vote", "upsert", "record_event", "commit", "commit_event"}
  /\ MoveTo(r, "failed")
  /\ UNCHANGED <<Stored, visit, previous, Deletions>>
-----------------------------------------------------------------------------
(***************************************************************************)
(* The deletion of the photo locks the share, that of the account does     *)
(* not; both delete its events, then the share and its votes by cascade,   *)
(* and commit.                                                             *)
(***************************************************************************)
Plan ==
  /\ eraser = "plan"
  /\ \/ (\A r \in Visits : ~HoldsShare(r)) /\ eraser' = "delete_events"
     \/ eraser' = "delete_events_account"
  /\ UNCHANGED <<Stored, visit, at, previous, doomed, purge>>

DeleteEvents ==
  /\ \/ eraser = "delete_events" /\ eraser' = "erase"
     \/ eraser = "delete_events_account" /\ eraser' = "erase_account"
  /\ \A x \in events : ~EventDoomed(x)
  /\ doomed' = events
  /\ UNCHANGED <<Stored, visit, at, previous, purge>>

Erase ==
  /\ eraser \in {"erase", "erase_account"}
  /\ \A r \in Visits : ~HasVoted(r)
  /\ \A v \in Voters : ~VoteDoomed(v)
  /\ eraser' = "done"
  /\ share' = "GONE"
  /\ vote' = [v \in Voters |-> NoChoice]
  /\ events' = events \ doomed
  /\ UNCHANGED <<visit, at, previous, doomed, purge>>

EraseFails ==
  /\ eraser \in {"delete_events", "erase", "delete_events_account", "erase_account"}
  /\ eraser' = "plan"
  /\ doomed' = {}
  /\ UNCHANGED <<Stored, visit, at, previous, purge>>
-----------------------------------------------------------------------------
(***************************************************************************)
(* A friend's account: context locks his users row, which his requests     *)
(* under way hold if they wrote something new; then his events and his     *)
(* votes are deleted.  The users row stays, and so do requests that were   *)
(* authenticated before.                                                   *)
(***************************************************************************)
PurgeGoesOn(v, step) == purge' = [purge EXCEPT ![v] = step]

LockUser(v) ==
  /\ purge[v] = "lock_user"
  /\ \A r \in Visits : visit[r].voter = v => ~HoldsUser(r)
  /\ PurgeGoesOn(v, "delete_events")
  /\ UNCHANGED <<Stored, visit, at, previous, eraser, doomed>>

PurgeEvents(v) ==
  /\ purge[v] = "delete_events"
  /\ \A x \in OfVoter(v) : ~EventDoomed(x)
  /\ PurgeGoesOn(v, "delete_votes")
  /\ UNCHANGED <<Stored, visit, at, previous, eraser, doomed>>

PurgeVotes(v) ==
  /\ purge[v] = "delete_votes"
  /\ \A r \in Visits : visit[r].voter = v => ~HasVoted(r)
  /\ PurgeGoesOn(v, "commit")
  /\ UNCHANGED <<Stored, visit, at, previous, eraser, doomed>>

CommitPurge(v) ==
  /\ purge[v] = "commit"
  /\ vote' = [vote EXCEPT ![v] = NoChoice]
  /\ events' = events \ OfVoter(v)
  /\ PurgeGoesOn(v, "done")
  /\ UNCHANGED <<share, visit, at, previous, eraser, doomed>>

PurgeFails(v) ==
  /\ UserLocked(v)
  /\ PurgeGoesOn(v, "lock_user")
  /\ UNCHANGED <<Stored, visit, at, previous, eraser, doomed>>
-----------------------------------------------------------------------------
VotesNext ==
  \/ \E r \in Visits : \/ GetScene(r) \/ ReadVote(r) \/ UpsertVote(r)
                       \/ RecordEvent(r) \/ CommitVisit(r) \/ FailVisit(r)
  \/ Plan \/ DeleteEvents \/ Erase \/ EraseFails
  \/ \E v \in Voters : \/ LockUser(v) \/ PurgeEvents(v) \/ PurgeVotes(v)
                       \/ CommitPurge(v) \/ PurgeFails(v)

VotesSpec == VotesInit /\ [][VotesNext]_voteVars
-----------------------------------------------------------------------------
VotesTypeOK ==
  /\ share \in {"ACTIVE", "GONE"}
  /\ vote \in [Voters -> Choices \cup {NoChoice}]
  /\ events \subseteq Visit
  /\ visit \in [Visits -> Visit]
  /\ at \in [Visits -> {"begin", "read_vote", "upsert", "record_event", "commit",
                        "commit_event", "done", "refused", "failed"}]
  /\ previous \in [Visits -> Choices \cup {NoChoice}]
  /\ eraser \in {"plan", "delete_events", "erase", "delete_events_account",
                 "erase_account", "done"}
  /\ doomed \subseteq Visit
  /\ purge \in [Voters -> {"lock_user", "delete_events", "delete_votes", "commit", "done"}]

VoteEvent(v, c) == [name |-> "vote", voter |-> v, choice |-> c]

(***************************************************************************)
(* A request that repeated the vote it had read: it records no event.      *)
(***************************************************************************)
Repeated(r, v) ==
  /\ visit[r] = VoteEvent(v, vote[v])
  /\ at[r] = "done"
  /\ previous[r] = vote[v]

(***************************************************************************)
(* GRW-003: while a share is there, the vote that counts for a friend is   *)
(* one the events know, though whether it is new is decided by a read that *)
(* other requests of the same friend, and the deletion of his account, may *)
(* overtake.  The only exception is a vote that a request repeated which   *)
(* had read it before the deletion of the account took vote and event.     *)
(***************************************************************************)
VoteHasEvent ==
  share = "ACTIVE" => \A v \in Voters :
    vote[v] # NoChoice =>
      \/ VoteEvent(v, vote[v]) \in events
      \/ purge[v] = "done" /\ \E r \in Visits : Repeated(r, v)

(***************************************************************************)
(* GOV-001: no vote outlives its share, though a friend may have found the *)
(* share before the deletion and vote while it goes on or after it.        *)
(***************************************************************************)
VotesGoWithShare == share = "GONE" => \A v \in Voters : vote[v] = NoChoice

(***************************************************************************)
(* GOV-001: the deletion cleans the closure of a photo, with the events    *)
(* of its share.                                                           *)
(***************************************************************************)
EventsGoWithShare == share = "GONE" => events = {}
=============================================================================
