---------------------------- MODULE ServicesProofs ----------------------------
(***************************************************************************)
(* Theorems about parts that share no state: the requests that create, the *)
(* votes of friends, the model calls of a job, and the mini program's      *)
(* memory of its jobs; and about the parts side by side, as the runs have  *)
(* them.                                                                   *)
(***************************************************************************)
EXTENDS MCServices, RateLimitProofs, TLAPS, FiniteSetTheorems

-----------------------------------------------------------------------------
(***************************************************************************)
(* Requests that create.  The lock of the source and the unique key keep   *)
(* creators apart; until the account is purged a row, once committed,      *)
(* stays, so that what a request found is still what it answers with.      *)
(***************************************************************************)
KeysHeld ==
  \A r \in Requests : pc[r] \in CreatorSteps =>
    /\ row[wants[r].key] = NoRow
    /\ \A q \in Requests : HoldsKey(q, wants[r].key) => q = r

SourcesHeld ==
  /\ \A r \in Requests, s \in Sources : HoldsSource(r, s) => source[s] = "ready"
  /\ \A k \in Keys : row[k] # NoRow /\ row[k].record = "with_source" =>
                       source[row[k].source] = "gone"
  /\ ~LocksSource /\ ~purged => \A s \in Sources : source[s] = "ready"

FoundRow(r) == row[wants[r].key] # NoRow /\ SamePayload(r)

Explained(r) ==
  /\ pc[r] = "find_again" => row[wants[r].key] # NoRow
  /\ pc[r] = "follow" => HasRecord
  /\ pc[r] \in {"follow", "respond_found", "commit_found", "done"} => FoundRow(r)
  /\ pc[r] \in {"commit_found", "done"} => row[wants[r].key].by = answer[r]
  /\ pc[r] = "STATE_INCOMPLETE" =>
       row[wants[r].key] # NoRow /\ row[wants[r].key].record = "alone"
  /\ pc[r] # "CREATE_CONFLICT"

Reserved == used = IF TakesQuota THEN Cardinality(Created) ELSE 0

CreationInv ==
  /\ CreationTypeOK
  /\ KeysHeld
  /\ SourcesHeld
  /\ \A r \in Requests : pc[r] = "commit" => answer[r] = r
  /\ ~purged => (\A r \in Requests : Explained(r)) /\ Reserved

LEMMA RowTypes ==
  ASSUME CreationTypeOK
  PROVE  /\ \A x \in Rows : x # NoRow
         /\ \A k \in Keys : row[k] # NoRow => row[k] \in Rows
         /\ \A r \in Requests : wants[r].key \in Keys /\ wants[r].source \in Sources
<1>1. \A x \in Rows : x.by # Nobody
  BY CreationAssumption DEF Rows
<1>2. NoRow.by = Nobody
  BY DEF NoRow
<1>3. \A x \in Rows : x # NoRow
  BY <1>1, <1>2
<1>4. QED
  BY <1>3 DEF CreationTypeOK

LEMMA NewRow ==
  ASSUME CreationTypeOK, NEW r \in Requests
  PROVE  [by |-> r, source |-> wants[r].source, record |-> "there"] \in Rows
BY RowTypes DEF Rows

(***************************************************************************)
(* A request's own steps, but for its commit, move no row.                 *)
(***************************************************************************)
LEMMA CreationTypes ==
  ASSUME CreationTypeOK, CreationNext
  PROVE  CreationTypeOK'
<1>1. ASSUME NEW r \in Requests, BeginRequest(r) \/ Find(r) \/ OwnedJobExists(r) \/ Insert(r)
      PROVE  CreationTypeOK'
  BY <1>1 DEF BeginRequest, Find, OwnedJobExists, Insert, Found, Goto, Read, Database,
              CreationTypeOK, Active, CreatorSteps, ReaderSteps, Refusals
<1>2. ASSUME NEW r \in Requests, FindAgain(r) \/ Follow(r) \/ CreateRecord(r) \/ Reserve(r)
      PROVE  CreationTypeOK'
  BY <1>2 DEF FindAgain, Follow, CreateRecord, Reserve, Found, Goto, Read, Database,
              CreationTypeOK, Active, CreatorSteps, ReaderSteps, Refusals
<1>3. ASSUME NEW r \in Requests, FailRequest(r)
      PROVE  CreationTypeOK'
  BY <1>3 DEF FailRequest, Goto, Read, Database, CreationTypeOK
<1>4. ASSUME NEW r \in Requests, Respond(r)
      PROVE  CreationTypeOK'
  <2>1. CASE pc[r] = "respond"
    BY <1>4, <2>1 DEF Respond, Goto, Database, CreationTypeOK, Active, CreatorSteps
  <2>2. CASE pc[r] = "respond_found"
    <3>1. row[wants[r].key].by \in Requests \cup {Nobody}
      BY RowTypes DEF Rows, NoRow
    <3>2. QED
      BY <1>4, <2>2, <3>1 DEF Respond, Goto, Database, CreationTypeOK, Active, ReaderSteps
  <2>3. QED
    BY <1>4, <2>1, <2>2 DEF Respond
<1>5. ASSUME NEW r \in Requests, CommitRequest(r)
      PROVE  CreationTypeOK'
  <2>1. row' \in [Keys -> Rows \cup {NoRow}]
    BY <1>5, NewRow, RowTypes DEF CommitRequest, CreationTypeOK
  <2>2. used' \in Nat
    BY <1>5 DEF CommitRequest, CreationTypeOK
  <2>3. QED
    BY <1>5, <2>1, <2>2 DEF CommitRequest, Goto, CreationTypeOK
<1>6. ASSUME NEW s \in Sources, DeleteSource(s)
      PROVE  CreationTypeOK'
  <2>1. row' \in [Keys -> Rows \cup {NoRow}]
    BY <1>6, RowTypes DEF DeleteSource, Rows
  <2>2. QED
    BY <1>6, <2>1 DEF DeleteSource, CreationTypeOK
<1>7. ASSUME NEW k \in Keys, DeleteResult(k)
      PROVE  CreationTypeOK'
  <2>1. [row[k] EXCEPT !.record = "alone"] \in Rows
    BY <1>7, RowTypes DEF DeleteResult, Rows
  <2>2. QED
    BY <1>7, <2>1 DEF DeleteResult, CreationTypeOK
<1>8. CASE PurgeAccount
  BY <1>8 DEF PurgeAccount, CreationTypeOK
<1>9. QED
  BY <1>1, <1>2, <1>3, <1>4, <1>5, <1>6, <1>7, <1>8 DEF CreationNext, Step

(***************************************************************************)
(* A step of a request that moves only the request keeps the invariant if  *)
(* it takes a key nobody has, is about a source that is there, and leaves  *)
(* the request explained.                                                  *)
(***************************************************************************)
LEMMA OwnStep ==
  ASSUME CreationInv, CreationTypeOK', NEW r \in Requests, NEW step,
         Goto(r, step), Database,
         \A q \in Requests \ {r} : answer'[q] = answer[q],
         step \in CreatorSteps => pc[r] \in CreatorSteps
                                  \/ /\ row[wants[r].key] = NoRow
                                     /\ \A q \in Requests : ~HoldsKey(q, wants[r].key),
         LocksSource /\ step \in Active => pc[r] \in Active
                                           \/ source[wants[r].source] = "ready",
         step = "commit" => answer'[r] = r,
         ~purged => Explained(r)'
  PROVE  CreationInv'
<1>1. pc' = [pc EXCEPT ![r] = step] /\ UNCHANGED <<endpoint, source, row, used, wants, purged>>
  BY DEF Goto, Database
<1>2. pc'[r] = step /\ \A q \in Requests \ {r} : pc'[q] = pc[q]
  BY <1>1 DEF CreationInv, CreationTypeOK
<1>3. KeysHeld'
  BY <1>1, <1>2 DEF CreationInv, KeysHeld, HoldsKey
<1>4. SourcesHeld'
  BY <1>1, <1>2 DEF CreationInv, SourcesHeld, HoldsSource, LocksSource
<1>5. (\A q \in Requests : pc[q] = "commit" => answer[q] = q)'
  BY <1>2 DEF CreationInv
<1>6. ASSUME ~purged, NEW q \in Requests
      PROVE  Explained(q)'
  <2>1. CASE q # r
    BY <1>1, <1>2, <1>6, <2>1 DEF CreationInv, Explained, FoundRow, SamePayload, ComparesPayload,
                                  HasRecord, LocksSource
  <2>2. QED
    BY <1>6, <2>1
<1>7. ~purged => Reserved'
  BY <1>1 DEF CreationInv, Reserved, TakesQuota, Created
<1>8. QED
  BY <1>1, <1>3, <1>4, <1>5, <1>6, <1>7 DEF CreationInv

(***************************************************************************)
(* What find_idempotent led to explains the request.                       *)
(***************************************************************************)
LEMMA FoundStep ==
  ASSUME CreationInv, CreationTypeOK', NEW r \in Requests, NEW absent, Read,
         pc' = [pc EXCEPT ![r] = Found(r, absent)], pc[r] \in {"find", "find_again"},
         \/ absent \in {"check_job", "insert"}
         \/ absent = "CREATE_CONFLICT" /\ (~purged => row[wants[r].key] # NoRow)
  PROVE  CreationInv'
<1> DEFINE step == Found(r, absent)
<1>1. UNCHANGED <<endpoint, source, row, used, wants, purged, answer>> /\ Database
  BY DEF Read, Database
<1>2. pc'[r] = step
  BY DEF CreationInv, CreationTypeOK, Goto
<1>3. /\ step \in {"KEY_REUSED", "follow", "respond_found", absent}
      /\ step = "follow" => HasRecord
      /\ step \in {"follow", "respond_found"} => FoundRow(r)
      /\ step = "CREATE_CONFLICT" => row[wants[r].key] = NoRow
  BY DEF Found, FoundRow
<1>4. ~purged => Explained(r)'
  <2> HIDE DEF step
  <2>1. FoundRow(r)' = FoundRow(r) /\ HasRecord' = HasRecord
    BY <1>1 DEF FoundRow, SamePayload, ComparesPayload, HasRecord, LocksSource
  <2>2. QED
    BY <1>1, <1>2, <1>3, <2>1 DEF Explained
<1>5. step \notin CreatorSteps /\ step # "commit" /\ pc[r] \in Active
  BY <1>3 DEF CreatorSteps, Active, ReaderSteps
<1>6. Goto(r, step) /\ \A q \in Requests \ {r} : answer'[q] = answer[q]
  BY <1>1 DEF Goto
<1> HIDE DEF step
<1>7. QED
  BY <1>1, <1>4, <1>5, <1>6, OwnStep

LEMMA RequestStep ==
  ASSUME CreationInv, CreationTypeOK', NEW r \in Requests,
         BeginRequest(r) \/ Find(r) \/ OwnedJobExists(r) \/ Insert(r) \/ FindAgain(r)
           \/ Follow(r) \/ CreateRecord(r) \/ Reserve(r) \/ Respond(r) \/ FailRequest(r)
  PROVE  CreationInv'
<1>1. /\ CreationTypeOK
      /\ ~purged => Explained(r)
      /\ \A step : Goto(r, step) => pc'[r] = step
  BY DEF CreationInv, CreationTypeOK, Goto
<1>2. Read => Database /\ \A q \in Requests \ {r} : answer'[q] = answer[q]
  BY DEF Read
<1>3. Database => UNCHANGED <<endpoint, source, row, used, wants, purged>>
  BY DEF Database
<1> USE DEF CreatorSteps, ReaderSteps, Active
<1>4. CASE BeginRequest(r)
  <2> DEFINE step == IF LocksSource /\ source[wants[r].source] = "gone" THEN "NOT_FOUND" ELSE "find"
  <2>1. Goto(r, step) /\ Read
    BY <1>4 DEF BeginRequest
  <2>2. LocksSource /\ step \in Active => source[wants[r].source] = "ready"
    BY <1>1, RowTypes DEF CreationTypeOK
  <2>3. step \in {"NOT_FOUND", "find"} /\ Explained(r)'
    BY <1>1, <2>1 DEF Explained
  <2> HIDE DEF step
  <2>4. QED
    BY <1>2, <2>1, <2>2, <2>3, OwnStep
<1>5. CASE Find(r)
  <2>1. CASE NamesJob
    <3>1. Read /\ pc' = [pc EXCEPT ![r] = Found(r, "check_job")] /\ pc[r] = "find"
      BY <1>5, <2>1 DEF Find, Goto
    <3>2. QED
      BY <3>1, FoundStep
  <2>2. CASE ~NamesJob
    <3>1. Read /\ pc' = [pc EXCEPT ![r] = Found(r, "insert")] /\ pc[r] = "find"
      BY <1>5, <2>2 DEF Find, Goto
    <3>2. QED
      BY <3>1, FoundStep
  <2>3. QED
    BY <2>1, <2>2
<1>6. CASE FindAgain(r)
  BY <1>1, <1>6, FoundStep DEF FindAgain, Explained, Goto
<1>7. CASE OwnedJobExists(r)
  <2> DEFINE step == IF source[wants[r].source] = "gone" THEN "NOT_FOUND" ELSE "insert"
  <2>1. Goto(r, step) /\ Read /\ pc[r] \in Active
    BY <1>7 DEF OwnedJobExists
  <2>2. step \in {"NOT_FOUND", "insert"} /\ Explained(r)'
    BY <1>1, <2>1 DEF Explained
  <2> HIDE DEF step
  <2>3. QED
    BY <1>2, <2>1, <2>2, OwnStep
<1>8. CASE Insert(r)
  <2> DEFINE step == IF ~Insertable(r) THEN "find_again"
                     ELSE IF HasRecord THEN "record" ELSE "respond"
  <2>1. Goto(r, step) /\ Read /\ pc[r] \in Active
        /\ \A q \in Requests : ~HoldsKey(q, wants[r].key)
    BY <1>8 DEF Insert
  <2>2. step \in {"find_again", "record", "respond"}
        /\ (step \in CreatorSteps => row[wants[r].key] = NoRow)
    BY DEF Insertable
  <2>3. ~purged /\ step = "find_again" => row[wants[r].key] # NoRow
    BY RowTypes, <1>1 DEF Insertable, CreationInv, SourcesHeld, NamesJob, LocksSource
  <2> HIDE DEF step
  <2>4. ~purged => Explained(r)'
    BY <1>1, <1>2, <1>3, <2>1, <2>2, <2>3 DEF Explained
  <2>5. QED
    BY <1>2, <2>1, <2>2, <2>4, OwnStep
<1>9. CASE Follow(r)
  <2> DEFINE step == IF row[wants[r].key].record = "there"
                       THEN "respond_found" ELSE "STATE_INCOMPLETE"
  <2>1. Goto(r, step) /\ Read /\ pc[r] = "follow"
    BY <1>9 DEF Follow
  <2>2. step \in {"respond_found", "STATE_INCOMPLETE"}
        /\ (step = "STATE_INCOMPLETE" => row[wants[r].key].record # "there")
    OBVIOUS
  <2>3. ~purged => row[wants[r].key] # NoRow /\ row[wants[r].key].record # "with_source"
    <3> SUFFICES ASSUME ~purged
                 PROVE  row[wants[r].key] # NoRow /\ row[wants[r].key].record # "with_source"
      OBVIOUS
    <3>1. LocksSource /\ FoundRow(r)
      BY <1>1, <2>1 DEF Explained, HasRecord
    <3>2. row[wants[r].key].source = wants[r].source
      BY <3>1 DEF FoundRow, SamePayload, ComparesPayload, LocksSource
    <3>3. source[wants[r].source] = "ready"
      BY <1>1, <2>1, <3>1, RowTypes DEF CreationInv, SourcesHeld, HoldsSource
    <3>4. QED
      BY <1>1, <3>1, <3>2, <3>3, RowTypes DEF CreationInv, SourcesHeld, FoundRow
  <2>4. ~purged => row[wants[r].key].record \in {"there", "with_source", "alone"}
    BY <1>1, <2>3, RowTypes DEF Rows
  <2> HIDE DEF step
  <2>5. ~purged => Explained(r)'
    <3>1. FoundRow(r)' = FoundRow(r)
      BY <1>2, <1>3, <2>1 DEF FoundRow, SamePayload, ComparesPayload
    <3>2. QED
      BY <1>1, <1>2, <1>3, <2>1, <2>2, <2>3, <2>4, <3>1 DEF Explained
  <2>6. QED
    BY <1>2, <2>1, <2>2, <2>5, OwnStep
<1>10. CASE CreateRecord(r)
  <2> DEFINE step == IF TakesQuota THEN "reserve" ELSE "respond"
  <2>1. Goto(r, step) /\ Read /\ pc[r] = "record"
    BY <1>10 DEF CreateRecord
  <2>2. step \in {"reserve", "respond"} /\ Explained(r)'
    BY <1>1, <2>1 DEF Explained
  <2> HIDE DEF step
  <2>3. QED
    BY <1>2, <2>1, <2>2, OwnStep
<1>11. CASE Reserve(r)
  <2> DEFINE step == IF used < Limit THEN "respond" ELSE "QUOTA_EXCEEDED"
  <2>1. Goto(r, step) /\ Read /\ pc[r] = "reserve"
    BY <1>11 DEF Reserve
  <2>2. step \in {"respond", "QUOTA_EXCEEDED"} /\ Explained(r)'
    BY <1>1, <2>1 DEF Explained
  <2> HIDE DEF step
  <2>3. QED
    BY <1>2, <2>1, <2>2, OwnStep
<1>12. CASE Respond(r)
  <2>1. Database /\ \A q \in Requests \ {r} : answer'[q] = answer[q]
    BY <1>1, <1>12 DEF Respond, CreationTypeOK
  <2>2. CASE pc[r] = "respond"
    <3>1. Goto(r, "commit") /\ answer'[r] = r
      BY <1>1, <1>12, <2>2 DEF Respond, CreationTypeOK
    <3>2. Explained(r)'
      BY <1>1, <3>1 DEF Explained
    <3>3. QED
      BY <2>1, <2>2, <3>1, <3>2, OwnStep
  <2>3. CASE pc[r] = "respond_found"
    <3>1. Goto(r, "commit_found") /\ answer'[r] = row[wants[r].key].by
      BY <1>1, <1>12, <2>3 DEF Respond, CreationTypeOK
    <3>2. FoundRow(r)' = FoundRow(r)
      BY <1>3, <2>1 DEF FoundRow, SamePayload, ComparesPayload
    <3>3. ~purged => Explained(r)'
      BY <1>1, <1>3, <2>1, <2>3, <3>1, <3>2 DEF Explained
    <3>4. QED
      BY <2>1, <2>3, <3>1, <3>3, OwnStep
  <2>4. QED
    BY <1>12, <2>2, <2>3 DEF Respond
<1>13. CASE FailRequest(r)
  <2>1. Goto(r, "failed") /\ Read
    BY <1>13 DEF FailRequest
  <2>2. Explained(r)'
    BY <1>1, <2>1 DEF Explained
  <2>3. QED
    BY <1>2, <2>1, <2>2, OwnStep
<1>14. QED
  BY <1>4, <1>5, <1>6, <1>7, <1>8, <1>9, <1>10, <1>11, <1>12, <1>13

(***************************************************************************)
(* The rows of a request that commits, and of the deletions.  Committed    *)
(* rows keep creator and payload until the account is purged.              *)
(***************************************************************************)
LEMMA RowsKept ==
  ASSUME CreationInv, UNCHANGED <<endpoint, wants, answer>>, purged' = purged,
         \A k \in Keys : row[k] # NoRow =>
           /\ row'[k] # NoRow /\ row'[k].by = row[k].by /\ row'[k].source = row[k].source
           /\ row[k].record = "alone" => row'[k].record = "alone"
  PROVE  \A q \in Requests : ~purged /\ pc'[q] = pc[q] => Explained(q)'
<1> SUFFICES ASSUME NEW q \in Requests, ~purged, pc'[q] = pc[q]
             PROVE  Explained(q)'
  OBVIOUS
<1>1. Explained(q) /\ wants[q].key \in Keys
  BY RowTypes DEF CreationInv
<1>2. FoundRow(q) => FoundRow(q)'
  BY <1>1 DEF FoundRow, SamePayload, ComparesPayload
<1>3. HasRecord' = HasRecord
  BY DEF HasRecord, LocksSource
<1>4. QED
  BY <1>1, <1>2, <1>3 DEF Explained, FoundRow

LEMMA CommitStep ==
  ASSUME CreationInv, CreationTypeOK', NEW r \in Requests, CommitRequest(r)
  PROVE  CreationInv'
<1> DEFINE key == wants[r].key
           new == [by |-> r, source |-> wants[r].source, record |-> "there"]
<1>1. /\ UNCHANGED <<endpoint, source, wants, answer, purged>>
      /\ pc' = [pc EXCEPT ![r] = "done"] /\ CreationTypeOK /\ key \in Keys
  BY RowTypes DEF CreationInv, CommitRequest, Goto
<1>2. pc'[r] = "done" /\ \A q \in Requests \ {r} : pc'[q] = pc[q]
  BY <1>1 DEF CreationTypeOK
<1>3. CASE pc[r] = "commit_found"
  <2>1. UNCHANGED <<row, used>>
    BY <1>3 DEF CommitRequest, Reserves
  <2>2. KeysHeld'
    BY <1>1, <1>2, <2>1 DEF CreationInv, KeysHeld, HoldsKey, CreatorSteps
  <2>3. SourcesHeld'
    BY <1>1, <1>2, <2>1 DEF CreationInv, SourcesHeld, HoldsSource, LocksSource, Active,
                            CreatorSteps, ReaderSteps
  <2>4. ~purged => Explained(r)'
    <3>1. FoundRow(r)' = FoundRow(r)
      BY <1>1, <2>1 DEF FoundRow, SamePayload, ComparesPayload
    <3>2. QED
      BY <1>1, <1>2, <1>3, <2>1, <3>1 DEF CreationInv, Explained
  <2>5. ~purged => \A q \in Requests : Explained(q)'
    BY <1>1, <1>2, <2>1, <2>4, RowsKept
  <2>6. ~purged => Reserved'
    BY <1>1, <2>1 DEF CreationInv, Reserved, TakesQuota, Created
  <2>7. QED
    BY <1>1, <1>2, <2>2, <2>3, <2>5, <2>6 DEF CreationInv
<1>4. CASE pc[r] = "commit"
  <2>1. /\ row' = [row EXCEPT ![key] = new]
        /\ used' = IF TakesQuota THEN used + 1 ELSE used
    BY <1>4 DEF CommitRequest, Reserves
  <2>2. row[key] = NoRow /\ answer[r] = r /\ new # NoRow
        /\ \A q \in Requests \ {r} : ~HoldsKey(q, key)
    BY <1>1, <1>4, NewRow, RowTypes DEF CreationInv, KeysHeld, CreatorSteps
  <2>3. /\ new.by = r /\ new.source = wants[r].source /\ new.record = "there"
        /\ row'[key] = new /\ \A k \in Keys \ {key} : row'[k] = row[k]
    BY <1>1, <2>1 DEF CreationTypeOK
  <2> HIDE DEF new
  <2>4. KeysHeld'
    BY <1>1, <1>2, <2>2, <2>3, RowTypes DEF CreationInv, KeysHeld, HoldsKey, CreatorSteps
  <2>5. SourcesHeld'
    <3>1. \A q \in Requests, s \in Sources : HoldsSource(q, s)' => HoldsSource(q, s)
      BY <1>1, <1>2 DEF HoldsSource, LocksSource, Active, CreatorSteps, ReaderSteps
    <3>2. QED
      BY <1>1, <2>3, <3>1 DEF CreationInv, SourcesHeld, LocksSource
  <2>6. ~purged => Explained(r)'
    BY <1>1, <1>2, <2>2, <2>3 DEF Explained, FoundRow, SamePayload
  <2>7. ~purged => \A q \in Requests : Explained(q)'
    <3>1. \A k \in Keys : row[k] # NoRow => row'[k] = row[k]
      BY <2>2, <2>3
    <3>2. QED
      BY <1>1, <1>2, <2>6, <3>1, RowsKept
  <2>8. ~purged => Reserved'
    <3>1. Created' = Created \cup {key} /\ key \notin Created
      BY <1>1, <2>2, <2>3 DEF Created
    <3>2. IsFiniteSet(Created)
      BY FS_Subset, CreationAssumption DEF Created
    <3>3. Cardinality(Created') = Cardinality(Created) + 1
      BY <3>1, <3>2, FS_AddElement
    <3>4. QED
      BY <1>1, <2>1, <3>3 DEF CreationInv, Reserved, TakesQuota
  <2>9. QED
    BY <1>1, <1>2, <2>4, <2>5, <2>7, <2>8 DEF CreationInv
<1>5. QED
  BY <1>3, <1>4 DEF CommitRequest

LEMMA DeletionStep ==
  ASSUME CreationInv, CreationTypeOK',
         (\E s \in Sources : DeleteSource(s)) \/ (\E k \in Keys : DeleteResult(k))
  PROVE  CreationInv'
<1>1. /\ UNCHANGED <<endpoint, used, wants, pc, answer, purged>> /\ CreationTypeOK
  BY DEF CreationInv, DeleteSource, DeleteResult
<1>2. \A k \in Keys :
        /\ row[k] = NoRow <=> row'[k] = NoRow
        /\ row[k] # NoRow => /\ row'[k].by = row[k].by /\ row'[k].source = row[k].source
                             /\ row[k].record = "alone" => row'[k].record = "alone"
  <2>1. ASSUME NEW s \in Sources, DeleteSource(s), NEW k \in Keys, row'[k] # row[k]
        PROVE  row[k] # NoRow /\ row[k].record = "there"
               /\ row'[k] = [row[k] EXCEPT !.record = "with_source"]
    BY <2>1 DEF DeleteSource
  <2>2. ASSUME NEW k \in Keys, DeleteResult(k)
        PROVE  row[k] # NoRow /\ row[k].record = "there"
               /\ row'[k] = [row[k] EXCEPT !.record = "alone"]
               /\ \A q \in Keys \ {k} : row'[q] = row[q]
    BY <1>1, <2>2 DEF DeleteResult, CreationTypeOK
  <2>3. \A x \in Rows : /\ [x EXCEPT !.record = "alone"] \in Rows
                        /\ [x EXCEPT !.record = "with_source"] \in Rows
    BY DEF Rows
  <2>4. ASSUME NEW k \in Keys, row'[k] # row[k]
        PROVE  /\ row[k] \in Rows /\ row[k].record = "there"
               /\ row'[k] = [row[k] EXCEPT !.record = "with_source"]
                  \/ row'[k] = [row[k] EXCEPT !.record = "alone"]
    BY <1>1, <2>1, <2>2, <2>4, RowTypes
  <2>5. ASSUME NEW k \in Keys, row'[k] # row[k]
        PROVE  /\ row[k] # NoRow /\ row'[k] # NoRow
               /\ row'[k].by = row[k].by /\ row'[k].source = row[k].source
               /\ row[k].record = "there"
    <3>1. row[k] \in Rows /\ row[k].record = "there"
          /\ \/ row'[k] = [row[k] EXCEPT !.record = "with_source"]
             \/ row'[k] = [row[k] EXCEPT !.record = "alone"]
      BY <2>4, <2>5
    <3>2. \A x \in Rows : \A y : y = [x EXCEPT !.record = "with_source"]
                             \/ y = [x EXCEPT !.record = "alone"]
                             => y \in Rows /\ y.by = x.by /\ y.source = x.source
      BY DEF Rows
    <3>3. row'[k] \in Rows /\ row'[k].by = row[k].by /\ row'[k].source = row[k].source
      BY <3>1, <3>2
    <3>4. QED
      BY <1>1, <3>1, <3>3, RowTypes
  <2>6. QED
    BY <2>5
<1>3. KeysHeld'
  BY <1>1, <1>2, RowTypes DEF CreationInv, KeysHeld, HoldsKey
<1>4. SourcesHeld'
  <2>1. ASSUME NEW s \in Sources, DeleteSource(s)
        PROVE  SourcesHeld'
    <3>1. /\ source' = [source EXCEPT ![s] = "gone"] /\ LocksSource
          /\ \A r \in Requests : ~HoldsSource(r, s)
          /\ \A k \in Keys : row'[k] # row[k] => row[k] # NoRow /\ row[k].source = s
      BY <2>1 DEF DeleteSource
    <3>2. \A r \in Requests, x \in Sources : HoldsSource(r, x)' = HoldsSource(r, x)
      BY <1>1 DEF HoldsSource, LocksSource
    <3>3. \A x \in Sources : source'[x] = IF x = s THEN "gone" ELSE source[x]
      BY <1>1, <3>1 DEF CreationTypeOK
    <3>4. \A k \in Keys : row[k] # NoRow => row[k].source \in Sources
      BY <1>1, RowTypes DEF Rows
    <3>5. QED
      BY <1>1, <1>2, <3>1, <3>2, <3>3, <3>4 DEF CreationInv, SourcesHeld, LocksSource
  <2>2. ASSUME NEW k \in Keys, DeleteResult(k)
        PROVE  SourcesHeld'
    <3>1. row'[k] = [row[k] EXCEPT !.record = "alone"] /\ source' = source
          /\ row[k] \in Rows /\ \A q \in Keys \ {k} : row'[q] = row[q]
      BY <1>1, <2>2, RowTypes DEF DeleteResult, CreationTypeOK
    <3>2. row'[k].record # "with_source"
      BY <3>1 DEF Rows
    <3>3. \A r \in Requests, x \in Sources : HoldsSource(r, x)' = HoldsSource(r, x)
      BY <1>1 DEF HoldsSource, LocksSource
    <3>4. QED
      BY <1>1, <3>1, <3>2, <3>3 DEF CreationInv, SourcesHeld, LocksSource
  <2>3. QED
    BY <2>1, <2>2
<1>5. ~purged => \A q \in Requests : Explained(q)'
  BY <1>1, <1>2, RowsKept
<1>6. ~purged => Reserved'
  <2>1. Created' = Created
    BY <1>2 DEF Created
  <2>2. QED
    BY <1>1, <2>1 DEF CreationInv, Reserved, TakesQuota
<1>7. QED
  BY <1>1, <1>3, <1>4, <1>5, <1>6 DEF CreationInv

LEMMA PurgeStep ==
  ASSUME CreationInv, CreationTypeOK', PurgeAccount
  PROVE  CreationInv'
<1>1. /\ UNCHANGED <<endpoint, wants, pc, answer>> /\ purged' = TRUE
      /\ \A r \in Requests : endpoint # "login" => pc[r] \notin CreatorSteps
      /\ \A r \in Requests, s \in Sources : ~HoldsSource(r, s)
      /\ source' = [s \in Sources |-> "gone"]
      /\ row' = IF NamesJob THEN row ELSE [k \in Keys |-> NoRow]
  BY DEF PurgeAccount
<1>2. KeysHeld'
  BY <1>1, RowTypes DEF CreationInv, KeysHeld, HoldsKey, NamesJob
<1>3. SourcesHeld'
  <2>1. \A r \in Requests, s \in Sources : ~HoldsSource(r, s)'
    BY <1>1 DEF HoldsSource, LocksSource
  <2>2. \A k \in Keys : row'[k] # NoRow => row'[k].source \in Sources
    BY <1>1, RowTypes DEF CreationInv, Rows
  <2>3. QED
    BY <1>1, <2>1, <2>2 DEF SourcesHeld
<1>4. QED
  BY <1>1, <1>2, <1>3 DEF CreationInv

LEMMA CreationStart == CreationInit => CreationInv
<1> SUFFICES ASSUME CreationInit
             PROVE  CreationInv
  OBVIOUS
<1>1. CreationTypeOK
  BY CreationAssumption DEF CreationInit, CreationTypeOK
<1>2. KeysHeld /\ SourcesHeld /\ \A r \in Requests : pc[r] # "commit" /\ Explained(r)
  BY DEF CreationInit, KeysHeld, SourcesHeld, Explained, HoldsSource, Active, CreatorSteps,
         ReaderSteps
<1>3. Created = {}
  BY DEF CreationInit, Created
<1>4. Reserved
  BY <1>3, FS_EmptySet DEF CreationInit, Reserved
<1>5. QED
  BY <1>1, <1>2, <1>4 DEF CreationInv

LEMMA CreationKept ==
  ASSUME CreationInv, [CreationNext]_creationVars
  PROVE  CreationInv'
<1>1. CASE CreationNext
  <2>1. CreationTypeOK'
    BY <1>1, CreationTypes DEF CreationInv
  <2>2. QED
    BY <1>1, <2>1, RequestStep, CommitStep, DeletionStep, PurgeStep DEF CreationNext, Step
<1>2. CASE UNCHANGED creationVars
  <2> USE <1>2 DEF creationVars
  <2>1. CreationTypeOK' /\ KeysHeld' /\ SourcesHeld'
    BY DEF CreationInv, CreationTypeOK, KeysHeld, SourcesHeld, HoldsKey, HoldsSource, LocksSource
  <2>2. ~purged => (\A r \in Requests : Explained(r)') /\ Reserved'
    BY RowsKept DEF CreationInv, Reserved, TakesQuota, Created
  <2>3. QED
    BY <2>1, <2>2 DEF CreationInv
<1>3. QED
  BY <1>1, <1>2

LEMMA CreationInvariant == CreationSpec => []CreationInv
BY CreationStart, CreationKept, PTL DEF CreationSpec

(***************************************************************************)
(* The variables of a creation keep their types.                           *)
(***************************************************************************)
THEOREM CreationTypeCorrect == CreationSpec => []CreationTypeOK
<1>1. CreationInv => CreationTypeOK
  BY DEF CreationInv
<1>2. QED
  BY <1>1, CreationInvariant, PTL

(***************************************************************************)
(* For any number of requests, keys and sources: requests with one key     *)
(* are answered with one row, for one payload, and one reservation.        *)
(***************************************************************************)
THEOREM OneRowPerKey == CreationSpec => []CreatedOnce
<1>1. CreationInv => CreatedOnce
  BY DEF CreationInv, CreatedOnce, Explained, FoundRow, SamePayload, Reserved
<1>2. QED
  BY <1>1, CreationInvariant, PTL

(***************************************************************************)
(* No retry meets a row that vanished, nor a job whose record went with    *)
(* its source: the lock of the source orders the two.                      *)
(***************************************************************************)
THEOREM RetriesFindTheirJob == CreationSpec => []NeverIncomplete
<1>1. CreationInv => NeverIncomplete
  BY DEF CreationInv, NeverIncomplete, Explained
<1>2. QED
  BY <1>1, CreationInvariant, PTL

-----------------------------------------------------------------------------
(***************************************************************************)
(* Requests with different keys share one counter.  Whoever has reserved   *)
(* and not yet committed holds its lock, alone, and found room below the   *)
(* limit.                                                                  *)
(***************************************************************************)
WithinQuota == used <= Limit

CounterHeld ==
  \A r \in Requests : HoldsCounter(r) =>
    used < Limit /\ \A q \in Requests : HoldsCounter(q) => q = r

QuotaInv == CreationTypeOK /\ WithinQuota /\ CounterHeld

LEMMA CounterStep ==
  ASSUME QuotaInv, NEW r \in Requests, NEW step, Goto(r, step), UNCHANGED <<endpoint, used>>,
         TakesQuota /\ step \in {"respond", "commit"} =>
           \/ pc[r] = "respond"
           \/ used < Limit /\ \A q \in Requests : ~HoldsCounter(q)
  PROVE  WithinQuota' /\ CounterHeld'
<1>1. pc'[r] = step /\ \A q \in Requests \ {r} : pc'[q] = pc[q]
  BY DEF Goto, QuotaInv, CreationTypeOK
<1>2. \A q \in Requests \ {r} : HoldsCounter(q)' = HoldsCounter(q)
  BY <1>1 DEF HoldsCounter, TakesQuota
<1>3. HoldsCounter(r)' =>
        HoldsCounter(r) \/ (used < Limit /\ \A q \in Requests : ~HoldsCounter(q))
  BY <1>1 DEF HoldsCounter, TakesQuota
<1>4. QED
  BY <1>2, <1>3 DEF QuotaInv, WithinQuota, CounterHeld

LEMMA QuotaStep ==
  ASSUME QuotaInv, CreationNext
  PROVE  QuotaInv'
<1>0. CreationTypeOK /\ CreationTypeOK' /\ used \in Nat /\ Limit \in Nat
  BY CreationTypes, CreationAssumption DEF QuotaInv, CreationTypeOK
<1>1. ASSUME NEW r \in Requests,
             BeginRequest(r) \/ Find(r) \/ OwnedJobExists(r) \/ FindAgain(r) \/ Follow(r)
               \/ FailRequest(r)
      PROVE  WithinQuota' /\ CounterHeld'
  <2>1. \E step \in {"NOT_FOUND", "find", "check_job", "insert", "KEY_REUSED", "follow",
                     "respond_found", "CREATE_CONFLICT", "STATE_INCOMPLETE", "failed"} :
          Goto(r, step)
    BY <1>1 DEF BeginRequest, Find, OwnedJobExists, FindAgain, Follow, FailRequest, Found
  <2>2. UNCHANGED <<endpoint, used>>
    BY <1>1 DEF BeginRequest, Find, OwnedJobExists, FindAgain, Follow, FailRequest, Read, Database
  <2>3. QED
    BY <2>1, <2>2, CounterStep
<1>2. ASSUME NEW r \in Requests, Insert(r) \/ CreateRecord(r)
      PROVE  WithinQuota' /\ CounterHeld'
  <2>1. \E step \in {"find_again", "record", "reserve", "respond"} :
          Goto(r, step) /\ (TakesQuota => step # "respond")
    BY <1>2 DEF Insert, CreateRecord, HasRecord, LocksSource, TakesQuota
  <2>2. UNCHANGED <<endpoint, used>>
    BY <1>2 DEF Insert, CreateRecord, Read, Database
  <2>3. QED
    BY <2>1, <2>2, CounterStep
<1>3. ASSUME NEW r \in Requests, Reserve(r)
      PROVE  WithinQuota' /\ CounterHeld'
  <2>1. \E step \in {"respond", "QUOTA_EXCEEDED"} :
          Goto(r, step) /\ (step = "respond" => used < Limit)
    BY <1>3 DEF Reserve
  <2>2. UNCHANGED <<endpoint, used>> /\ \A q \in Requests : ~HoldsCounter(q)
    BY <1>3 DEF Reserve, Read, Database
  <2>3. QED
    BY <2>1, <2>2, CounterStep
<1>4. ASSUME NEW r \in Requests, Respond(r)
      PROVE  WithinQuota' /\ CounterHeld'
  <2>1. \E step \in {"commit", "commit_found"} :
          Goto(r, step) /\ (step = "commit" => pc[r] = "respond")
    BY <1>4 DEF Respond
  <2>2. UNCHANGED <<endpoint, used>>
    BY <1>4 DEF Respond, Database
  <2>3. QED
    BY <2>1, <2>2, CounterStep
<1>5. ASSUME NEW r \in Requests, CommitRequest(r)
      PROVE  WithinQuota' /\ CounterHeld'
  <2>1. endpoint' = endpoint /\ pc'[r] = "done" /\ \A q \in Requests \ {r} : pc'[q] = pc[q]
    BY <1>0, <1>5 DEF CommitRequest, Goto, CreationTypeOK
  <2>2. \A q \in Requests : HoldsCounter(q)' <=> HoldsCounter(q) /\ q # r
    BY <2>1 DEF HoldsCounter, TakesQuota
  <2>3. CASE Reserves(r)
    <3>1. HoldsCounter(r) /\ used' = used + 1
      BY <1>5, <2>3 DEF CommitRequest, Reserves, HoldsCounter
    <3>2. QED
      BY <1>0, <2>2, <3>1 DEF QuotaInv, WithinQuota, CounterHeld
  <2>4. CASE ~Reserves(r)
    <3>1. used' = used
      BY <1>5, <2>4 DEF CommitRequest
    <3>2. QED
      BY <2>2, <3>1 DEF QuotaInv, WithinQuota, CounterHeld
  <2>5. QED
    BY <2>3, <2>4
<1>6. ASSUME (\E s \in Sources : DeleteSource(s)) \/ (\E k \in Keys : DeleteResult(k))
      PROVE  WithinQuota' /\ CounterHeld'
  <2>1. UNCHANGED <<endpoint, used, pc>>
    BY <1>6 DEF DeleteSource, DeleteResult
  <2>2. QED
    BY <2>1 DEF QuotaInv, WithinQuota, CounterHeld, HoldsCounter, TakesQuota
<1>7. ASSUME PurgeAccount
      PROVE  WithinQuota' /\ CounterHeld'
  <2>1. used' = 0 /\ \A q \in Requests : ~HoldsCounter(q)'
    BY <1>7 DEF PurgeAccount, HoldsCounter, TakesQuota, CreatorSteps
  <2>2. WithinQuota'
    BY <1>0, <2>1 DEF WithinQuota
  <2>3. CounterHeld'
    BY <2>1 DEF CounterHeld
  <2>4. QED
    BY <2>2, <2>3
<1>8. QED
  BY <1>0, <1>1, <1>2, <1>3, <1>4, <1>5, <1>6, <1>7 DEF CreationNext, Step, QuotaInv

(***************************************************************************)
(* THEOREM.  However requests with different keys, rollbacks, deletions    *)
(* and an account's purge interleave, the quota of a subject is not        *)
(* exceeded (the order of create in jobs/service.py: row, then quota).     *)
(***************************************************************************)
THEOREM QuotaIsKept == CreationSpec => []WithinQuota
<1>1. CreationInit => QuotaInv
  <2>1. CreationInit => CreationTypeOK
    BY CreationStart DEF CreationInv
  <2>2. QED
    BY <2>1, CreationAssumption DEF CreationInit, QuotaInv, WithinQuota, CounterHeld, HoldsCounter
<1>2. QuotaInv /\ UNCHANGED creationVars => QuotaInv'
  BY DEF creationVars, QuotaInv, WithinQuota, CounterHeld, HoldsCounter, TakesQuota, CreationTypeOK
<1>3. QuotaInv => WithinQuota
  BY DEF QuotaInv
<1>4. QED
  BY <1>1, <1>2, <1>3, QuotaStep, PTL DEF CreationSpec
-----------------------------------------------------------------------------
(***************************************************************************)
(* Votes.  A request decides by the vote it read whether its own is new;   *)
(* what it read once had its event, and events go only with the share or   *)
(* with the account of the friend.  The deletion of the account commits    *)
(* when none of his requests has a vote in hand, so that an event found to *)
(* be there already is still there when the vote that needs it commits.    *)
(***************************************************************************)
ReadsHadEvents ==
  \A r \in Visits :
    previous[r] # NoChoice => \/ VoteEvent(visit[r].voter, previous[r]) \in events
                              \/ purge[visit[r].voter] = "done"

EventFound ==
  \A r \in Visits : visit[r].name = "vote" /\ at[r] = "commit" /\ Fresh(r) => visit[r] \in events

PurgeAlone ==
  \A r \in Visits : purge[visit[r].voter] = "commit" => ~HasVoted(r)

VotesInv ==
  /\ VotesTypeOK
  /\ VoteHasEvent
  /\ share = "ACTIVE" => ReadsHadEvents /\ EventFound
  /\ PurgeAlone

LEMMA VisitTypes ==
  ASSUME VotesTypeOK, NEW r \in Visits
  PROVE  /\ visit[r] \in Visit
         /\ visit[r].voter \in Voters
         /\ visit[r].name = "vote" => /\ visit[r].choice \in Choices
                                      /\ visit[r] = VoteEvent(visit[r].voter, visit[r].choice)
BY VotesAssumption DEF VotesTypeOK, Visit, VoteEvent

LEMMA VoteTypes ==
  ASSUME VotesTypeOK, VotesNext
  PROVE  VotesTypeOK'
<1>1. ASSUME NEW r \in Visits,
             GetScene(r) \/ ReadVote(r) \/ UpsertVote(r) \/ RecordEvent(r) \/ FailVisit(r)
      PROVE  VotesTypeOK'
  BY <1>1, VisitTypes DEF GetScene, ReadVote, UpsertVote, RecordEvent, FailVisit, VotesTypeOK,
                          MoveTo, Stored, Deletions
<1>2. ASSUME NEW r \in Visits, CommitVisit(r)
      PROVE  VotesTypeOK'
  BY <1>2, VisitTypes DEF CommitVisit, VotesTypeOK, MoveTo, Deletions
<1>3. CASE Plan \/ DeleteEvents \/ Erase \/ EraseFails
  BY <1>3 DEF Plan, DeleteEvents, Erase, EraseFails, VotesTypeOK, Stored
<1>4. ASSUME NEW v \in Voters,
             LockUser(v) \/ PurgeEvents(v) \/ PurgeVotes(v) \/ CommitPurge(v) \/ PurgeFails(v)
      PROVE  VotesTypeOK'
  BY <1>4 DEF LockUser, PurgeEvents, PurgeVotes, CommitPurge, PurgeFails, PurgeGoesOn,
              OfVoter, VotesTypeOK, Stored
<1>5. QED
  BY <1>1, <1>2, <1>3, <1>4 DEF VotesNext

(***************************************************************************)
(* What a step of a request changes in at, and that one which has not      *)
(* ended is not one that repeated a vote.                                  *)
(***************************************************************************)
LEMMA VisitStep ==
  ASSUME VotesTypeOK, NEW r \in Visits,
         \/ GetScene(r) \/ ReadVote(r) \/ UpsertVote(r) \/ RecordEvent(r)
         \/ CommitVisit(r) \/ FailVisit(r)
  PROVE  /\ at[r] # "done" /\ UNCHANGED <<share, visit, purge>>
         /\ \A q \in Visits \ {r} : at'[q] = at[q] /\ previous'[q] = previous[q]
         /\ ReadVote(r) \/ previous' = previous
         /\ CommitVisit(r) \/ (vote' = vote /\ events' = events)
  <1>1. at[r] # "done" /\ UNCHANGED <<share, visit, purge>>
    BY DEF GetScene, ReadVote, UpsertVote, RecordEvent, CommitVisit, FailVisit, Stored, Deletions
  <1>2. \A q \in Visits \ {r} : at'[q] = at[q] /\ previous'[q] = previous[q]
    BY DEF GetScene, ReadVote, UpsertVote, RecordEvent, CommitVisit, FailVisit, MoveTo, VotesTypeOK
  <1>3. ReadVote(r) \/ previous' = previous
    BY DEF GetScene, UpsertVote, RecordEvent, CommitVisit, FailVisit
  <1>4. CommitVisit(r) \/ (vote' = vote /\ events' = events)
    BY DEF GetScene, ReadVote, UpsertVote, RecordEvent, FailVisit, Stored
  <1>5. QED
    BY <1>1, <1>2, <1>3, <1>4

(***************************************************************************)
(* A request gets a vote in hand only by upsert_vote, which waits while    *)
(* the deletion of the account has deleted the votes.                      *)
(***************************************************************************)
LEMMA PurgeWaits ==
  ASSUME VotesTypeOK, PurgeAlone, VotesNext
  PROVE  PurgeAlone'
<1>1. ASSUME NEW r \in Visits,
             \/ GetScene(r) \/ ReadVote(r) \/ UpsertVote(r) \/ RecordEvent(r)
             \/ CommitVisit(r) \/ FailVisit(r)
      PROVE  PurgeAlone'
  <2>1. /\ UNCHANGED <<visit, purge>>
        /\ \A q \in Visits \ {r} : at'[q] = at[q]
    BY <1>1, VisitStep
  <2>2. UpsertVote(r) => purge[visit[r].voter] # "commit"
    BY DEF UpsertVote, VoteDoomed, UserLocked
  <2>3. HasVoted(r)' => HasVoted(r) \/ UpsertVote(r)
    BY <1>1 DEF GetScene, ReadVote, RecordEvent, CommitVisit, FailVisit, MoveTo, HasVoted,
                VotesTypeOK
  <2>4. \A q \in Visits \ {r} : HasVoted(q)' => HasVoted(q)
    BY <2>1 DEF HasVoted
  <2>5. QED
    BY <2>1, <2>2, <2>3, <2>4 DEF PurgeAlone
<1>2. ASSUME Plan \/ DeleteEvents \/ Erase \/ EraseFails
      PROVE  PurgeAlone'
  BY <1>2 DEF Plan, DeleteEvents, Erase, EraseFails, Stored, PurgeAlone, HasVoted
<1>3. ASSUME NEW v \in Voters,
             LockUser(v) \/ PurgeEvents(v) \/ PurgeVotes(v) \/ CommitPurge(v) \/ PurgeFails(v)
      PROVE  PurgeAlone'
  <2>1. UNCHANGED <<visit, at>> /\ \A u \in Voters \ {v} : purge'[u] = purge[u]
    BY <1>3 DEF LockUser, PurgeEvents, PurgeVotes, CommitPurge, PurgeFails, PurgeGoesOn, Stored,
                VotesTypeOK
  <2>2. purge'[v] = "commit" => \A r \in Visits : visit[r].voter = v => ~HasVoted(r)
    BY <1>3 DEF LockUser, PurgeEvents, PurgeVotes, CommitPurge, PurgeFails, PurgeGoesOn, VotesTypeOK
  <2>3. QED
    BY <2>1, <2>2, VisitTypes DEF PurgeAlone, HasVoted
<1>4. QED
  BY <1>1, <1>2, <1>3 DEF VotesNext

(***************************************************************************)
(* A request that commits: its vote has its event, or repeats one that the *)
(* deletion of the account took.                                           *)
(***************************************************************************)
LEMMA CommitStepVotes ==
  ASSUME VotesInv, NEW r \in Visits, CommitVisit(r), share = "ACTIVE"
  PROVE  VoteHasEvent' /\ ReadsHadEvents' /\ EventFound'
<1>1. VotesTypeOK /\ ReadsHadEvents /\ EventFound /\ VoteHasEvent
  BY DEF VotesInv
<1>2. /\ UNCHANGED <<share, visit, purge, previous>> /\ events \subseteq events'
      /\ at[r] \in {"commit", "commit_event"}
      /\ at' = [at EXCEPT ![r] = "done"]
      /\ at[r] = "commit_event" => visit[r] \in events'
  BY DEF CommitVisit, Deletions, MoveTo, HasRecorded
<1>3. \A q \in Visits : at'[q] = IF q = r THEN "done" ELSE at[q]
  BY <1>1, <1>2 DEF VotesTypeOK
<1>4. \A v \in Voters : vote'[v] = IF visit[r].name = "vote" /\ v = visit[r].voter
                                    THEN visit[r].choice ELSE vote[v]
  BY <1>1 DEF CommitVisit, VotesTypeOK
<1>5. ReadsHadEvents'
  BY <1>1, <1>2 DEF ReadsHadEvents
<1>6. EventFound'
  BY <1>1, <1>2, <1>3 DEF EventFound, Fresh
<1>7. ASSUME NEW v \in Voters, vote'[v] # NoChoice
      PROVE  \/ VoteEvent(v, vote'[v]) \in events'
             \/ purge'[v] = "done" /\ \E q \in Visits : Repeated(q, v)'
  <2>1. CASE visit[r].name = "vote" /\ v = visit[r].voter
    <3>1. /\ visit[r] = VoteEvent(v, vote'[v]) /\ vote'[v] = visit[r].choice
          /\ vote'[v] \in Choices
      BY <1>1, <1>4, <2>1, VisitTypes
    <3>2. CASE at[r] = "commit_event" \/ Fresh(r)
      BY <1>1, <1>2, <2>1, <3>1, <3>2 DEF EventFound
    <3>3. CASE ~Fresh(r)
      <4>1. previous[r] = vote'[v] /\ previous[r] # NoChoice
        BY <3>1, <3>3, VotesAssumption DEF Fresh
      <4>2. VoteEvent(v, vote'[v]) \in events \/ purge[v] = "done"
        BY <1>1, <2>1, <4>1 DEF ReadsHadEvents
      <4>3. Repeated(r, v)'
        BY <1>2, <1>3, <3>1, <4>1 DEF Repeated, VoteEvent
      <4>4. QED
        BY <1>2, <4>2, <4>3
    <3>4. QED
      BY <1>2, <3>2, <3>3
  <2>2. CASE ~(visit[r].name = "vote" /\ v = visit[r].voter)
    <3>1. vote'[v] = vote[v]
      BY <1>4, <2>2
    <3>2. \/ VoteEvent(v, vote[v]) \in events
          \/ purge[v] = "done" /\ \E q \in Visits : Repeated(q, v)
      BY <1>1, <1>7, <3>1 DEF VoteHasEvent
    <3>3. \A q \in Visits : Repeated(q, v) => Repeated(q, v)'
      BY <1>2, <1>3, <3>1 DEF Repeated, VoteEvent
    <3>4. QED
      BY <1>2, <3>1, <3>2, <3>3
  <2>3. QED
    BY <2>1, <2>2
<1>8. VoteHasEvent'
  BY <1>7 DEF VoteHasEvent, VoteEvent
<1>9. QED
  BY <1>5, <1>6, <1>8

(***************************************************************************)
(* The other steps of a request commit nothing; a read finds a vote with   *)
(* its event, or one of a friend whose account is gone.                    *)
(***************************************************************************)
LEMMA OpenStepVotes ==
  ASSUME VotesInv, NEW r \in Visits, share = "ACTIVE",
         GetScene(r) \/ ReadVote(r) \/ UpsertVote(r) \/ RecordEvent(r) \/ FailVisit(r)
  PROVE  VoteHasEvent' /\ ReadsHadEvents' /\ EventFound'
<1>1. VotesTypeOK /\ ReadsHadEvents /\ EventFound /\ VoteHasEvent
  BY DEF VotesInv
<1>2. /\ at[r] # "done" /\ UNCHANGED <<share, visit, purge>>
      /\ \A q \in Visits \ {r} : at'[q] = at[q] /\ previous'[q] = previous[q]
      /\ ReadVote(r) \/ previous' = previous
      /\ vote' = vote /\ events' = events
  <2>1. CommitVisit(r) => vote' = vote /\ events' = events
    BY DEF CommitVisit, GetScene, ReadVote, UpsertVote, RecordEvent, FailVisit, Stored
  <2>2. QED
    BY <1>1, <2>1, VisitStep
<1>3. VoteHasEvent'
  <2>1. \A q \in Visits, v \in Voters : Repeated(q, v) => Repeated(q, v)'
    BY <1>2 DEF Repeated, VoteEvent
  <2>2. QED
    BY <1>1, <1>2, <2>1 DEF VoteHasEvent, VoteEvent
<1>4. ReadsHadEvents'
  <2>1. ReadVote(r) => previous'[r] = vote[visit[r].voter]
    BY <1>1 DEF ReadVote, VotesTypeOK
  <2>2. visit[r].voter \in Voters
    BY <1>1, VisitTypes
  <2>3. ReadVote(r) /\ vote[visit[r].voter] # NoChoice =>
          \/ VoteEvent(visit[r].voter, previous'[r]) \in events
          \/ purge[visit[r].voter] = "done"
    BY <1>1, <2>1, <2>2 DEF VoteHasEvent
  <2>4. QED
    BY <1>1, <1>2, <2>1, <2>3 DEF ReadsHadEvents, VoteEvent
<1>5. EventFound'
  <2>1. \A q \in Visits \ {r} : Fresh(q)' <=> Fresh(q)
    BY <1>2 DEF Fresh
  <2>2. visit[r].name = "vote" /\ at'[r] = "commit" /\ Fresh(r)' => visit[r] \in events
    BY <1>1, <1>2 DEF GetScene, ReadVote, UpsertVote, RecordEvent, FailVisit, MoveTo, Fresh,
                      VotesTypeOK, EventFound
  <2>3. QED
    BY <1>1, <1>2, <2>1, <2>2 DEF EventFound
<1>6. QED
  BY <1>3, <1>4, <1>5

(***************************************************************************)
(* The deletion of an account: its commit takes the vote and all events of *)
(* the friend, and no request of his is about to commit a vote.            *)
(***************************************************************************)
LEMMA PurgeStepVotes ==
  ASSUME VotesInv, NEW u \in Voters, share = "ACTIVE",
         LockUser(u) \/ PurgeEvents(u) \/ PurgeVotes(u) \/ CommitPurge(u) \/ PurgeFails(u)
  PROVE  VoteHasEvent' /\ ReadsHadEvents' /\ EventFound'
<1>1. VotesTypeOK /\ ReadsHadEvents /\ EventFound /\ VoteHasEvent /\ PurgeAlone
  BY DEF VotesInv
<1>2. /\ UNCHANGED <<share, visit, at, previous>>
      /\ \A v \in Voters : purge[v] = "done" => purge'[v] = "done"
      /\ \A v \in Voters \ {u} : vote'[v] = vote[v]
      /\ \A x \in events : x.voter # u => x \in events'
  BY <1>1 DEF LockUser, PurgeEvents, PurgeVotes, CommitPurge, PurgeFails, PurgeGoesOn, Stored,
              OfVoter, UserLocked, VotesTypeOK
<1>3. \/ vote' = vote /\ events' = events
      \/ purge[u] = "commit" /\ purge'[u] = "done" /\ vote'[u] = NoChoice
  BY <1>1 DEF LockUser, PurgeEvents, PurgeVotes, CommitPurge, PurgeFails, PurgeGoesOn, Stored,
              VotesTypeOK
<1>4. \A v \in Voters, c \in Choices : VoteEvent(v, c).voter = v
  BY DEF VoteEvent
<1>5. VoteHasEvent'
  <2> SUFFICES ASSUME NEW v \in Voters, vote'[v] # NoChoice
               PROVE  \/ VoteEvent(v, vote'[v]) \in events'
                      \/ purge'[v] = "done" /\ \E q \in Visits : Repeated(q, v)'
    BY DEF VoteHasEvent, VoteEvent
  <2>1. vote'[v] = vote[v] /\ (v # u \/ events' = events)
    BY <1>2, <1>3
  <2>2. vote[v] \in Choices
    BY <1>1, <2>1 DEF VotesTypeOK
  <2>3. \A q \in Visits : Repeated(q, v) => Repeated(q, v)'
    BY <1>2, <2>1 DEF Repeated, VoteEvent
  <2>4. VoteEvent(v, vote[v]) \in events => VoteEvent(v, vote'[v]) \in events'
    BY <1>2, <1>4, <2>1, <2>2
  <2>5. QED
    BY <1>1, <1>2, <2>1, <2>3, <2>4 DEF VoteHasEvent
<1>6. ReadsHadEvents'
  <2> SUFFICES ASSUME NEW r \in Visits, previous[r] # NoChoice
               PROVE  \/ VoteEvent(visit[r].voter, previous[r]) \in events'
                      \/ purge'[visit[r].voter] = "done"
    BY <1>2 DEF ReadsHadEvents, VoteEvent
  <2>1. visit[r].voter \in Voters /\ previous[r] \in Choices
    BY <1>1, VisitTypes DEF VotesTypeOK
  <2>2. QED
    BY <1>1, <1>2, <1>3, <1>4, <2>1 DEF ReadsHadEvents
<1>7. EventFound'
  <2> SUFFICES ASSUME NEW r \in Visits, visit[r].name = "vote", at[r] = "commit", Fresh(r)
               PROVE  visit[r] \in events'
    BY <1>2 DEF EventFound, Fresh
  <2>1. visit[r] \in events /\ HasVoted(r)
    BY <1>1 DEF EventFound, HasVoted
  <2>2. visit[r].voter # u \/ purge[u] # "commit"
    BY <1>1, <2>1 DEF PurgeAlone
  <2>3. QED
    BY <1>2, <1>3, <2>1, <2>2
<1>8. QED
  BY <1>5, <1>6, <1>7

LEMMA VotesStep ==
  ASSUME VotesInv, VotesNext
  PROVE  VotesInv'
<1>1. VotesTypeOK /\ VotesTypeOK' /\ PurgeAlone'
  BY VoteTypes, PurgeWaits DEF VotesInv
<1>2. share' = "ACTIVE" => share = "ACTIVE"
  BY <1>1 DEF VotesNext, GetScene, ReadVote, UpsertVote, RecordEvent, CommitVisit, FailVisit,
              Plan, DeleteEvents, Erase, EraseFails, LockUser, PurgeEvents, PurgeVotes,
              CommitPurge, PurgeFails, Stored, VotesTypeOK
<1>3. ASSUME share' = "ACTIVE"
      PROVE  VoteHasEvent' /\ ReadsHadEvents' /\ EventFound'
  <2>1. CASE Plan \/ DeleteEvents \/ EraseFails
    <3>1. UNCHANGED <<share, vote, events, visit, at, previous, purge>>
      BY <2>1 DEF Plan, DeleteEvents, EraseFails, Stored
    <3>2. QED
      BY <1>2, <1>3, <3>1 DEF VotesInv, VoteHasEvent, ReadsHadEvents, EventFound, Fresh,
                              Repeated, VoteEvent
  <2>2. ~Erase
    BY <1>3 DEF Erase
  <2>3. QED
    BY <1>2, <1>3, <2>1, <2>2, CommitStepVotes, OpenStepVotes, PurgeStepVotes DEF VotesNext
<1>4. share' # "ACTIVE" => VoteHasEvent'
  BY DEF VoteHasEvent
<1>5. QED
  BY <1>1, <1>3, <1>4 DEF VotesInv

LEMMA VotesStart == VotesInit => VotesInv
BY DEF VotesInit, VotesInv, VotesTypeOK, VoteHasEvent, ReadsHadEvents, EventFound, PurgeAlone,
       HasVoted

LEMMA VotesStutter ==
  ASSUME VotesInv, UNCHANGED voteVars
  PROVE  VotesInv'
BY DEF voteVars, VotesInv, VotesTypeOK, VoteHasEvent, ReadsHadEvents, EventFound, PurgeAlone,
       HasVoted, Fresh, Repeated, VoteEvent

LEMMA VotesKept ==
  ASSUME VotesInv, [VotesNext]_voteVars
  PROVE  VotesInv'
BY VotesStep, VotesStutter

LEMMA VotesInvariant == VotesSpec => []VotesInv
BY VotesStart, VotesKept, PTL DEF VotesSpec

(***************************************************************************)
(* The variables of shares, votes, events and deletions keep their types.  *)
(***************************************************************************)
THEOREM VotesTypeCorrect == VotesSpec => []VotesTypeOK
<1>1. VotesInv => VotesTypeOK
  BY DEF VotesInv
<1>2. QED
  BY <1>1, VotesInvariant, PTL

(***************************************************************************)
(* However the requests of a friend overtake each other and the deletion   *)
(* of his account, and for any number of them: the vote that counts is one *)
(* the events know, unless a request that had read it repeated it after    *)
(* that deletion.                                                          *)
(***************************************************************************)
THEOREM VotesHaveEvents == VotesSpec => []VoteHasEvent
<1>1. VotesInv => VoteHasEvent
  BY DEF VotesInv
<1>2. QED
  BY <1>1, VotesInvariant, PTL

(***************************************************************************)
(* EventsGoWithShare does not hold.  What does: no vote outlives its       *)
(* share, since its foreign key keeps the two in order.                    *)
(***************************************************************************)
NobodyVotes == share = "GONE" => \A r \in Visits : ~HasVoted(r)

LEMMA VotesErased ==
  ASSUME VotesTypeOK, VotesGoWithShare, NobodyVotes, VotesNext
  PROVE  (VotesGoWithShare /\ NobodyVotes)'
<1> USE DEF VotesGoWithShare, NobodyVotes
<1>1. ASSUME NEW r \in Visits,
             GetScene(r) \/ ReadVote(r) \/ UpsertVote(r) \/ RecordEvent(r) \/ FailVisit(r)
      PROVE  (VotesGoWithShare /\ NobodyVotes)'
  <2>1. /\ UNCHANGED Stored /\ UNCHANGED visit
        /\ \A q \in Visits \ {r} : at'[q] = at[q]
    BY <1>1 DEF GetScene, ReadVote, UpsertVote, RecordEvent, FailVisit, MoveTo, VotesTypeOK
  <2>2. share = "GONE" /\ UpsertVote(r) => at'[r] = "failed"
    BY VisitTypes DEF UpsertVote, ShareMissing, MoveTo, VotesTypeOK
  <2>3. HasVoted(r)' => HasVoted(r) \/ UpsertVote(r)
    BY <1>1 DEF GetScene, ReadVote, RecordEvent, FailVisit, MoveTo, HasVoted, VotesTypeOK
  <2>4. \A q \in Visits \ {r} : HasVoted(q)' => HasVoted(q)
    BY <2>1 DEF HasVoted
  <2>5. at'[r] = "failed" => ~HasVoted(r)'
    BY DEF HasVoted
  <2>6. QED
    BY <2>1, <2>2, <2>3, <2>4, <2>5 DEF Stored
<1>2. ASSUME NEW r \in Visits, CommitVisit(r)
      PROVE  (VotesGoWithShare /\ NobodyVotes)'
  <2>1. /\ at[r] \in {"commit", "commit_event"} /\ UNCHANGED <<share, visit>>
        /\ \A q \in Visits : at'[q] = IF q = r THEN "done" ELSE at[q]
        /\ visit[r].name = "vote" \/ vote' = vote
    BY <1>2 DEF CommitVisit, MoveTo, VotesTypeOK
  <2>2. QED
    BY <2>1 DEF HasVoted
<1>3. CASE Plan \/ DeleteEvents \/ EraseFails
  BY <1>3 DEF Plan, DeleteEvents, EraseFails, Stored, HasVoted
<1>4. CASE Erase
  BY <1>4 DEF Erase, HasVoted
<1>5. ASSUME NEW u \in Voters,
             LockUser(u) \/ PurgeEvents(u) \/ PurgeVotes(u) \/ CommitPurge(u) \/ PurgeFails(u)
      PROVE  (VotesGoWithShare /\ NobodyVotes)'
  <2>1. UNCHANGED <<share, visit, at>> /\ \A v \in Voters : vote'[v] \in {vote[v], NoChoice}
    BY <1>5 DEF LockUser, PurgeEvents, PurgeVotes, CommitPurge, PurgeFails, Stored, VotesTypeOK
  <2>2. QED
    BY <2>1 DEF HasVoted
<1>6. QED
  BY <1>1, <1>2, <1>3, <1>4, <1>5 DEF VotesNext

LEMMA ErasedStart == VotesInit => VotesGoWithShare /\ NobodyVotes
BY DEF VotesInit, VotesGoWithShare, NobodyVotes

LEMMA ErasedKept ==
  ASSUME VotesTypeOK, VotesGoWithShare, NobodyVotes, [VotesNext]_voteVars
  PROVE  (VotesGoWithShare /\ NobodyVotes)'
<1>1. CASE UNCHANGED voteVars
  BY <1>1 DEF voteVars, VotesGoWithShare, NobodyVotes, HasVoted
<1>2. QED
  BY <1>1, VotesErased

(***************************************************************************)
(* A friend who votes while the share is being deleted either makes the    *)
(* deletion wait or fails: no vote is left without its share.              *)
(***************************************************************************)
THEOREM NoVoteIsLeft == VotesSpec => []VotesGoWithShare
BY ErasedStart, ErasedKept, VotesTypeCorrect, PTL DEF VotesSpec

-----------------------------------------------------------------------------
(***************************************************************************)
(* Model calls.  At every step of a call the rows of the routes behind it  *)
(* are settled, that of the route in hand is as far as the call, and those *)
(* of the routes ahead are not there.                                      *)
(***************************************************************************)
InHand(e) ==
  CASE stage[e] \in {"ask", "succeeded", "fail"} -> {"STARTED"}
    [] stage[e] = "returned" -> {"SUCCEEDED"}
    [] OTHER -> {"NONE"}

Behind(e, i) ==
  IF ~registered[e] THEN "NONE"
  ELSE IF attempts[e][i] = "TIMEOUT" THEN "TIMED_OUT" ELSE "FAILED"

RowsInOrder(e) ==
  \A i \in 1 .. MaxRoutes :
    /\ i < Route(e) => invocation[e][i] = Behind(e, i)
    /\ i = Route(e) => invocation[e][i] \in InHand(e)
    /\ i > Route(e) => invocation[e][i] = "NONE"

Asking == {"ask", "succeeded", "fail", "returned"}

GatewayInv ==
  /\ GatewayTypeOK
  /\ \A e \in Executions :
       /\ stage[e] = "begin" => attempts[e] = <<>>
       /\ stage[e] \in Asking => registered[e] /\ Route(e) <= Len(policy[e])
       /\ stage[e] = "fail" => error[e] \in Errors
       /\ jobThere /\ stage[e] # "raised" => RowsInOrder(e)

LEMMA PolicyTypes ==
  /\ <<>> \in Routes
  /\ \A p \in Routes : Len(p) \in Nat /\ Len(p) <= MaxRoutes
  /\ \A d \in Deployments : PolicyOf(d, FALSE) \in Routes /\ PolicyOf(d, UseCanary(d)) \in Routes
<1>1. \A p \in Routes : Len(p) \in Nat /\ Len(p) <= MaxRoutes
  <2> SUFFICES ASSUME NEW p \in Routes
               PROVE  Len(p) \in Nat /\ Len(p) <= MaxRoutes
    OBVIOUS
  <2>1. PICK n \in 0 .. 2 : p \in [1 .. n -> Models]
    BY DEF Routes, MaxRoutes
  <2>2. Len(p) = n
    BY <2>1
  <2>3. QED
    BY <2>1, <2>2 DEF MaxRoutes
<1>2. \A n \in 0 .. MaxRoutes : [1 .. n -> Models] \subseteq Routes
  BY Zenon DEF Routes
<1>3. 0 \in 0 .. MaxRoutes /\ 1 \in 0 .. MaxRoutes /\ 2 \in 0 .. MaxRoutes
  BY DEF MaxRoutes
<1>4. <<>> \in Routes
  <2>1. <<>> \in [1 .. 0 -> Models]
    OBVIOUS
  <2>2. QED
    BY <1>2, <1>3, <2>1
<1>5. ASSUME NEW d \in Deployments
      PROVE  PolicyOf(d, FALSE) \in Routes /\ PolicyOf(d, UseCanary(d)) \in Routes
  <2>1. \A m \in {d.primary, d.canary, d.fallback} : m \in Models
    BY DEF Models
  <2>2. PICK first \in {d.primary, d.canary} :
          PolicyOf(d, UseCanary(d)) \in {<<first>>, <<first, d.fallback>>}
    BY DEF PolicyOf
  <2>3. PolicyOf(d, FALSE) \in {<<d.primary>>, <<d.primary, d.fallback>>}
    BY DEF PolicyOf
  <2>4. \A m \in Models : <<m>> \in Routes /\ \A n \in Models : <<m, n>> \in Routes
    <3>1. \A m \in Models : <<m>> \in [1 .. 1 -> Models]
                             /\ \A n \in Models : <<m, n>> \in [1 .. 2 -> Models]
      OBVIOUS
    <3>2. QED
      BY <1>2, <1>3, <3>1
  <2>5. QED
    BY <2>1, <2>2, <2>3, <2>4
<1>6. QED
  BY <1>1, <1>4, <1>5

LEMMA GatewayStart == GatewayInit => GatewayInv
<1> SUFFICES ASSUME GatewayInit PROVE GatewayInv
  OBVIOUS
<1>1. snapshot \in Routes
  BY PolicyTypes DEF GatewayInit
<1>2. attempts \in [Executions -> Seq(Codes)] /\ \A e \in Executions : Len(attempts[e]) <= Len(policy[e])
  BY DEF GatewayInit
<1>3. GatewayTypeOK
  BY <1>1, <1>2, PolicyTypes DEF GatewayInit, GatewayTypeOK, Statuses
<1>4. QED
  BY <1>3 DEF GatewayInit, GatewayInv, RowsInOrder, Route, InHand, Asking

(***************************************************************************)
(* What one execution's step leaves to the others.                         *)
(***************************************************************************)
LEMMA CallStep ==
  ASSUME GatewayInv, NEW e \in Executions,
         \/ BeginCall(e) \/ NoProvider(e) \/ Started(e) \/ Answer(e) \/ Refuse(e)
         \/ Succeeded(e) \/ Failed(e) \/ AllProvidersFailed(e) \/ Raise(e)
  PROVE  GatewayInv'
<1>0. GatewayTypeOK /\ Len(attempts[e]) \in Nat
  BY DEF GatewayInv, GatewayTypeOK
<1> DEFINE Others == \A f \in Executions \ {e} :
                       /\ stage'[f] = stage[f] /\ attempts'[f] = attempts[f]
                       /\ policy'[f] = policy[f] /\ registered'[f] = registered[f]
                       /\ error'[f] = error[f] /\ invocation'[f] = invocation[f]
           Mine == /\ stage'[e] = "begin" => attempts'[e] = <<>>
                   /\ stage'[e] \in Asking => registered'[e] /\ Route(e)' <= Len(policy'[e])
                   /\ stage'[e] = "fail" => error'[e] \in Errors
                   /\ jobThere' /\ stage'[e] # "raised" => RowsInOrder(e)'
<1>1. ASSUME GatewayTypeOK', Others, Mine, jobThere' = jobThere
      PROVE  GatewayInv'
  <2>1. ASSUME NEW f \in Executions \ {e}
        PROVE  /\ stage'[f] = "begin" => attempts'[f] = <<>>
               /\ stage'[f] \in Asking => registered'[f] /\ Route(f)' <= Len(policy'[f])
               /\ stage'[f] = "fail" => error'[f] \in Errors
               /\ jobThere' /\ stage'[f] # "raised" => RowsInOrder(f)'
    <3>1. UNCHANGED <<stage[f], attempts[f], policy[f], registered[f], error[f], invocation[f]>>
      BY <1>1, <2>1
    <3>2. Route(f)' = Route(f) /\ (RowsInOrder(f) => RowsInOrder(f)')
      BY <3>1 DEF Route, RowsInOrder, Behind, InHand
    <3>3. QED
      BY <1>1, <2>1, <3>1, <3>2 DEF GatewayInv
  <2>2. QED
    BY <1>1, <2>1 DEF GatewayInv
<1> DEFINE turn == Route(e)
<1>2. turn \in Nat \ {0} /\ turn = Len(attempts[e]) + 1
  BY <1>0 DEF Route
<1>3. ASSUME NEW status \in Statuses, turn <= MaxRoutes, Write(e, status)
      PROVE  /\ invocation' \in [Executions -> [1 .. MaxRoutes -> Statuses]]
             /\ \A f \in Executions \ {e} : invocation'[f] = invocation[f]
             /\ jobThere => \A i \in 1 .. MaxRoutes :
                  invocation'[e][i] = IF i = turn THEN status ELSE invocation[e][i]
  BY <1>0, <1>2, <1>3 DEF Write, GatewayTypeOK
<1>4. Len(policy[e]) \in Nat /\ Len(policy[e]) <= MaxRoutes /\ MaxRoutes \in Nat
  BY <1>0, PolicyTypes DEF MaxRoutes, GatewayTypeOK
<1>5. /\ More(e) => turn <= MaxRoutes /\ turn <= Len(policy[e]) /\ stage[e] = "route"
      /\ stage[e] \in Asking => turn <= MaxRoutes /\ turn <= Len(policy[e]) /\ registered[e]
  BY <1>2, <1>4 DEF More, GatewayInv
<1>6. jobThere /\ stage[e] # "raised" => RowsInOrder(e)
  BY DEF GatewayInv
<1> HIDE DEF turn
<1>7. CASE BeginCall(e)
  <2>1. /\ Others /\ UNCHANGED <<attempts, error, invocation, jobThere>>
        /\ stage'[e] = "route" /\ stage[e] = "begin"
    BY <1>0, <1>7 DEF BeginCall, GatewayTypeOK, Enter, Job
  <2>2. attempts[e] = <<>> /\ attempts'[e] = <<>>
    BY <1>0, <2>1 DEF GatewayInv
  <2>3. policy' \in [Executions -> Routes] /\ registered' \in [Executions -> BOOLEAN]
    BY <1>0, <1>7, PolicyTypes, GatewayAssumption DEF BeginCall, JobPolicy, GatewayTypeOK
  <2>4. \A f \in Executions : Len(attempts'[f]) <= Len(policy'[f])
    <3>1. \A f \in Executions : Len(policy'[f]) \in Nat
      BY <1>0, <2>3, PolicyTypes
    <3>2. Len(attempts'[e]) = 0
      BY <2>2
    <3>3. Len(attempts'[e]) <= Len(policy'[e])
      BY <3>1, <3>2
    <3>4. ASSUME NEW f \in Executions \ {e}
          PROVE  Len(attempts'[f]) <= Len(policy'[f])
      <4>1. attempts'[f] = attempts[f] /\ policy'[f] = policy[f]
        BY <2>1
      <4>2. Len(attempts[f]) <= Len(policy[f])
        BY <1>0 DEF GatewayTypeOK
      <4>3. QED
        BY <4>1, <4>2
    <3>5. QED
      BY <3>3, <3>4
  <2>5. GatewayTypeOK'
    BY <1>0, <1>7, <2>3, <2>4 DEF BeginCall, GatewayTypeOK, Enter, Job
  <2>6. Mine
    BY <1>6, <2>1, <2>2 DEF RowsInOrder, Route, InHand, Asking
  <2>7. QED
    BY <1>1, <2>1, <2>5, <2>6
<1>8. ASSUME NEW code \in Codes, attempts' = [attempts EXCEPT ![e] = Append(@, code)],
             turn <= Len(policy[e]), policy' = policy
      PROVE  /\ attempts' \in [Executions -> Seq(Codes)]
             /\ \A f \in Executions : Len(attempts'[f]) <= Len(policy'[f])
             /\ \A f \in Executions \ {e} : attempts'[f] = attempts[f]
             /\ Route(e)' = turn + 1
             /\ \A i \in 1 .. MaxRoutes : i < turn => attempts'[e][i] = attempts[e][i]
             /\ attempts'[e][turn] = code
  <2>1. attempts'[e] = Append(attempts[e], code) /\ attempts[e] \in Seq(Codes)
    BY <1>0, <1>8 DEF GatewayTypeOK
  <2>2. attempts' \in [Executions -> Seq(Codes)]
    BY <1>0, <1>8, <2>1 DEF GatewayTypeOK
  <2>3. Len(attempts'[e]) = turn
    BY <1>2, <2>1
  <2>4. \A f \in Executions \ {e} : attempts'[f] = attempts[f]
    BY <1>0, <1>8 DEF GatewayTypeOK
  <2>5. \A f \in Executions : Len(attempts'[f]) <= Len(policy'[f])
    BY <1>0, <1>8, <2>3, <2>4 DEF GatewayTypeOK
  <2>6. attempts'[e][turn] = code
    BY <1>2, <2>1
  <2>7. \A i \in 1 .. MaxRoutes : i < turn => attempts'[e][i] = attempts[e][i]
    BY <1>2, <1>4, <2>1
  <2>8. QED
    BY <2>2, <2>3, <2>4, <2>5, <2>6, <2>7 DEF Route
<1>9. CASE NoProvider(e)
  <2>1. /\ UNCHANGED <<stage, policy, registered, invocation, error, jobThere>>
        /\ attempts' = [attempts EXCEPT ![e] = Append(@, "UNAVAILABLE")]
        /\ "UNAVAILABLE" \in Codes /\ ~registered[e] /\ More(e)
    BY <1>9 DEF NoProvider, Job, Call, Codes, Errors
  <2>2. GatewayTypeOK'
    BY <1>0, <1>5, <1>8, <1>9, <2>1 DEF GatewayTypeOK, NoProvider, Job, Call
  <2>3. Mine
    BY <1>2, <1>4, <1>5, <1>6, <1>8, <2>1 DEF RowsInOrder, Behind, InHand, Asking, turn
  <2>4. QED
    BY <1>1, <1>5, <1>8, <2>1, <2>2, <2>3
<1>10. CASE Started(e)
  <2>1. /\ UNCHANGED <<attempts, policy, registered, error, jobThere>>
        /\ stage' = [stage EXCEPT ![e] = IF jobThere THEN "ask" ELSE "raised"]
        /\ registered[e] /\ More(e) /\ Write(e, "STARTED") /\ "STARTED" \in Statuses
    BY <1>10 DEF Started, Job, Call, Enter, Statuses
  <2>2. GatewayTypeOK'
    BY <1>0, <1>3, <1>5, <1>10, <2>1 DEF GatewayTypeOK, Started, Job, Call
  <2>3. Route(e)' = turn /\ stage'[e] = IF jobThere THEN "ask" ELSE "raised"
    BY <1>0, <2>1 DEF Route, turn, GatewayTypeOK
  <2>4. Mine
    BY <1>2, <1>3, <1>4, <1>5, <1>6, <2>1, <2>3 DEF RowsInOrder, Behind, InHand, Asking, turn
  <2>5. QED
    BY <1>0, <1>1, <1>3, <1>5, <2>1, <2>2, <2>4 DEF GatewayTypeOK
<1>11. ASSUME NEW step \in {"route", "ask", "succeeded", "fail", "returned", "failed", "raised"},
              Enter(e, step)
       PROVE  /\ stage' \in [Executions -> {"begin", "route", "ask", "succeeded", "fail",
                                            "returned", "failed", "raised"}]
              /\ stage'[e] = step
              /\ \A f \in Executions \ {e} : stage'[f] = stage[f]
  BY <1>0, <1>11 DEF Enter, GatewayTypeOK
<1>12. ASSUME UNCHANGED <<attempts, registered>>
       PROVE  /\ Route(e)' = turn
              /\ \A i \in 1 .. MaxRoutes : Behind(e, i)' = Behind(e, i)
  BY <1>12 DEF Route, turn, Behind
<1>13. ASSUME Answer(e) \/ Refuse(e)
       PROVE  GatewayInv'
  <2>1. /\ UNCHANGED <<attempts, policy, registered, invocation, jobThere, task, settings,
                       cohort, snapshot>>
        /\ stage[e] = "ask"
    BY <1>13 DEF Answer, Refuse, Job, Call
  <2>2. PICK step \in {"succeeded", "fail"} : Enter(e, step)
    BY <1>13 DEF Answer, Refuse
  <2>3. error' \in [Executions -> Errors \cup {NoError}]
    BY <1>0, <1>13 DEF Answer, Refuse, GatewayTypeOK
  <2>4. GatewayTypeOK'
    BY <1>0, <1>11, <2>1, <2>2, <2>3 DEF GatewayTypeOK
  <2>5. /\ \A f \in Executions \ {e} : error'[f] = error[f]
        /\ step = "fail" => error'[e] \in Errors
    BY <1>0, <1>11, <1>13, <2>2 DEF Answer, Refuse, GatewayTypeOK
  <2>6. stage'[e] \in {"succeeded", "fail"} /\ Route(e)' = turn
    BY <1>11, <1>12, <2>1, <2>2
  <2>7. Mine
    <3>1. RowsInOrder(e) => RowsInOrder(e)'
      BY <1>12, <2>1, <2>6 DEF RowsInOrder, InHand, turn
    <3>2. QED
      BY <1>5, <1>6, <1>11, <2>1, <2>2, <2>6, <2>5, <3>1 DEF Asking, turn
  <2>8. QED
    BY <1>1, <1>11, <2>1, <2>2, <2>4, <2>7, <2>5
<1>14. ASSUME Succeeded(e)
       PROVE  GatewayInv'
  <2>1. /\ UNCHANGED <<attempts, policy, registered, jobThere, task, settings, cohort, snapshot, error>>
        /\ stage[e] = "succeeded" /\ "SUCCEEDED" \in Statuses
        /\ Enter(e, "returned") /\ Write(e, "SUCCEEDED")
    BY <1>14 DEF Succeeded, Job, Call, Statuses
  <2>2. turn <= MaxRoutes
    BY <1>5, <2>1 DEF Asking
  <2>3. /\ invocation' \in [Executions -> [1 .. MaxRoutes -> Statuses]]
        /\ \A f \in Executions \ {e} : invocation'[f] = invocation[f]
        /\ jobThere => \A i \in 1 .. MaxRoutes :
             invocation'[e][i] = IF i = turn THEN "SUCCEEDED" ELSE invocation[e][i]
    BY <1>3, <2>1, <2>2
  <2>4. GatewayTypeOK'
    BY <1>0, <1>11, <2>1, <2>3 DEF GatewayTypeOK
  <2>5. stage'[e] = "returned" /\ Route(e)' = turn
    BY <1>11, <1>12, <2>1
  <2>6. ASSUME jobThere PROVE RowsInOrder(e)'
    <3>1. RowsInOrder(e)
      BY <1>6, <2>1, <2>6
    <3>2. SUFFICES ASSUME NEW i \in 1 .. MaxRoutes
                   PROVE  /\ i < turn => invocation'[e][i] = Behind(e, i)
                          /\ i = turn => invocation'[e][i] \in InHand(e)'
                          /\ i > turn => invocation'[e][i] = "NONE"
      BY <1>12, <2>1, <2>5 DEF RowsInOrder
    <3>3. i = turn => invocation'[e][i] \in InHand(e)'
      BY <2>3, <2>5, <2>6 DEF InHand
    <3>4. QED
      BY <1>2, <2>3, <2>6, <3>1, <3>3 DEF RowsInOrder, turn
  <2>7. Mine
    BY <1>5, <2>1, <2>5, <2>6 DEF Asking, turn
  <2>8. QED
    BY <1>1, <1>11, <2>1, <2>3, <2>4, <2>7
<1>15. ASSUME Failed(e)
       PROVE  GatewayInv'
  <2> DEFINE code == error[e].code
             status == FailureStatus(code)
             step == IF error[e].retryable THEN "route" ELSE "failed"
  <2>1. /\ UNCHANGED <<policy, registered, jobThere, task, settings, cohort, snapshot>>
        /\ stage[e] = "fail" /\ Enter(e, step) /\ Write(e, status)
        /\ attempts' = [attempts EXCEPT ![e] = Append(@, code)]
    BY <1>15 DEF Failed, Job, Call
  <2>2. error[e] \in Errors
    BY <2>1 DEF GatewayInv
  <2>3. code \in Codes /\ status \in Statuses /\ step \in {"route", "failed"}
    BY <2>2 DEF Codes, Statuses, FailureStatus
  <2>4. turn <= MaxRoutes /\ turn <= Len(policy[e]) /\ registered[e]
    BY <1>5, <2>1 DEF Asking
  <2>5. /\ error' \in [Executions -> Errors \cup {NoError}]
        /\ \A f \in Executions \ {e} : error'[f] = error[f]
    BY <1>0, <1>15 DEF Failed, GatewayTypeOK
  <2> HIDE DEF code, status, step
  <2>6. GatewayTypeOK'
    BY <1>0, <1>3, <1>8, <1>11, <2>1, <2>3, <2>4, <2>5 DEF GatewayTypeOK
  <2>7. stage'[e] = step /\ Route(e)' = turn + 1
    BY <1>8, <1>11, <2>1, <2>3, <2>4
  <2>8. ASSUME jobThere PROVE RowsInOrder(e)'
    <3>1. RowsInOrder(e)
      BY <1>6, <2>1, <2>8
    <3>2. \A i \in 1 .. MaxRoutes :
            invocation'[e][i] = IF i = turn THEN status ELSE invocation[e][i]
      BY <1>3, <2>1, <2>3, <2>4, <2>8
    <3>3. \A i \in 1 .. MaxRoutes : i < turn => attempts'[e][i] = attempts[e][i]
      BY <1>8, <2>1, <2>3, <2>4
    <3>4. attempts'[e][turn] = code
      BY <1>8, <2>1, <2>3, <2>4
    <3>5. status = IF code = "TIMEOUT" THEN "TIMED_OUT" ELSE "FAILED"
      BY DEF status, FailureStatus
    <3>6. InHand(e)' = {"NONE"}
      BY <2>3, <2>7 DEF InHand
    <3>7. SUFFICES ASSUME NEW i \in 1 .. MaxRoutes
                   PROVE  /\ i < turn + 1 => invocation'[e][i] = Behind(e, i)'
                          /\ i = turn + 1 => invocation'[e][i] = "NONE"
                          /\ i > turn + 1 => invocation'[e][i] = "NONE"
      BY <2>7, <3>6 DEF RowsInOrder
    <3>8. CASE i = turn
      BY <1>2, <2>1, <2>4, <3>2, <3>4, <3>5, <3>8 DEF Behind
    <3>9. CASE i < turn
      BY <1>2, <2>1, <2>4, <3>1, <3>2, <3>3, <3>9 DEF Behind, RowsInOrder, turn
    <3>10. CASE i > turn
      BY <1>2, <3>1, <3>2, <3>10 DEF RowsInOrder, turn
    <3>11. QED
      BY <1>2, <1>4, <3>8, <3>9, <3>10
  <2>9. Mine
    BY <2>1, <2>3, <2>7, <2>8 DEF Asking
  <2>10. QED
    BY <1>1, <1>3, <1>8, <1>11, <2>1, <2>3, <2>4, <2>5, <2>6, <2>9
<1>16. ASSUME AllProvidersFailed(e) \/ Raise(e)
       PROVE  GatewayInv'
  <2>1. /\ UNCHANGED <<attempts, policy, registered, invocation, error, jobThere, task, settings,
                       cohort, snapshot>>
        /\ stage[e] = "route" \/ Raise(e)
    BY <1>16 DEF AllProvidersFailed, Raise, Job, Call
  <2>2. PICK step \in {"failed", "raised"} : Enter(e, step) /\ (step = "failed" => stage[e] = "route")
    BY <1>16 DEF AllProvidersFailed, Raise
  <2>3. GatewayTypeOK'
    BY <1>0, <1>11, <2>1, <2>2 DEF GatewayTypeOK
  <2>4. stage'[e] = step
    BY <1>11, <2>2
  <2>5. step = "failed" => InHand(e) = {"NONE"} /\ InHand(e)' = {"NONE"}
    BY <2>2, <2>4 DEF InHand
  <2>6. Mine
    BY <1>6, <1>12, <2>1, <2>2, <2>4, <2>5 DEF RowsInOrder, Asking, turn
  <2>7. QED
    BY <1>1, <1>11, <2>1, <2>2, <2>3, <2>6
<1>17. QED
  BY <1>7, <1>9, <1>10, <1>13, <1>14, <1>15, <1>16

LEMMA GatewayStep ==
  ASSUME GatewayInv, GatewayNext
  PROVE  GatewayInv'
<1>1. CASE \E d \in Deployments : Deploy(d)
  BY <1>1 DEF Deploy, GatewayInv, GatewayTypeOK, RowsInOrder, Route, Behind, InHand
<1>2. CASE Purge
  BY <1>2 DEF Purge, GatewayInv, GatewayTypeOK, Route, Statuses
<1>3. QED
  BY <1>1, <1>2, CallStep DEF GatewayNext

LEMMA GatewayKept ==
  ASSUME GatewayInv, [GatewayNext]_gatewayVars
  PROVE  GatewayInv'
<1>1. CASE UNCHANGED gatewayVars
  BY <1>1 DEF gatewayVars, GatewayInv, GatewayTypeOK, RowsInOrder, Route, Behind, InHand
<1>2. QED
  BY <1>1, GatewayStep

LEMMA GatewayInvariant == GatewaySpec => []GatewayInv
BY GatewayStart, GatewayKept, PTL DEF GatewaySpec

(***************************************************************************)
(* The variables of model calls keep their types: no call has more attempts *)
(* than its policy has routes.                                             *)
(***************************************************************************)
THEOREM GatewayTypeCorrect == GatewaySpec => []GatewayTypeOK
<1>1. GatewayInv => GatewayTypeOK
  BY DEF GatewayInv
<1>2. QED
  BY <1>1, GatewayInvariant, PTL

LEMMA RowsAreRecords == GatewayInv => AttemptsRecorded
<1> SUFFICES ASSUME GatewayInv, jobThere, NEW e \in Executions,
                    stage[e] \in {"returned", "failed"}, NEW i \in 1 .. MaxRoutes
             PROVE  CASE i <= Len(attempts[e]) ->
                           invocation[e][i] = IF ~registered[e] THEN "NONE"
                                              ELSE IF attempts[e][i] = "TIMEOUT"
                                                     THEN "TIMED_OUT" ELSE "FAILED"
                      [] i = Route(e) /\ stage[e] = "returned" -> invocation[e][i] = "SUCCEEDED"
                      [] OTHER -> invocation[e][i] = "NONE"
  BY DEF AttemptsRecorded, RowsTellCall
<1>1. Len(attempts[e]) \in Nat /\ Route(e) = Len(attempts[e]) + 1 /\ i \in Nat
  BY DEF GatewayInv, GatewayTypeOK, Route, MaxRoutes
<1>2. /\ i < Route(e) => invocation[e][i] = Behind(e, i)
      /\ i = Route(e) => invocation[e][i] \in InHand(e)
      /\ i > Route(e) => invocation[e][i] = "NONE"
  BY DEF GatewayInv, RowsInOrder
<1>3. InHand(e) = IF stage[e] = "returned" THEN {"SUCCEEDED"} ELSE {"NONE"}
  BY DEF InHand
<1>4. CASE i <= Len(attempts[e])
  BY <1>1, <1>2, <1>4 DEF Behind
<1>5. CASE i = Route(e)
  BY <1>1, <1>2, <1>3, <1>5
<1>6. CASE i > Route(e)
  BY <1>1, <1>2, <1>6
<1>7. QED
  BY <1>1, <1>4, <1>5, <1>6

(***************************************************************************)
(* Whatever fails, is deployed or is purged: a call that has ended is told *)
(* by its rows, one settled row for each provider that was asked.          *)
(***************************************************************************)
THEOREM AttemptsAreRecorded == GatewaySpec => []AttemptsRecorded
BY RowsAreRecords, GatewayInvariant, PTL

-----------------------------------------------------------------------------
(***************************************************************************)
(* The mini program.  Memory and storage agree between two steps; every    *)
(* key that was sent is kept: in the task list, as the job last shown, as  *)
(* the pending request, or counted as forsaken.                            *)
(***************************************************************************)
InStep == storage = [pending |-> pendingRequest, jobs |-> trackedJobIds, active |-> activeId]

Kept(k) == k \in trackedJobIds \cup {activeId} \cup PendingKeys \cup forsaken

Sent(k) ==
  \/ k \in onTheWay \cup answered
  \/ jobRow[k] # "NONE"
  \/ \E c \in Taps : tap[c].step = "sent" /\ tap[c].key = k

MiniInv ==
  /\ MiniTypeOK
  /\ InStep
  /\ activeId # 0 => activeId \in trackedJobIds \cup forsaken
  /\ \A k \in RequestKeys : Sent(k) => Kept(k)

LEMMA MiniStart == MiniInit => MiniInv
<1> SUFFICES ASSUME MiniInit PROVE MiniInv
  OBVIOUS
<1> USE DEF MiniInit, Idle
<1>1. MiniTypeOK
  <2>1. pendingRequest \in Pending /\ tap \in [Taps -> TapStates]
    BY DEF Pending, TapStates
  <2>2. storage \in [pending : Pending, jobs : SUBSET RequestKeys, active : 0 .. MaxKeys]
    BY <2>1, MiniAssumption
  <2>3. QED
    BY <2>1, <2>2, MiniAssumption DEF MiniTypeOK
<1>2. InStep /\ activeId = 0
  BY DEF InStep
<1>3. \A k \in RequestKeys : ~Sent(k)
  BY DEF Sent
<1>4. QED
  BY <1>1, <1>2, <1>3 DEF MiniInv

(***************************************************************************)
(* What is read back from a well-typed storage is well typed.              *)
(***************************************************************************)
LEMMA StoredTypes ==
  ASSUME MiniTypeOK, NEW stored, Hydrated(stored),
         stored \in [pending : Pending, jobs : SUBSET RequestKeys, active : 0 .. MaxKeys]
  PROVE  /\ pendingRequest' \in Pending
         /\ trackedJobIds' \subseteq RequestKeys /\ activeId' \in 0 .. MaxKeys
         /\ storage' \in [pending : Pending, jobs : SUBSET RequestKeys, active : 0 .. MaxKeys]
         /\ submitting' \in BOOLEAN
         /\ tap' \in [Taps -> TapStates]
         /\ missing' \subseteq RequestKeys
         /\ restarts' \in Nat
<1>1. tap' \in [Taps -> TapStates]
  BY DEF Hydrated, TapStates, Idle
<1>2. restarts' \in Nat
  BY DEF Hydrated, MiniTypeOK
<1>3. QED
  BY <1>1, <1>2 DEF Hydrated

LEMMA MiniTypes ==
  ASSUME MiniTypeOK, MiniNext
  PROVE  MiniTypeOK'
<1> USE MiniAssumption DEF RequestKeys
<1>1. ASSUME NEW c \in Taps, TapStep(c)
      PROVE  MiniTypeOK'
  <2> USE DEF MiniTypeOK
  <2>1. CASE Create(c) \/ LoginFails(c)
    <3>1. tap' \in [Taps -> TapStates]
      BY <2>1 DEF Create, LoginFails, TapStates, Idle
    <3>2. QED
      BY <2>1, <3>1 DEF Create, LoginFails, memory, server
  <2>2. CASE Send(c)
    <3>1. PICK s \in Subjects, forceNew \in BOOLEAN :
            IF Renews(s, forceNew)
              THEN /\ keysDrawn < MaxKeys
                   /\ keysDrawn' = keysDrawn + 1
                   /\ pendingRequest' = [subject |-> s, key |-> keysDrawn + 1]
                   /\ forsaken' = forsaken \cup PendingKeys
              ELSE UNCHANGED <<keysDrawn, pendingRequest, forsaken>>
      BY <2>2 DEF Send
    <3>2. pendingRequest' \in Pending /\ pendingRequest' # NoRequest
      BY <3>1 DEF Renews, Pending
    <3>3. pendingRequest'.key \in RequestKeys
      BY <3>2 DEF Pending
    <3>4. keysDrawn' \in 0 .. MaxKeys
      BY <3>1
    <3>5. PendingKeys \subseteq RequestKeys
      BY DEF PendingKeys, Pending
    <3>6. forsaken' \subseteq RequestKeys
      BY <3>1, <3>5
    <3>7. tap' \in [Taps -> TapStates]
      BY <2>2, <3>3 DEF Send, TapStates
    <3>8. QED
      BY <2>2, <3>2, <3>3, <3>4, <3>6, <3>7 DEF Send, Persist
  <2>3. CASE CreateFails(c)
    BY <2>3 DEF CreateFails, Persist, TapStates, Idle, memory, server
  <2>4. ASSUME tap[c].step = "sent"
        PROVE  tap[c].key \in RequestKeys
    BY <2>4 DEF TapStates
  <2>5. CASE CreateSucceeds(c)
    <3>1. tap[c].key \in RequestKeys /\ PendingKeys \subseteq RequestKeys
      BY <2>4, <2>5 DEF CreateSucceeds, PendingKeys, Pending
    <3>2. tap' \in [Taps -> TapStates]
      BY <2>5 DEF CreateSucceeds, TapStates, Idle
    <3>3. pendingRequest' \in Pending
      BY <2>5 DEF CreateSucceeds, Pending
    <3>4. trackedJobIds' \subseteq RequestKeys /\ activeId' \in 0 .. MaxKeys
      <4>1. trackedJobIds' = trackedJobIds \cup {tap[c].key} /\ activeId' = tap[c].key
        BY <2>5 DEF CreateSucceeds, Accept
      <4>2. \A k \in RequestKeys : k \in 0 .. MaxKeys
        OBVIOUS
      <4> HIDE DEF RequestKeys
      <4>3. QED
        BY <3>1, <4>1, <4>2
    <3>5. forsaken' \subseteq RequestKeys
      BY <2>5, <3>1 DEF CreateSucceeds
    <3>6. QED
      BY <2>5, <3>2, <3>3, <3>4, <3>5 DEF CreateSucceeds, Persist, server
  <2>6. CASE RestartInAnswer(c)
    <3>1. PICK shown \in {storage.active, tap[c].key} :
            Hydrated([storage EXCEPT !.jobs = @ \cup {tap[c].key}, !.active = shown])
      BY <2>6 DEF RestartInAnswer
    <3>2. tap[c].key \in RequestKeys
      BY <2>4, <2>6 DEF RestartInAnswer
    <3>3. shown \in 0 .. MaxKeys
      BY <3>2
    <3>4. [storage EXCEPT !.jobs = @ \cup {tap[c].key}, !.active = shown]
            \in [pending : Pending, jobs : SUBSET RequestKeys, active : 0 .. MaxKeys]
      BY <3>2, <3>3
    <3>5. QED
      BY <2>6, <3>1, <3>4, StoredTypes DEF RestartInAnswer, server, MiniTypeOK
  <2>7. QED
    BY <1>1, <2>1, <2>2, <2>3, <2>5, <2>6 DEF TapStep
<1>2. ASSUME NEW k \in RequestKeys, JobStep(k)
      PROVE  MiniTypeOK'
  <2> USE DEF MiniTypeOK
  <2>1. CASE Refresh(k)
    BY <2>1 DEF Refresh, Accept, Persist, server
  <2>2. CASE PollMisses(k) \/ Untrack(k)
    <3>1. CASE PollMisses(k)
      BY <3>1 DEF PollMisses, memory, server
    <3>2. CASE Untrack(k)
      <4>1. trackedJobIds' \subseteq RequestKeys /\ missing' \subseteq RequestKeys
        BY <3>2 DEF Untrack
      <4>2. forsaken' \subseteq RequestKeys
        BY <3>2 DEF Untrack
      <4>3. QED
        BY <3>2, <4>1, <4>2 DEF Untrack, Persist, server
    <3>3. QED
      BY <2>2, <3>1, <3>2
  <2>3. CASE Arrive(k) \/ LoseRequest(k) \/ CommitJob(k) \/ RollbackJob(k) \/ DeleteJob(k)
    BY <2>3 DEF Arrive, LoseRequest, CommitJob, RollbackJob, DeleteJob, client, memory
  <2>4. QED
    BY <1>2, <2>1, <2>2, <2>3 DEF JobStep
<1>3. CASE Restart
  BY <1>3, StoredTypes DEF Restart, MiniTypeOK, server
<1>4. QED
  BY <1>1, <1>2, <1>3 DEF MiniNext

(***************************************************************************)
(* No key is dropped: what was kept stays kept, and what a step sends is   *)
(* kept afterwards.                                                        *)
(***************************************************************************)
LEMMA KeysKept ==
  ASSUME MiniInv, MiniNext
  PROVE  (MiniInv)'
<1>0. MiniTypeOK'
  BY MiniTypes DEF MiniInv
<1> DEFINE Good == /\ InStep'
                   /\ (activeId # 0 => activeId \in trackedJobIds \cup forsaken)'
                   /\ \A k \in RequestKeys : Sent(k)' => Kept(k)'
<1>1. ASSUME NEW c \in Taps, TapStep(c)
      PROVE  Good
  <2>1. CASE Create(c) \/ LoginFails(c)
    <3>1. UNCHANGED <<memory, storage, forsaken, server>> /\ PendingKeys' = PendingKeys
      BY <2>1 DEF Create, LoginFails, memory, PendingKeys
    <3>2. \A k \in RequestKeys : Sent(k)' => Sent(k)
      BY <2>1, <3>1 DEF Create, LoginFails, Sent, server, Idle, MiniInv, MiniTypeOK
    <3>3. QED
      BY <3>1, <3>2 DEF MiniInv, InStep, Kept, memory
  <2>2. CASE Send(c)
    <3>1. PICK s \in Subjects, forceNew \in BOOLEAN :
            IF Renews(s, forceNew)
              THEN /\ keysDrawn < MaxKeys
                   /\ keysDrawn' = keysDrawn + 1
                   /\ pendingRequest' = [subject |-> s, key |-> keysDrawn + 1]
                   /\ forsaken' = forsaken \cup PendingKeys
              ELSE UNCHANGED <<keysDrawn, pendingRequest, forsaken>>
      BY <2>2 DEF Send
    <3>2. pendingRequest' # NoRequest
      BY <3>1, MiniAssumption DEF Renews, MiniInv, MiniTypeOK, RequestKeys
    <3>3. PendingKeys \subseteq PendingKeys' \cup forsaken'
      BY <3>1 DEF PendingKeys
    <3>4. pendingRequest'.key \in PendingKeys'
      BY <3>2 DEF PendingKeys
    <3>5. \A k \in RequestKeys : Sent(k)' => Sent(k) \/ k = pendingRequest'.key
      BY <2>2 DEF Send, Sent, MiniInv, MiniTypeOK
    <3>6. forsaken \subseteq forsaken' /\ UNCHANGED <<trackedJobIds, activeId>>
      BY <2>2, <3>1 DEF Send
    <3>7. QED
      BY <2>2, <3>3, <3>4, <3>5, <3>6 DEF Send, Persist, InStep, Kept, MiniInv
  <2>3. CASE CreateFails(c)
    <3>1. UNCHANGED <<memory, forsaken, server>> /\ PendingKeys' = PendingKeys
      BY <2>3 DEF CreateFails, memory, PendingKeys
    <3>2. \A k \in RequestKeys : Sent(k)' => Sent(k)
      BY <2>3, <3>1 DEF CreateFails, Sent, server, Idle, MiniInv, MiniTypeOK
    <3>3. QED
      BY <2>3, <3>1, <3>2 DEF CreateFails, Persist, MiniInv, InStep, Kept, memory
  <2>4. CASE CreateSucceeds(c)
    <3>1. \A k \in RequestKeys : Sent(k)' => Sent(k)
      BY <2>4 DEF CreateSucceeds, Sent, server, Idle, MiniInv, MiniTypeOK
    <3>2. PendingKeys \subseteq trackedJobIds' \cup forsaken'
      BY <2>4 DEF CreateSucceeds, Accept
    <3>3. trackedJobIds \subseteq trackedJobIds' /\ forsaken \subseteq forsaken'
      BY <2>4 DEF CreateSucceeds, Accept
    <3>4. activeId' \in trackedJobIds'
      BY <2>4 DEF CreateSucceeds, Accept
    <3>5. \A k \in RequestKeys : Kept(k) => Kept(k)'
      BY <3>2, <3>3 DEF Kept, MiniInv, RequestKeys
    <3>6. QED
      BY <2>4, <3>1, <3>4, <3>5 DEF CreateSucceeds, Persist, MiniInv, InStep
  <2>5. CASE RestartInAnswer(c)
    <3>1. PICK shown \in {storage.active, tap[c].key} :
            Hydrated([storage EXCEPT !.jobs = @ \cup {tap[c].key}, !.active = shown])
      BY <2>5 DEF RestartInAnswer
    <3>2. /\ pendingRequest' = pendingRequest
          /\ trackedJobIds' = trackedJobIds \cup {tap[c].key}
          /\ activeId' \in {activeId, tap[c].key}
          /\ InStep'
      BY <3>1 DEF Hydrated, MiniInv, InStep
    <3>3. UNCHANGED <<forsaken, server>> /\ PendingKeys' = PendingKeys
      BY <2>5, <3>2 DEF RestartInAnswer, PendingKeys
    <3>4. \A k \in RequestKeys : Sent(k)' => Sent(k)
      BY <3>1, <3>3 DEF Hydrated, Sent, server, Idle
    <3>5. QED
      BY <3>2, <3>3, <3>4 DEF Kept, MiniInv, RequestKeys
  <2>6. QED
    BY <1>1, <2>1, <2>2, <2>3, <2>4, <2>5 DEF TapStep
<1>2. ASSUME NEW k \in RequestKeys, JobStep(k)
      PROVE  Good
  <2>1. CASE Refresh(k)
    <3>1. UNCHANGED <<forsaken, server, tap>> /\ PendingKeys' = PendingKeys
      BY <2>1 DEF Refresh, PendingKeys
    <3>2. \A j \in RequestKeys : Sent(j)' => Sent(j)
      BY <3>1 DEF Sent, server
    <3>3. \A j \in RequestKeys : Kept(j) => Kept(j)'
      BY <2>1, <3>1 DEF Refresh, Accept, Kept, MiniInv, RequestKeys
    <3>4. QED
      BY <2>1, <3>2, <3>3 DEF Refresh, Accept, Persist, MiniInv, InStep
  <2>2. CASE PollMisses(k)
    BY <2>2 DEF PollMisses, MiniInv, InStep, Kept, Sent, PendingKeys, memory, server
  <2>3. CASE Untrack(k)
    <3>1. UNCHANGED <<pendingRequest, activeId, tap, server>> /\ PendingKeys' = PendingKeys
      BY <2>3 DEF Untrack, PendingKeys
    <3>2. \A j \in RequestKeys : Sent(j)' => Sent(j)
      BY <3>1 DEF Sent, server
    <3>3. trackedJobIds \cup forsaken \subseteq trackedJobIds' \cup forsaken'
      BY <2>3 DEF Untrack
    <3>4. QED
      BY <2>3, <3>1, <3>2, <3>3 DEF Untrack, Persist, MiniInv, InStep, Kept
  <2>4. CASE Arrive(k) \/ LoseRequest(k) \/ CommitJob(k) \/ RollbackJob(k) \/ DeleteJob(k)
    <3>1. UNCHANGED client /\ PendingKeys' = PendingKeys
      BY <2>4 DEF Arrive, LoseRequest, CommitJob, RollbackJob, DeleteJob, client, memory,
                  PendingKeys
    <3>2. \A j \in RequestKeys : Sent(j)' => Sent(j)
      BY <2>4, <3>1 DEF Arrive, LoseRequest, CommitJob, RollbackJob, DeleteJob, Sent, client,
                        MiniInv, MiniTypeOK
    <3>3. QED
      BY <3>1, <3>2 DEF client, memory, MiniInv, InStep, Kept
  <2>5. QED
    BY <1>2, <2>1, <2>2, <2>3, <2>4 DEF JobStep
<1>3. ASSUME Restart
      PROVE  Good
  <2>1. UNCHANGED <<memory, storage, forsaken, server>> /\ PendingKeys' = PendingKeys
    BY <1>3 DEF Restart, Hydrated, MiniInv, InStep, memory, PendingKeys
  <2>2. \A k \in RequestKeys : Sent(k)' => Sent(k)
    BY <1>3, <2>1 DEF Restart, Hydrated, Sent, server, Idle
  <2>3. InStep' /\ (activeId # 0 => activeId \in trackedJobIds \cup forsaken)'
    BY <2>1 DEF MiniInv, InStep, memory
  <2>4. \A k \in RequestKeys : Kept(k) => Kept(k)'
    BY <2>1 DEF Kept, memory
  <2>5. QED
    BY <2>2, <2>3, <2>4 DEF MiniInv
<1> HIDE DEF Good
<1>4. Good
  BY <1>1, <1>2, <1>3 DEF MiniNext
<1>5. QED
  BY <1>0, <1>4 DEF MiniInv, Good

LEMMA MiniKept ==
  ASSUME MiniInv, [MiniNext]_miniVars
  PROVE  MiniInv'
<1>1. CASE UNCHANGED miniVars
  BY <1>1 DEF MiniInv, MiniTypeOK, miniVars, client, memory, server, InStep, Kept, Sent,
              PendingKeys
<1>2. QED
  BY <1>1, KeysKept

LEMMA MiniInvariant == MiniSpec => []MiniInv
BY MiniStart, MiniKept, PTL DEF MiniSpec

(***************************************************************************)
(* The variables of the mini program keep their types.                     *)
(***************************************************************************)
THEOREM MiniTypeCorrect == MiniSpec => []MiniTypeOK
<1>1. MiniInv => MiniTypeOK
  BY DEF MiniInv
<1>2. QED
  BY <1>1, MiniInvariant, PTL

LEMMA KeysAreKnown == MiniInv => JobKnown
<1> SUFFICES ASSUME MiniInv, NEW k \in RequestKeys, jobRow[k] \in {"INSERTED", "STORED"}
             PROVE  k \in storage.jobs \cup {storage.active}
                      \/ (storage.pending # NoRequest /\ storage.pending.key = k)
                      \/ k \in forsaken
  BY DEF JobKnown
<1>1. Kept(k)
  BY DEF MiniInv, Sent
<1>2. QED
  BY <1>1 DEF Kept, MiniInv, InStep, PendingKeys

(***************************************************************************)
(* For any taps, keys and restarts: no job of the server is unknown to the *)
(* phone, but for a request that took its place or a poll that came before *)
(* its commit.                                                             *)
(***************************************************************************)
THEOREM JobsKnown == MiniSpec => []JobKnown
BY KeysAreKnown, MiniInvariant, PTL

-----------------------------------------------------------------------------
(***************************************************************************)
(* The parts together.  A step of one part leaves the others alone, and a  *)
(* part that is not looked at is in a state its invariant allows.          *)
(***************************************************************************)
PartsInv ==
  /\ CreationInv /\ VotesInv /\ VotesGoWithShare /\ NobodyVotes
  /\ Spent /\ GatewayInv /\ MiniInv

LEMMA NoRequestsInv == NoRequests => CreationInv
<1> SUFFICES ASSUME NoRequests
             PROVE  CreationInv
  OBVIOUS
<1>1. (CHOOSE k \in Keys : TRUE) \in Keys /\ (CHOOSE s \in Sources : TRUE) \in Sources
  BY PartsAssumption
<1>2. wants \in [Requests -> [key : Keys, source : Sources]]
  BY <1>1 DEF NoRequests
<1>3. CreationTypeOK
  BY <1>2, PartsAssumption DEF NoRequests, CreationTypeOK
<1>4. KeysHeld /\ SourcesHeld /\ \A r \in Requests : pc[r] # "commit" /\ Explained(r)
  BY DEF NoRequests, KeysHeld, SourcesHeld, Explained, HoldsSource, Active, CreatorSteps,
         ReaderSteps
<1>5. Created = {}
  BY DEF NoRequests, Created
<1>6. Reserved
  BY <1>5, FS_EmptySet DEF NoRequests, Reserved
<1>7. QED
  BY <1>3, <1>4, <1>6 DEF CreationInv

LEMMA NoVisitsInv == NoVisits => VotesInv /\ VotesGoWithShare /\ NobodyVotes
<1> SUFFICES ASSUME NoVisits
             PROVE  VotesInv /\ VotesGoWithShare /\ NobodyVotes
  OBVIOUS
<1>1. \E x \in Visit : x.name = "opened"
  <2>1. PICK v \in Voters : TRUE
    BY PartsAssumption
  <2>2. [name |-> "opened", voter |-> v, choice |-> NoChoice] \in Visit
    BY DEF Visit
  <2>3. QED
    BY <2>2
<1>2. (CHOOSE x \in Visit : x.name = "opened") \in Visit
  BY <1>1
<1>3. visit \in [Visits -> Visit]
  BY <1>2 DEF NoVisits
<1>4. QED
  BY <1>3 DEF NoVisits, VotesInv, VotesTypeOK, VoteHasEvent, ReadsHadEvents, EventFound,
              PurgeAlone, HasVoted, VotesGoWithShare, NobodyVotes

LEMMA NoCallsInv == NoCalls => GatewayInv
<1> SUFFICES ASSUME NoCalls
             PROVE  GatewayInv
  OBVIOUS
<1>1. settings \in Deployments /\ cohort \in Buckets
  BY PartsAssumption DEF NoCalls
<1>2. attempts \in [Executions -> Seq(Codes)] /\ \A e \in Executions : Len(attempts[e]) <= Len(policy[e])
  BY DEF NoCalls
<1>3. GatewayTypeOK
  BY <1>1, <1>2, PolicyTypes DEF NoCalls, GatewayTypeOK, Statuses
<1>4. QED
  BY <1>3 DEF NoCalls, GatewayInv, Asking

LEMMA PartsStart == Init => PartsInv
<1> SUFFICES ASSUME Init
             PROVE  PartsInv
  OBVIOUS
<1>1. CreationInv
  BY CreationStart, NoRequestsInv DEF Init
<1>2. VotesInv /\ VotesGoWithShare /\ NobodyVotes
  BY VotesStart, ErasedStart, NoVisitsInv DEF Init
<1>3. Spent /\ MiniInv
  BY InitSpent, MiniStart DEF Init
<1>4. GatewayInv
  BY GatewayStart, NoCallsInv DEF Init
<1>5. QED
  BY <1>1, <1>2, <1>3, <1>4 DEF PartsInv

LEMMA PartsStep ==
  ASSUME PartsInv, [Next]_vars
  PROVE  PartsInv'
<1>1. /\ [CreationNext]_creationVars /\ [VotesNext]_voteVars /\ [LimitNext]_limitVars
      /\ [GatewayNext]_gatewayVars /\ [MiniNext]_miniVars
  BY DEF Next, vars
<1>2. CreationInv' /\ VotesInv' /\ (VotesGoWithShare /\ NobodyVotes)'
  BY <1>1, CreationKept, VotesKept, ErasedKept DEF PartsInv, VotesInv
<1>3. Spent' /\ MiniInv'
  BY <1>1, NextSpent, MiniKept DEF PartsInv
<1>4. GatewayInv'
  BY <1>1, GatewayKept DEF PartsInv
<1>5. QED
  BY <1>2, <1>3, <1>4 DEF PartsInv

LEMMA PartsInvariant == FairSpec => []PartsInv
BY PartsStart, PartsStep, PTL DEF FairSpec

(***************************************************************************)
(* Whichever part is looked at, the variables of all five keep their       *)
(* types, for every value of the constants.                                *)
(***************************************************************************)
THEOREM PartsTypeCorrect == FairSpec => []TypeOK
<1>1. PartsInv => TypeOK
  BY DEF PartsInv, TypeOK, CreationInv, VotesInv, Spent, GatewayInv, MiniInv
<1>2. QED
  BY <1>1, PartsInvariant, PTL
(***************************************************************************)
(* THEOREM.  And so do the promises of the parts: what MCServices checks   *)
(* for its small constants holds in every behaviour of FairSpec, for the   *)
(* services, rate limiter, gateway and pages it puts side by side.         *)
(***************************************************************************)
THEOREM PartsCorrect ==
  FairSpec => [](/\ CreatedOnce /\ NeverIncomplete
                 /\ VoteHasEvent /\ VotesGoWithShare /\ CostlyLimit
                 /\ AttemptsRecorded
                 /\ JobKnown)
<1>1. CreationInv => CreatedOnce /\ NeverIncomplete
  BY DEF CreationInv, CreatedOnce, NeverIncomplete, Explained, FoundRow, SamePayload, Reserved
<1>2. VotesInv => VoteHasEvent
  BY DEF VotesInv
<1>3. PartsInv => /\ CreatedOnce /\ NeverIncomplete
                  /\ VoteHasEvent /\ VotesGoWithShare /\ CostlyLimit
                  /\ AttemptsRecorded
                  /\ JobKnown
  BY <1>1, <1>2, SpentLimits, RowsAreRecords, KeysAreKnown DEF PartsInv
<1>4. QED
  BY <1>3, PartsInvariant, PTL
=============================================================================
