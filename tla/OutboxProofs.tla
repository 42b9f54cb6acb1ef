---------------------------- MODULE OutboxProofs ----------------------------
(***************************************************************************)
(* Theorems about Outbox, for any number of events and of dispatchers, any *)
(* batch size and any number of failures and crashes.                      *)
(***************************************************************************)
EXTENDS Outbox, FiniteSetTheorems, TLAPS

(***************************************************************************)
(* Type correctness.                                                       *)
(***************************************************************************)
LEMMA StepTypes ==
  ASSUME TypeOK, [Next]_vars
  PROVE  TypeOK'
<1> USE OutboxAssumption
<1>0. 0 \notin Events
  BY DEF Events
<1>1. CASE UNCHANGED vars
  BY <1>1 DEF TypeOK, vars, rows, tasks, history
<1>2. ASSUME NEW e \in Events, Create(e)
      PROVE  TypeOK'
  BY <1>2 DEF TypeOK, Create, tasks, history
<1>3. ASSUME NEW e \in Events, LockExpires(e)
      PROVE  TypeOK'
  BY <1>3 DEF TypeOK, LockExpires, tasks
<1>4. ASSUME NEW e \in Events, RetryDue(e)
      PROVE  TypeOK'
  BY <1>4 DEF TypeOK, RetryDue, tasks, history
<1>5. ASSUME NEW d \in Dispatchers, Claim(d)
      PROVE  TypeOK'
  <2> DEFINE claimed == Oldest({e \in Events : Due(e)}, BatchSize)
  <2>1. \A e \in claimed : e \in Events /\ ~delayed[e]
    BY DEF Oldest, Due, TypeOK
  <2>2. /\ batch' = [batch EXCEPT ![d] = claimed]
        /\ status' = [e \in Events |-> IF e \in claimed THEN "PROCESSING" ELSE status[e]]
        /\ stale' = [e \in Events |-> stale[e] /\ e \notin claimed]
        /\ UNCHANGED <<attempts, delayed, current, outcome, history>>
    BY <1>5 DEF Claim
  <2> HIDE DEF claimed
  <2>3. QED
    BY <2>1, <2>2 DEF TypeOK, history
<1>6. ASSUME NEW d \in Dispatchers, NEW e \in Events, Send(d, e)
      PROVE  TypeOK'
  BY <1>0, <1>6 DEF TypeOK, Send, Take, rows
<1>7. ASSUME NEW d \in Dispatchers, NEW e \in Events, SendFails(d, e)
      PROVE  TypeOK'
  BY <1>0, <1>7 DEF TypeOK, SendFails, Take, rows
<1>8. ASSUME NEW d \in Dispatchers, MarkPublished(d)
      PROVE  TypeOK'
  <2>1. current[d] \in Events
    BY <1>8 DEF TypeOK, MarkPublished, Succeeded
  <2>2. QED
    BY <1>8, <2>1 DEF TypeOK, MarkPublished, Record, history
<1>9. ASSUME NEW d \in Dispatchers, MarkFailed(d)
      PROVE  TypeOK'
  <2>1. current[d] \in Events
    BY <1>9 DEF TypeOK, MarkFailed
  <2>2. QED
    BY <1>9, <2>1 DEF TypeOK, MarkFailed, Record, history
<1>10. ASSUME NEW d \in Dispatchers, Crash(d)
       PROVE  TypeOK'
  BY <1>10 DEF TypeOK, Crash, rows
<1>11. QED
  BY <1>1, <1>2, <1>3, <1>4, <1>5, <1>6, <1>7, <1>8, <1>9, <1>10 DEF Next, Dispatch

(***************************************************************************)
(* The variables keep their types; a retry delay belongs to a failed event *)
(* and an expired lock to a claimed one.                                   *)
(***************************************************************************)
THEOREM TypeCorrect == Spec => []TypeOK
<1>1. Init => TypeOK
  BY DEF Init, TypeOK
<1>2. QED
  BY <1>1, StepTypes, PTL DEF Spec
-----------------------------------------------------------------------------
(***************************************************************************)
(* A dispatcher about to record a success has sent the event itself.       *)
(***************************************************************************)
SuccessWasSent ==
  \A d \in Dispatchers : outcome[d] = "published" => sent[current[d]] > 0

(***************************************************************************)
(* No event is recorded as published unless the broker took it.            *)
(***************************************************************************)
THEOREM PublishedMeansSent == Spec => []PublishedWasSent
<1> DEFINE Sound == SuccessWasSent /\ PublishedWasSent
<1>1. Init => Sound
  BY DEF Init, SuccessWasSent, PublishedWasSent
<1>2. ASSUME TypeOK, TypeOK', Sound, [Next]_vars
      PROVE  Sound'
  <2> USE <1>2 DEF SuccessWasSent, PublishedWasSent
  <2>1. CASE UNCHANGED vars
    BY <2>1 DEF vars, rows, tasks, history
  <2>2. ASSUME NEW e \in Events, Create(e) \/ LockExpires(e) \/ RetryDue(e)
        PROVE  Sound'
    BY <2>2 DEF Create, LockExpires, RetryDue, TypeOK, tasks, history
  <2>3. ASSUME NEW d \in Dispatchers, Claim(d) \/ Crash(d)
        PROVE  Sound'
    BY <2>3 DEF Claim, Crash, TypeOK, rows, history
  <2>4. ASSUME NEW d \in Dispatchers, NEW e \in Events, Send(d, e) \/ SendFails(d, e)
        PROVE  Sound'
    <3>1. sent[e] \in Nat /\ sent'[e] \in {sent[e], sent[e] + 1}
            /\ \A f \in Events : f # e => sent'[f] = sent[f]
      BY <2>4 DEF Send, SendFails, TypeOK
    <3>2. \A f \in Events : sent[f] > 0 => sent'[f] > 0
      BY <3>1 DEF TypeOK
    <3>3. /\ outcome'[d] = "published" => current'[d] = e /\ sent'[e] > 0
          /\ \A i \in Dispatchers : i # d => /\ outcome'[i] = outcome[i]
                                             /\ current'[i] = current[i]
      <4>1. CASE Send(d, e)
        BY <4>1 DEF Send, Take, TypeOK
      <4>2. CASE SendFails(d, e)
        BY <4>2 DEF SendFails, Take, TypeOK
      <4>3. QED
        BY <2>4, <4>1, <4>2
    <3>4. status' = status
      BY <2>4 DEF Send, SendFails, rows
    <3>5. \A i \in Dispatchers : outcome[i] = "published" => current[i] \in Events
      BY DEF TypeOK
    <3>6. QED
      BY <3>2, <3>3, <3>4, <3>5
  <2>5. ASSUME NEW d \in Dispatchers, MarkPublished(d)
        PROVE  Sound'
    BY <2>5 DEF MarkPublished, Succeeded, Record, TypeOK, history
  <2>6. ASSUME NEW d \in Dispatchers, MarkFailed(d)
        PROVE  Sound'
    BY <2>6 DEF MarkFailed, Record, TypeOK, history
  <2>7. QED
    BY <2>1, <2>2, <2>3, <2>4, <2>5, <2>6 DEF Next, Dispatch
<1>3. QED
  BY <1>1, <1>2, TypeCorrect, PTL DEF Spec
-----------------------------------------------------------------------------
(***************************************************************************)
(* Why duplicates are explained: each recorded failure and each expired    *)
(* lock allows one more claim, each claim allows one more send.  What was  *)
(* sent, what claims may still send and the claim an event is open to      *)
(* stay within that budget.                                                *)
(***************************************************************************)
Holders(e) == {d \in Dispatchers : e \in batch[d]}

Open(e) == IF status[e] \in {"NONE", "PENDING", "FAILED"} \/ stale[e] THEN 1 ELSE 0

Budget(e) == sent[e] + Cardinality(Holders(e)) + Open(e) <= 1 + attempts[e] + expiries[e]

LEMMA FiniteHolders ==
  ASSUME NEW e
  PROVE  IsFiniteSet(Holders(e)) /\ Cardinality(Holders(e)) \in Nat
<1>1. Holders(e) \subseteq Dispatchers
  BY DEF Holders
<1>2. QED
  BY <1>1, OutboxAssumption, FS_Subset, FS_CardinalityType

LEMMA HoldersChange ==
  ASSUME TypeOK, NEW d \in Dispatchers, NEW e \in Events,
         NEW S \in SUBSET Events, batch' = [batch EXCEPT ![d] = S]
  PROVE  Cardinality(Holders(e))' =
           Cardinality(Holders(e)) + (IF e \in S THEN 1 ELSE 0)
                                   - (IF e \in batch[d] THEN 1 ELSE 0)
<1>1. Holders(e)' = IF e \in S THEN Holders(e) \cup {d} ELSE Holders(e) \ {d}
  BY DEF Holders, TypeOK
<1>2. d \in Holders(e) <=> e \in batch[d]
  BY DEF Holders
<1>3. CASE e \in S
  <2>1. Cardinality(Holders(e) \cup {d}) = IF d \in Holders(e)
          THEN Cardinality(Holders(e)) ELSE Cardinality(Holders(e)) + 1
    BY FiniteHolders, FS_AddElement
  <2>2. QED
    BY <1>1, <1>2, <1>3, <2>1, FiniteHolders
<1>4. CASE e \notin S
  <2>1. Cardinality(Holders(e) \ {d}) = IF d \in Holders(e)
          THEN Cardinality(Holders(e)) - 1 ELSE Cardinality(Holders(e))
    BY FiniteHolders, FS_RemoveElement
  <2>2. QED
    BY <1>1, <1>2, <1>4, <2>1, FiniteHolders
<1>5. QED
  BY <1>3, <1>4

LEMMA BudgetKept ==
  ASSUME TypeOK, [Next]_vars, NEW e \in Events, Budget(e)
  PROVE  Budget(e)'
<1>0. /\ sent[e] \in Nat /\ attempts[e] \in Nat /\ expiries[e] \in Nat
      /\ Cardinality(Holders(e)) \in Nat
  BY FiniteHolders DEF TypeOK
<1>1. CASE UNCHANGED vars
  BY <1>1 DEF vars, rows, tasks, history, Budget, Holders, Open
<1>2. ASSUME NEW f \in Events, Create(f)
      PROVE  Budget(e)'
  <2>1. Open(e)' <= Open(e) /\ Open(e) \in {0, 1} /\ Open(e)' \in {0, 1}
    BY <1>2 DEF Create, Open, TypeOK
  <2>2. Holders(e)' = Holders(e) /\ UNCHANGED <<sent, attempts, expiries>>
    BY <1>2 DEF Create, Holders, tasks, history
  <2>3. QED
    BY <1>0, <2>1, <2>2 DEF Budget
<1>3. ASSUME NEW f \in Events, LockExpires(f)
      PROVE  Budget(e)'
  <2>1. Holders(e)' = Holders(e) /\ UNCHANGED <<sent, attempts>>
    BY <1>3 DEF LockExpires, Holders, tasks
  <2>2. CASE e = f
    <3>1. expiries'[e] = expiries[e] + 1 /\ Open(e) = 0 /\ Open(e)' = 1
      BY <1>3, <2>2 DEF LockExpires, Open, TypeOK
    <3>2. QED
      BY <1>0, <2>1, <3>1 DEF Budget
  <2>3. CASE e # f
    <3>1. expiries'[e] = expiries[e] /\ Open(e)' = Open(e)
      BY <1>3, <2>3 DEF LockExpires, Open, TypeOK
    <3>2. QED
      BY <2>1, <3>1 DEF Budget
  <2>4. QED
    BY <2>2, <2>3
<1>4. ASSUME NEW f \in Events, RetryDue(f)
      PROVE  Budget(e)'
  BY <1>4 DEF RetryDue, Budget, Holders, Open, tasks, history
<1>5. ASSUME NEW d \in Dispatchers, Claim(d)
      PROVE  Budget(e)'
  <2> DEFINE claimed == Oldest({f \in Events : Due(f)}, BatchSize)
  <2>1. claimed \in SUBSET Events /\ \A f \in claimed : Due(f)
    BY DEF Oldest
  <2>2. /\ batch[d] = {}
        /\ batch' = [batch EXCEPT ![d] = claimed]
        /\ status' = [f \in Events |-> IF f \in claimed THEN "PROCESSING" ELSE status[f]]
        /\ stale' = [f \in Events |-> stale[f] /\ f \notin claimed]
        /\ UNCHANGED <<attempts, sent, expiries>>
    BY <1>5 DEF Claim, history
  <2> HIDE DEF claimed
  <2>0. Cardinality(Holders(e))' =
          Cardinality(Holders(e)) + (IF e \in claimed THEN 1 ELSE 0)
                                  - (IF e \in batch[d] THEN 1 ELSE 0)
    BY <2>1, <2>2, HoldersChange, Zenon
  <2>3. CASE e \in claimed
    <3>1. Open(e) = 1 /\ Open(e)' = 0
      BY <2>1, <2>2, <2>3 DEF Open, Due
    <3>2. Cardinality(Holders(e))' = Cardinality(Holders(e)) + 1
      BY <1>0, <2>0, <2>2, <2>3
    <3>3. QED
      BY <1>0, <2>2, <3>1, <3>2 DEF Budget
  <2>4. CASE e \notin claimed
    <3>1. Open(e)' = Open(e)
      BY <2>2, <2>4 DEF Open, TypeOK
    <3>2. Cardinality(Holders(e))' = Cardinality(Holders(e))
      BY <1>0, <2>0, <2>2, <2>4
    <3>3. QED
      BY <2>2, <3>1, <3>2 DEF Budget
  <2>5. QED
    BY <2>3, <2>4
<1>6. ASSUME NEW d \in Dispatchers, NEW f \in Events, Send(d, f) \/ SendFails(d, f)
      PROVE  Budget(e)'
  <2>1. /\ f \in batch[d] /\ batch' = [batch EXCEPT ![d] = batch[d] \ {f}]
        /\ UNCHANGED rows /\ UNCHANGED expiries
    BY <1>6 DEF Send, SendFails, Take, TypeOK
  <2>2. /\ sent'[e] \in {sent[e], sent[e] + 1}
        /\ e # f => sent'[e] = sent[e]
    BY <1>6 DEF Send, SendFails, TypeOK
  <2>3. Open(e)' = Open(e) /\ Open(e) \in {0, 1} /\ UNCHANGED attempts
    BY <2>1 DEF Open, rows
  <2>4. Cardinality(Holders(e))'
          = IF e = f THEN Cardinality(Holders(e)) - 1 ELSE Cardinality(Holders(e))
    <3>1. batch[d] \ {f} \in SUBSET Events
      BY DEF TypeOK
    <3>2. Cardinality(Holders(e))' =
            Cardinality(Holders(e)) + (IF e \in batch[d] \ {f} THEN 1 ELSE 0)
                                    - (IF e \in batch[d] THEN 1 ELSE 0)
      BY <2>1, <3>1, HoldersChange, Zenon
    <3>3. QED
      BY <1>0, <2>1, <3>2
  <2>5. CASE e = f
    BY <1>0, <2>1, <2>2, <2>3, <2>4, <2>5 DEF Budget
  <2>6. CASE e # f
    BY <1>0, <2>1, <2>2, <2>3, <2>4, <2>6 DEF Budget
  <2>7. QED
    BY <2>5, <2>6
<1>7. ASSUME NEW d \in Dispatchers, MarkPublished(d)
      PROVE  Budget(e)'
  <2>1. Open(e)' <= Open(e) /\ Open(e) \in {0, 1} /\ Open(e)' \in {0, 1}
    BY <1>7 DEF MarkPublished, Record, Open, TypeOK
  <2>2. Holders(e)' = Holders(e) /\ UNCHANGED <<sent, attempts, expiries>>
    BY <1>7 DEF MarkPublished, Record, Holders, history
  <2>3. QED
    BY <1>0, <2>1, <2>2 DEF Budget
<1>8. ASSUME NEW d \in Dispatchers, MarkFailed(d)
      PROVE  Budget(e)'
  <2>1. Holders(e)' = Holders(e) /\ UNCHANGED <<sent, expiries>>
    BY <1>8 DEF MarkFailed, Record, Holders, history
  <2>2. CASE e = current[d]
    <3>1. attempts'[e] = attempts[e] + 1 /\ Open(e) \in {0, 1} /\ Open(e)' = 1
      BY <1>8, <2>2 DEF MarkFailed, Record, Open, TypeOK
    <3>2. QED
      BY <1>0, <2>1, <3>1 DEF Budget
  <2>3. CASE e # current[d]
    <3>1. attempts'[e] = attempts[e] /\ Open(e)' = Open(e)
      BY <1>8, <2>3 DEF MarkFailed, Record, Open, TypeOK
    <3>2. QED
      BY <2>1, <3>1 DEF Budget
  <2>4. QED
    BY <2>2, <2>3
<1>9. ASSUME NEW d \in Dispatchers, Crash(d)
      PROVE  Budget(e)'
  <2>1. /\ batch' = [batch EXCEPT ![d] = {}]
        /\ UNCHANGED <<sent, attempts, expiries>> /\ Open(e)' = Open(e)
    BY <1>9 DEF Crash, rows, Open
  <2>2. Cardinality(Holders(e))' <= Cardinality(Holders(e))
          /\ Cardinality(Holders(e))' \in Int
    <3>1. {} \in SUBSET Events
      OBVIOUS
    <3>2. Cardinality(Holders(e))' =
            Cardinality(Holders(e)) + (IF e \in {} THEN 1 ELSE 0)
                                    - (IF e \in batch[d] THEN 1 ELSE 0)
      BY <2>1, <3>1, HoldersChange, Zenon
    <3>3. QED
      BY <1>0, <3>2
  <2>3. Open(e) \in {0, 1}
    BY DEF Open
  <2>4. QED
    BY <1>0, <2>1, <2>2, <2>3 DEF Budget
<1>10. QED
  BY <1>1, <1>2, <1>3, <1>4, <1>5, <1>6, <1>7, <1>8, <1>9 DEF Next, Dispatch

(***************************************************************************)
(* Concurrent dispatchers never duplicate a message by themselves: every   *)
(* extra send is paid for by a recorded failure or an expired lock.        *)
(***************************************************************************)
THEOREM NoUnexplainedDuplicate == Spec => []DuplicatesExplained
<1> DEFINE Within == \A e \in Events : Budget(e)
<1>1. Init => Within
  <2> SUFFICES ASSUME Init, NEW e \in Events PROVE Budget(e)
    OBVIOUS
  <2>1. Holders(e) = {}
    BY DEF Init, Holders
  <2>2. QED
    BY <2>1, FS_EmptySet DEF Init, Budget, Open
<1>2. TypeOK /\ Within /\ [Next]_vars => Within'
  BY BudgetKept DEF Events
<1>3. TypeOK /\ Within => DuplicatesExplained
  <2> SUFFICES ASSUME TypeOK, NEW e \in Events, Budget(e)
               PROVE  sent[e] <= 1 + attempts[e] + expiries[e]
    BY DEF DuplicatesExplained
  <2>1. sent[e] \in Nat /\ Open(e) \in {0, 1}
          /\ attempts[e] \in Nat /\ expiries[e] \in Nat
    BY DEF TypeOK, Open
  <2>2. QED
    BY <2>1, FiniteHolders DEF Budget
<1>4. QED
  BY <1>1, <1>2, <1>3, TypeCorrect, PTL DEF Spec
-----------------------------------------------------------------------------
(***************************************************************************)
(* PublishedIsFinal does not hold.  What does: while no claim on an event  *)
(* has outlived its lock, at most one dispatcher has the event in hand,    *)
(* and only while the row says so.                                         *)
(***************************************************************************)
InHand(d, e) == e \in batch[d] \/ current[d] = e

Undisputed(e) ==
  /\ \A d \in Dispatchers : current[d] = e => e \notin batch[d]
  /\ expiries[e] = 0 =>
       /\ ~stale[e]
       /\ \A d \in Dispatchers :
            InHand(d, e) => /\ status[e] = "PROCESSING"
                            /\ \A i \in Dispatchers \ {d} : ~InHand(i, e)

(***************************************************************************)
(* The states of docs/02 section 7 as the code keeps them: an event leaves *)
(* PUBLISHED only after one of its claims outlived the lock timeout.       *)
(***************************************************************************)
FinalUntilExpiry ==
  [][\A e \in Events :
       status[e] = "PUBLISHED" /\ expiries[e] = 0 => status'[e] = "PUBLISHED"]_vars

LEMMA UndisputedKept ==
  ASSUME TypeOK, [Next]_vars, NEW e \in Events, Undisputed(e)
  PROVE  /\ Undisputed(e)'
         /\ status[e] = "PUBLISHED" /\ expiries[e] = 0 => status'[e] = "PUBLISHED"
<1> DEFINE Good == /\ Undisputed(e)'
                   /\ status[e] = "PUBLISHED" /\ expiries[e] = 0 => status'[e] = "PUBLISHED"
<1>0. 0 \notin Events /\ expiries[e] \in Nat
  BY OutboxAssumption DEF Events, TypeOK
<1>1. CASE UNCHANGED vars
  BY <1>1 DEF vars, rows, tasks, history, Undisputed, InHand
<1>2. ASSUME NEW f \in Events, Create(f) \/ RetryDue(f)
      PROVE  Good
  BY <1>2 DEF Create, RetryDue, tasks, history, Undisputed, InHand, TypeOK
<1>3. ASSUME NEW f \in Events, LockExpires(f)
      PROVE  Good
  BY <1>0, <1>3 DEF LockExpires, tasks, Undisputed, InHand, TypeOK
<1>4. ASSUME NEW d \in Dispatchers, Claim(d)
      PROVE  Good
  <2> DEFINE claimed == Oldest({f \in Events : Due(f)}, BatchSize)
  <2>1. \A f \in claimed : f \in Events /\ Due(f)
    BY DEF Oldest
  <2>2. /\ batch[d] = {} /\ current[d] = 0
        /\ batch' = [batch EXCEPT ![d] = claimed]
        /\ status' = [f \in Events |-> IF f \in claimed THEN "PROCESSING" ELSE status[f]]
        /\ stale' = [f \in Events |-> stale[f] /\ f \notin claimed]
        /\ UNCHANGED <<current, expiries>>
    BY <1>4 DEF Claim, history
  <2> HIDE DEF claimed
  <2>3. ASSUME NEW i \in Dispatchers
        PROVE  InHand(i, e)' <=> InHand(i, e) \/ (i = d /\ e \in claimed)
    BY <2>2 DEF InHand, TypeOK
  <2>4. \A i \in Dispatchers : current'[i] = e => e \notin batch'[i]
    BY <1>0, <2>2 DEF Undisputed, TypeOK
  <2>5. CASE e \in claimed
    <3>1. expiries[e] = 0 => status[e] # "PUBLISHED" /\ \A i \in Dispatchers : ~InHand(i, e)
      BY <2>1, <2>5 DEF Due, Undisputed
    <3>2. status'[e] = "PROCESSING" /\ ~stale'[e]
      BY <2>2, <2>5
    <3>3. QED
      BY <2>2, <2>3, <2>4, <3>1, <3>2 DEF Undisputed
  <2>6. CASE e \notin claimed
    <3>1. status'[e] = status[e] /\ stale'[e] = stale[e] /\ expiries' = expiries
      BY <2>2, <2>6 DEF TypeOK
    <3>2. \A i \in Dispatchers : InHand(i, e)' <=> InHand(i, e)
      BY <2>3, <2>6
    <3>3. QED
      BY <2>4, <3>1, <3>2 DEF Undisputed
  <2>7. QED
    BY <2>5, <2>6
<1>5. ASSUME NEW d \in Dispatchers, NEW f \in Events, Send(d, f) \/ SendFails(d, f)
      PROVE  Good
  <2>1. /\ current[d] = 0 /\ f \in batch[d]
        /\ batch' = [batch EXCEPT ![d] = batch[d] \ {f}] /\ current' = [current EXCEPT ![d] = f]
        /\ UNCHANGED rows /\ UNCHANGED expiries
    BY <1>5 DEF Send, SendFails, Take, TypeOK
  <2>2. \A i \in Dispatchers : InHand(i, e)' <=> InHand(i, e)
    BY <1>0, <2>1 DEF InHand, TypeOK
  <2>3. \A i \in Dispatchers : current'[i] = e => e \notin batch'[i]
    BY <2>1 DEF Undisputed, TypeOK
  <2>4. QED
    BY <2>1, <2>2, <2>3 DEF rows, Undisputed
<1>6. ASSUME NEW d \in Dispatchers, MarkPublished(d) \/ MarkFailed(d)
      PROVE  Good
  <2>1. current[d] \in Events
    BY <1>6 DEF MarkPublished, Succeeded, MarkFailed, TypeOK
  <2>2. /\ current' = [current EXCEPT ![d] = 0] /\ UNCHANGED <<batch, expiries>>
        /\ stale' = [stale EXCEPT ![current[d]] = FALSE]
        /\ \E s \in {"PUBLISHED", "FAILED"} : status' = [status EXCEPT ![current[d]] = s]
    BY <1>6 DEF MarkPublished, MarkFailed, Record, history
  <2>3. \A i \in Dispatchers : current'[i] = e => e \notin batch'[i]
    BY <1>0, <2>2 DEF Undisputed, TypeOK
  <2>4. CASE current[d] = e
    <3>0. ~InHand(d, e)'
      BY <1>0, <2>2, <2>4 DEF Undisputed, InHand, TypeOK
    <3>1. expiries[e] = 0 => /\ status[e] = "PROCESSING"
                             /\ \A i \in Dispatchers \ {d} : ~InHand(i, e)
      BY <2>4 DEF Undisputed, InHand
    <3>2. \A i \in Dispatchers \ {d} : InHand(i, e)' <=> InHand(i, e)
      BY <2>2 DEF InHand, TypeOK
    <3>3. ~stale'[e] /\ expiries' = expiries
      BY <2>2, <2>4 DEF TypeOK
    <3>4. QED
      BY <2>3, <3>0, <3>1, <3>2, <3>3 DEF Undisputed
  <2>5. CASE current[d] # e
    <3>1. status'[e] = status[e] /\ stale'[e] = stale[e] /\ expiries' = expiries
      BY <2>1, <2>2, <2>5 DEF TypeOK
    <3>2. \A i \in Dispatchers : InHand(i, e)' <=> InHand(i, e)
      BY <1>0, <2>2, <2>5 DEF InHand, TypeOK
    <3>3. QED
      BY <2>3, <3>1, <3>2 DEF Undisputed
  <2>6. QED
    BY <2>4, <2>5
<1>7. ASSUME NEW d \in Dispatchers, Crash(d)
      PROVE  Good
  <2>1. /\ batch' = [batch EXCEPT ![d] = {}] /\ current' = [current EXCEPT ![d] = 0]
        /\ UNCHANGED rows /\ UNCHANGED expiries
    BY <1>7 DEF Crash
  <2>2. \A i \in Dispatchers : InHand(i, e)' => InHand(i, e)
    BY <1>0, <2>1 DEF InHand, TypeOK
  <2>3. \A i \in Dispatchers : current'[i] = e => e \notin batch'[i]
    BY <1>0, <2>1 DEF Undisputed, TypeOK
  <2>4. QED
    BY <2>1, <2>2, <2>3 DEF rows, Undisputed
<1>8. QED
  BY <1>1, <1>2, <1>3, <1>4, <1>5, <1>6, <1>7 DEF Next, Dispatch

(***************************************************************************)
(* An event that was published stays so as long as none of its claims      *)
(* outlived its lock, whoever fails or crashes: the lock timeout is the    *)
(* only way out of PUBLISHED.                                              *)
(***************************************************************************)
THEOREM OnlyExpiryUnpublishes == Spec => FinalUntilExpiry
<1> DEFINE Inv == \A e \in Events : Undisputed(e)
           Stays == \A e \in Events :
                      status[e] = "PUBLISHED" /\ expiries[e] = 0 => status'[e] = "PUBLISHED"
<1>1. Init => Inv
  BY OutboxAssumption DEF Init, Undisputed, InHand, Events
<1>2. TypeOK /\ Inv /\ [Next]_vars => Inv' /\ Stays
  BY UndisputedKept DEF Events
<1>3. QED
  BY <1>1, <1>2, TypeCorrect, PTL DEF Spec, FinalUntilExpiry
=============================================================================
