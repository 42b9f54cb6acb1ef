----------------------------- MODULE QuotaProofs -----------------------------
(***************************************************************************)
(* Theorems about Quota, for any number of jobs, any calendar, any limits  *)
(* and any interleaving of the transactions.                               *)
(***************************************************************************)
EXTENDS Quota, FiniteSetTheorems, TLAPS

USE CalendarAssumption DEF Days

LEMMA KeyFacts ==
  /\ \A d \in Days : /\ DayKey(d) \in PeriodKeys /\ MonthKey(d) \in PeriodKeys
                     /\ DayKey(d) # MonthKey(d)
                     /\ OrderedKeys(d)[1] = MonthKey(d)
                     /\ OrderedKeys(d)[2] = DayKey(d)
                     /\ KeysOf(d) = {MonthKey(d), DayKey(d)}
                     /\ KeysOf(d) \subseteq PeriodKeys
  /\ \A d, e \in Days : /\ DayKey(d) \in KeysOf(e) <=> d = e
                        /\ MonthKey(d) \in KeysOf(e) <=> MonthOf[d] = MonthOf[e]
  /\ \A k \in PeriodKeys : Limit(k) \in Nat
<1>1. \A d \in Days : DayKey(d) \in PeriodKeys /\ MonthKey(d) \in PeriodKeys
  BY DEF PeriodKeys
<1>2. \A d \in Days : DayKey(d).day = d /\ MonthKey(d).day = 0 /\ d # 0
  BY DEF DayKey, MonthKey
<1>3. \A d \in Days : DayKey(d) # MonthKey(d)
  BY <1>2
<1>4. \A d, e \in Days : DayKey(d) \in KeysOf(e) <=> d = e
  BY <1>2 DEF KeysOf
<1>5. \A d, e \in Days : MonthKey(d) \in KeysOf(e) <=> MonthOf[d] = MonthOf[e]
  <2> TAKE d, e \in Days
  <2>1. MonthKey(d) # DayKey(e)
    BY <1>2
  <2>2. MonthKey(d) = MonthKey(e) <=> MonthOf[d] = MonthOf[e]
    BY DEF MonthKey
  <2>3. QED
    BY <2>1, <2>2 DEF KeysOf
<1>6. \A k \in PeriodKeys : Limit(k) \in Nat
  BY LimitsAssumption DEF Limit
<1>7. QED
  BY <1>1, <1>3, <1>4, <1>5, <1>6 DEF OrderedKeys, KeysOf
-----------------------------------------------------------------------------
(***************************************************************************)
(* Type correctness.                                                       *)
(***************************************************************************)
LEMMA EndTxTypes ==
  ASSUME TypeOK, NEW j \in Jobs, NEW c \in BOOLEAN, EndTx(j, c)
  PROVE  /\ \A i \in Jobs : Settling(i)' => i # j /\ Settling(i)
         /\ today' \in Days
         /\ stored' \subseteq PeriodKeys
         /\ inserter' \in [PeriodKeys -> Jobs \cup {NoJob}]
         /\ locker' \in [PeriodKeys -> Jobs \cup {NoJob}]
         /\ step' \in [Jobs -> {"idle", "inserting", "locking", "COMMITTED", "RELEASED"}]
         /\ at' \in [Jobs -> 1 .. 3]
         /\ day' \in [Jobs -> Days]
         /\ seen' \in [Jobs -> [PeriodKeys -> Counters]]
BY DEF EndTx, TypeOK, Zeros, Counters, Settling

LEMMA NextKeyType ==
  ASSUME TypeOK, NEW j \in Jobs, at[j] < 3
  PROVE  /\ NextKey(j) \in PeriodKeys
         /\ at[j] \in {1, 2}
         /\ at[j] = 1 => NextKey(j) = MonthKey(day[j])
         /\ at[j] = 2 => NextKey(j) = DayKey(day[j])
BY KeyFacts DEF NextKey, TypeOK

LEMMA OneMoreReserved ==
  ASSUME NEW c \in Counters
  PROVE  /\ [c EXCEPT !.reserved = @ + 1] \in Counters
         /\ [c EXCEPT !.reserved = @ + 1].reserved = c.reserved + 1
         /\ [c EXCEPT !.reserved = @ + 1].used = c.used
BY DEF Counters

LEMMA StepTypes ==
  ASSUME TypeOK, [Next]_vars
  PROVE  TypeOK'
<1>1. CASE UNCHANGED vars
  BY <1>1 DEF TypeOK, vars, txVars, Settling
<1>2. CASE Tomorrow
  BY <1>2 DEF TypeOK, Tomorrow, txVars, Settling
<1>3. ASSUME NEW j \in Jobs, BeginReserve(j)
      PROVE  TypeOK'
  BY <1>3 DEF TypeOK, BeginReserve, Settling
<1>4. ASSUME NEW j \in Jobs, NEW target \in {"COMMITTED", "RELEASED"},
             BeginSettle(j, target)
      PROVE  TypeOK'
  <2>1. reservedOn[j] \in Days
    BY <1>4 DEF BeginSettle, Settleable, TypeOK
  <2>2. QED
    BY <1>4, <2>1 DEF TypeOK, BeginSettle, Settleable, SettledDay, Settling
<1>5. ASSUME NEW j \in Jobs, InsertCounter(j)
      PROVE  TypeOK'
  <2>1. NextKey(j) \in PeriodKeys /\ at[j] \in {1, 2}
    BY <1>5, NextKeyType DEF InsertCounter
  <2>2. inserter' \in [PeriodKeys -> Jobs \cup {NoJob}]
    BY <1>5, <2>1 DEF TypeOK, InsertCounter
  <2>3. at' \in [Jobs -> 1 .. 3]
    BY <1>5, <2>1 DEF TypeOK, InsertCounter
  <2>4. QED
    BY <1>5, <2>2, <2>3 DEF TypeOK, InsertCounter, Settling
<1>6. ASSUME NEW j \in Jobs, StartLocking(j)
      PROVE  TypeOK'
  BY <1>6 DEF TypeOK, StartLocking, Settling
<1>7. ASSUME NEW j \in Jobs, LockCounter(j)
      PROVE  TypeOK'
  <2>1. NextKey(j) \in PeriodKeys /\ at[j] \in {1, 2}
    BY <1>7, NextKeyType DEF LockCounter
  <2>2. seen' \in [Jobs -> [PeriodKeys -> Counters]]
    BY <1>7, <2>1 DEF TypeOK, LockCounter
  <2>3. locker' \in [PeriodKeys -> Jobs \cup {NoJob}]
    BY <1>7, <2>1 DEF TypeOK, LockCounter, LocksTaken
  <2>4. at' \in [Jobs -> 1 .. 3]
    BY <1>7, <2>1 DEF TypeOK, LockCounter
  <2>5. QED
    BY <1>7, <2>2, <2>3, <2>4 DEF TypeOK, LockCounter, Settling
<1>8. ASSUME NEW j \in Jobs, Reserve(j)
      PROVE  TypeOK'
  <2>1. day[j] \in Days
    BY DEF TypeOK
  <2>0. \A k \in PeriodKeys : [seen[j][k] EXCEPT !.reserved = @ + 1] \in Counters
    <3>1. \A k \in PeriodKeys : seen[j][k] \in Counters
      BY DEF TypeOK
    <3>2. QED
      BY <3>1, OneMoreReserved
  <2>2. counter' \in [PeriodKeys -> Counters]
    <3>1. \A k \in PeriodKeys : counter[k] \in Counters
      BY DEF TypeOK
    <3>2. QED
      BY <1>8, <2>0, <3>1 DEF Reserve
  <2>3. /\ reservation' \in [Jobs -> Statuses]
        /\ reservedOn' \in [Jobs -> Days \cup {0}]
        /\ \A i \in Jobs : reservation'[i] # "NONE" => reservedOn'[i] \in Days
    BY <1>8, <2>1 DEF Reserve, TypeOK, Statuses
  <2>4. \A i \in Jobs : Settling(i)' => reservation'[i] = "RESERVED"
    BY <1>8, EndTxTypes DEF Reserve, TypeOK
  <2>5. QED
    BY <1>8, <2>2, <2>3, <2>4, EndTxTypes DEF Reserve, TypeOK
<1>9. ASSUME NEW j \in Jobs, Refuse(j)
      PROVE  TypeOK'
  BY <1>9, EndTxTypes DEF Refuse, TypeOK
<1>10. ASSUME NEW j \in Jobs, Settle(j)
       PROVE  TypeOK'
  <2>1. \A k \in KeysOf(day[j]) \cap PeriodKeys :
          SettledCounter(seen[j][k], step[j]) \in Counters
    BY <1>10 DEF Settle, Underflow, SettledCounter, TypeOK, Counters
  <2>2. counter' \in [PeriodKeys -> Counters]
    BY <1>10, <2>1 DEF Settle, TypeOK
  <2>3. /\ reservation' \in [Jobs -> Statuses]
        /\ \A i \in Jobs : reservation'[i] # "NONE" => reservedOn'[i] \in Days
    <3>1. step[j] \in Statuses /\ reservedOn' = reservedOn
      BY <1>10 DEF Settle, Settling, Statuses
    <3>2. reservation[j] # "NONE" /\ reservedOn[j] \in Days
      BY <1>10 DEF TypeOK, Settle
    <3>3. reservation' \in [Jobs -> Statuses]
      BY <1>10, <3>1 DEF Settle, TypeOK
    <3>4. QED
      BY <1>10, <3>1, <3>2, <3>3 DEF Settle, TypeOK
  <2>4. \A i \in Jobs : Settling(i)' => reservation'[i] = "RESERVED"
    BY <1>10, EndTxTypes DEF Settle, TypeOK
  <2>5. QED
    BY <1>10, <2>2, <2>3, <2>4, EndTxTypes DEF Settle, TypeOK
<1>11. ASSUME NEW j \in Jobs, Abort(j)
       PROVE  TypeOK'
  <2>0. EndTx(j, FALSE) /\ aborts' = aborts + 1
    BY <1>11 DEF Abort
  <2>1. EndTx(j, FALSE) /\ aborts' \in Nat
    <3>1. aborts \in Nat
      BY DEF TypeOK
    <3>2. aborts' \in Nat
      BY <2>0, <3>1
    <3>3. QED
      BY <2>0, <3>2
  <2>2. UNCHANGED <<counter, reservation, reservedOn>>
    BY <1>11 DEF Abort
  <2>3. \A i \in Jobs : Settling(i)' => reservation'[i] = "RESERVED"
    BY <2>1, <2>2, EndTxTypes DEF TypeOK
  <2>4. QED
    BY <2>1, <2>2, <2>3, EndTxTypes DEF TypeOK
<1>12. QED
  BY <1>1, <1>2, <1>3, <1>4, <1>5, <1>6, <1>7, <1>8, <1>9, <1>10, <1>11
     DEF Next, TxStep

(***************************************************************************)
(* The variables keep their types.                                         *)
(***************************************************************************)
THEOREM TypeCorrect == Spec => []TypeOK
<1>1. Init => TypeOK
  BY DEF Init, TypeOK, Zeros, Counters, Statuses, Settling
<1>2. QED
  BY <1>1, StepTypes, PTL DEF Spec
-----------------------------------------------------------------------------
(***************************************************************************)
(* The inductive invariant.  A transaction that has locked a key is its    *)
(* only holder, and what it read there is still the row (LocksHeld); the   *)
(* keys it works on are those the reservation has or will have recorded    *)
(* (OwnKeys).  Those two make every counter the count of its reservations. *)
(***************************************************************************)
HIDE CalendarAssumption DEF Days

Locking(j) == step[j] = "locking" \/ Settling(j)

Holds(j, k) == locker[k] = j /\ seen[j][k] = counter[k]

HoldsItsKeys(j) ==
  Locking(j) => /\ at[j] \in {2, 3} => Holds(j, MonthKey(day[j]))
                /\ at[j] = 3 => Holds(j, DayKey(day[j]))

LocksHeld == \A j \in Jobs : HoldsItsKeys(j)

OwnKeys ==
  \A j \in Jobs : /\ Settling(j) => day[j] = reservedOn[j]
                  /\ step[j] \in {"inserting", "locking"} => reservation[j] = "NONE"

(***************************************************************************)
(* What a step of transaction i must not touch for the others to keep      *)
(* their locks.                                                            *)
(***************************************************************************)
LEMMA OthersKeepLocks ==
  ASSUME TypeOK, LocksHeld, NEW i,
         \A j \in Jobs : j # i =>
           /\ step'[j] = step[j] /\ at'[j] = at[j]
           /\ day'[j] = day[j] /\ seen'[j] = seen[j],
         \A k \in PeriodKeys : locker[k] \in Jobs /\ locker[k] # i =>
           locker'[k] = locker[k] /\ counter'[k] = counter[k]
  PROVE  \A j \in Jobs : j # i => HoldsItsKeys(j)'
<1> TAKE j \in Jobs
<1> HAVE j # i
<1>1. day[j] \in Days
  BY DEF TypeOK
<1>2. MonthKey(day[j]) \in PeriodKeys /\ DayKey(day[j]) \in PeriodKeys
  BY <1>1, KeyFacts
<1>3. HoldsItsKeys(j)
  BY DEF LocksHeld
<1>4. \A k \in PeriodKeys : Holds(j, k) => Holds(j, k)'
  BY DEF Holds
<1>5. Locking(j)' = Locking(j) /\ at'[j] = at[j]
  BY DEF Locking, Settling
<1>6. day'[j] = day[j] /\ MonthKey(day[j])' = MonthKey(day[j])
        /\ DayKey(day[j])' = DayKey(day[j])
  BY DEF MonthKey, DayKey
<1>7. /\ Holds(j, MonthKey(day[j])) => Holds(j, MonthKey(day[j]))'
      /\ Holds(j, DayKey(day[j])) => Holds(j, DayKey(day[j]))'
  BY <1>2, <1>4, <1>6 DEF Holds
<1>8. QED
  BY <1>3, <1>5, <1>7 DEF HoldsItsKeys

(***************************************************************************)
(* At index 3 a transaction holds both keys of its day, so it alone may    *)
(* write them.                                                             *)
(***************************************************************************)
LEMMA HoldsBoth ==
  ASSUME TypeOK, LocksHeld, NEW j \in Jobs, Locking(j), at[j] = 3
  PROVE  /\ day[j] \in Days
         /\ KeysOf(day[j]) \subseteq PeriodKeys
         /\ \A k \in KeysOf(day[j]) : locker[k] = j /\ seen[j][k] = counter[k]
<1>1. day[j] \in Days
  BY DEF TypeOK
<1>2. Holds(j, MonthKey(day[j])) /\ Holds(j, DayKey(day[j]))
  BY DEF LocksHeld, HoldsItsKeys
<1>3. QED
  BY <1>1, <1>2, KeyFacts DEF Holds

LEMMA EndKeepsLocks ==
  ASSUME TypeOK, LocksHeld, NEW i \in Jobs, NEW c \in BOOLEAN, EndTx(i, c),
         \A k \in PeriodKeys : locker[k] \in Jobs /\ locker[k] # i =>
           counter'[k] = counter[k]
  PROVE  LocksHeld'
<1>1. \A j \in Jobs : j # i =>
        /\ step'[j] = step[j] /\ at'[j] = at[j]
        /\ day'[j] = day[j] /\ seen'[j] = seen[j]
  BY DEF EndTx, TypeOK
<1>2. \A k \in PeriodKeys : locker[k] \in Jobs /\ locker[k] # i =>
        locker'[k] = locker[k] /\ counter'[k] = counter[k]
  BY DEF EndTx
<1>3. HoldsItsKeys(i)'
  BY DEF EndTx, TypeOK, HoldsItsKeys, Locking, Settling
<1>4. QED
  BY <1>1, <1>2, <1>3, OthersKeepLocks DEF LocksHeld
LEMMA StepLocks ==
  ASSUME TypeOK, LocksHeld, [Next]_vars
  PROVE  LocksHeld'
<1>1. CASE UNCHANGED vars \/ Tomorrow
  BY <1>1 DEF vars, txVars, Tomorrow, LocksHeld, HoldsItsKeys, Holds, Locking,
              Settling, MonthKey, DayKey
<1>2. ASSUME NEW i \in Jobs, UNCHANGED <<counter, locker, seen>>,
             ~Locking(i)' \/ at'[i] = 1,
             \A j \in Jobs : j # i => /\ step'[j] = step[j] /\ at'[j] = at[j]
                                      /\ day'[j] = day[j]
      PROVE  LocksHeld'
  <2>1. HoldsItsKeys(i)'
    BY <1>2 DEF HoldsItsKeys
  <2>2. QED
    BY <1>2, <2>1, OthersKeepLocks DEF LocksHeld
<1>3. ASSUME NEW i \in Jobs, BeginReserve(i)
      PROVE  LocksHeld'
  <2>1. ~Locking(i)'
    BY <1>3 DEF BeginReserve, TypeOK, Locking, Settling
  <2>2. QED
    BY <1>2, <1>3, <2>1 DEF BeginReserve, TypeOK
<1>4. ASSUME NEW i \in Jobs, NEW target \in {"COMMITTED", "RELEASED"},
             BeginSettle(i, target)
      PROVE  LocksHeld'
  <2>1. at'[i] = 1
    BY <1>4 DEF BeginSettle, TypeOK
  <2>2. QED
    BY <1>2, <1>4, <2>1 DEF BeginSettle, TypeOK
<1>5. ASSUME NEW i \in Jobs, InsertCounter(i)
      PROVE  LocksHeld'
  <2>1. ~Locking(i)'
    BY <1>5 DEF InsertCounter, TypeOK, Locking, Settling
  <2>2. QED
    BY <1>2, <1>5, <2>1 DEF InsertCounter, TypeOK
<1>6. ASSUME NEW i \in Jobs, StartLocking(i)
      PROVE  LocksHeld'
  <2>1. at'[i] = 1
    BY <1>6 DEF StartLocking, TypeOK
  <2>2. QED
    BY <1>2, <1>6, <2>1 DEF StartLocking, TypeOK
<1>7. ASSUME NEW i \in Jobs, LockCounter(i)
      PROVE  LocksHeld'
  <2>1. /\ NextKey(i) \in PeriodKeys
        /\ at[i] \in {1, 2}
        /\ at[i] = 1 => NextKey(i) = MonthKey(day[i])
        /\ at[i] = 2 => NextKey(i) = DayKey(day[i])
    BY <1>7, NextKeyType DEF LockCounter
  <2>2. /\ locker[NextKey(i)] = NoJob
        /\ locker' = [locker EXCEPT ![NextKey(i)] = i]
        /\ seen' = [seen EXCEPT ![i][NextKey(i)] = counter[NextKey(i)]]
        /\ at' = [at EXCEPT ![i] = @ + 1]
        /\ UNCHANGED <<counter, step, day>>
    BY <1>7 DEF LockCounter, LockBlocked, LocksTaken
  <2>3. \A j \in Jobs : j # i =>
          /\ step'[j] = step[j] /\ at'[j] = at[j]
          /\ day'[j] = day[j] /\ seen'[j] = seen[j]
    BY <2>2 DEF TypeOK
  <2>4. \A k \in PeriodKeys : locker[k] \in Jobs /\ locker[k] # i =>
          locker'[k] = locker[k] /\ counter'[k] = counter[k]
    BY <2>1, <2>2, JobsAssumption DEF TypeOK
  <2>5. Locking(i) /\ HoldsItsKeys(i) /\ at'[i] = at[i] + 1 /\ day[i] \in Days
    BY <1>7, <2>2 DEF LockCounter, Locking, LocksHeld, TypeOK
  <2>6. /\ \A k \in PeriodKeys :
             k = NextKey(i) => locker'[k] = i /\ seen'[i][k] = counter'[k]
        /\ \A k \in PeriodKeys : k # NextKey(i) /\ Holds(i, k) =>
             locker'[k] = i /\ seen'[i][k] = counter'[k]
    BY <2>1, <2>2 DEF TypeOK, Holds
  <2>7. HoldsItsKeys(i)'
    <3>1. MonthKey(day[i]) \in PeriodKeys /\ DayKey(day[i]) \in PeriodKeys
            /\ MonthKey(day[i]) # DayKey(day[i])
      BY <2>5, KeyFacts
    <3>2. MonthKey(day[i])' = MonthKey(day[i]) /\ DayKey(day[i])' = DayKey(day[i])
      BY <2>2 DEF MonthKey, DayKey
    <3>3. \A k \in PeriodKeys : k = NextKey(i) \/ Holds(i, k) =>
            locker'[k] = i /\ seen'[i][k] = counter'[k]
      BY <2>6
    <3>4. Holds(i, MonthKey(day[i]))'
      <4>1. MonthKey(day[i]) = NextKey(i) \/ Holds(i, MonthKey(day[i]))
        BY <2>1, <2>5 DEF HoldsItsKeys
      <4>2. QED
        BY <4>1, <3>1, <3>2, <3>3 DEF Holds
    <3>5. at'[i] = 3 => Holds(i, DayKey(day[i]))'
      <4>1. at'[i] = 3 => DayKey(day[i]) = NextKey(i)
        BY <2>1, <2>5
      <4>2. QED
        BY <4>1, <3>1, <3>2, <3>3 DEF Holds
    <3>6. QED
      BY <3>4, <3>5 DEF HoldsItsKeys
  <2>8. QED
    BY <2>3, <2>4, <2>7, OthersKeepLocks DEF LocksHeld
<1>8. ASSUME NEW i \in Jobs, Reserve(i)
      PROVE  LocksHeld'
  <2>1. Locking(i) /\ at[i] = 3 /\ EndTx(i, TRUE)
    BY <1>8 DEF Reserve, Locking
  <2>2. \A k \in PeriodKeys : locker[k] \in Jobs /\ locker[k] # i =>
          counter'[k] = counter[k]
    BY <1>8, <2>1, HoldsBoth DEF Reserve
  <2>3. QED
    BY <2>1, <2>2, EndKeepsLocks
<1>9. ASSUME NEW i \in Jobs, Settle(i)
      PROVE  LocksHeld'
  <2>1. Locking(i) /\ at[i] = 3 /\ EndTx(i, TRUE)
    BY <1>9 DEF Settle, Locking
  <2>2. \A k \in PeriodKeys : locker[k] \in Jobs /\ locker[k] # i =>
          counter'[k] = counter[k]
    BY <1>9, <2>1, HoldsBoth DEF Settle
  <2>3. QED
    BY <2>1, <2>2, EndKeepsLocks
<1>10. ASSUME NEW i \in Jobs, Refuse(i) \/ Abort(i)
       PROVE  LocksHeld'
  <2>1. EndTx(i, FALSE) /\ counter' = counter
    BY <1>10 DEF Refuse, Abort
  <2>2. QED
    BY <2>1, EndKeepsLocks
<1>11. QED
  BY <1>1, <1>3, <1>4, <1>5, <1>6, <1>7, <1>8, <1>9, <1>10 DEF Next, TxStep

LEMMA StepOwnKeys ==
  ASSUME TypeOK, OwnKeys, [Next]_vars
  PROVE  OwnKeys'
<1>1. CASE UNCHANGED vars \/ Tomorrow
  BY <1>1 DEF vars, txVars, Tomorrow, OwnKeys, Settling
<1>2. ASSUME NEW i \in Jobs, BeginReserve(i)
      PROVE  OwnKeys'
  BY <1>2 DEF BeginReserve, OwnKeys, Settling, TypeOK
<1>3. ASSUME NEW i \in Jobs, NEW target \in {"COMMITTED", "RELEASED"},
             BeginSettle(i, target)
      PROVE  OwnKeys'
  BY <1>3 DEF BeginSettle, SettledDay, OwnKeys, Settling, TypeOK
<1>4. ASSUME NEW i \in Jobs, InsertCounter(i) \/ StartLocking(i) \/ LockCounter(i)
      PROVE  OwnKeys'
  BY <1>4 DEF InsertCounter, StartLocking, LockCounter, OwnKeys, Settling, TypeOK
<1>5. ASSUME NEW i \in Jobs, NEW c \in BOOLEAN, EndTx(i, c),
             \A j \in Jobs : j # i => /\ reservation'[j] = reservation[j]
                                      /\ reservedOn'[j] = reservedOn[j]
      PROVE  OwnKeys'
  BY <1>5 DEF EndTx, OwnKeys, Settling, TypeOK
<1>6. ASSUME NEW i \in Jobs, Reserve(i) \/ Refuse(i) \/ Settle(i) \/ Abort(i)
      PROVE  OwnKeys'
  BY <1>5, <1>6 DEF Reserve, Refuse, Settle, Abort, TypeOK
<1>7. QED
  BY <1>1, <1>2, <1>3, <1>4, <1>6 DEF Next, TxStep
-----------------------------------------------------------------------------
LEMMA FiniteCounts ==
  ASSUME NEW k, NEW status
  PROVE  /\ IsFiniteSet(CountsOf(k, status))
         /\ Cardinality(CountsOf(k, status)) \in Nat
<1>1. CountsOf(k, status) \subseteq Jobs
  BY DEF CountsOf
<1>2. IsFiniteSet(CountsOf(k, status))
  BY <1>1, JobsAssumption, FS_Subset
<1>3. QED
  BY <1>2, FS_CardinalityType

(***************************************************************************)
(* A reservation in its transaction is counted where it says, so settling  *)
(* it never finds a counter at zero.                                       *)
(***************************************************************************)
LEMMA NoUnderflow ==
  ASSUME TypeOK, LocksHeld, OwnKeys, CountersExact,
         NEW j \in Jobs, Settling(j), at[j] = 3
  PROVE  ~Underflow(j)
<1>1. /\ KeysOf(day[j]) \subseteq PeriodKeys
      /\ \A k \in KeysOf(day[j]) : seen[j][k] = counter[k]
  BY HoldsBoth DEF Locking
<1>2. day[j] = reservedOn[j] /\ reservation[j] = "RESERVED"
  BY DEF OwnKeys, TypeOK
<1>3. ASSUME NEW k \in KeysOf(day[j])
      PROVE  counter[k].reserved \in Nat \ {0}
  <2>1. counter[k].reserved = Cardinality(CountsOf(k, "RESERVED"))
    BY <1>1 DEF CountersExact
  <2>2. j \in CountsOf(k, "RESERVED")
    BY <1>2 DEF CountsOf
  <2>3. CountsOf(k, "RESERVED") # {}
    BY <2>2
  <2>4. QED
    BY <2>1, <2>3, FiniteCounts, FS_EmptySet
<1>4. \A k \in KeysOf(day[j]) : seen[j][k].reserved \in Nat \ {0}
  BY <1>1, <1>3
<1>5. QED
  BY <1>4 DEF Underflow

LEMMA ReserveExact ==
  ASSUME TypeOK, LocksHeld, OwnKeys, CountersExact, NEW j \in Jobs, Reserve(j)
  PROVE  CountersExact'
<1>1. /\ day[j] \in Days /\ KeysOf(day[j]) \subseteq PeriodKeys
      /\ \A k \in KeysOf(day[j]) : seen[j][k] = counter[k]
  BY HoldsBoth DEF Locking, Reserve
<1>2. reservation[j] = "NONE"
  BY DEF OwnKeys, Reserve
<1>3. /\ reservation' = [reservation EXCEPT ![j] = "RESERVED"]
      /\ reservedOn' = [reservedOn EXCEPT ![j] = day[j]]
  BY DEF Reserve
<1>4. \A k : KeysOf(k)' = KeysOf(k)
  BY DEF KeysOf, MonthKey, DayKey
<1> SUFFICES ASSUME NEW k \in PeriodKeys
             PROVE  /\ counter'[k].reserved = Cardinality(CountsOf(k, "RESERVED")')
                    /\ counter'[k].used = Cardinality(CountsOf(k, "COMMITTED")')
  BY DEF CountersExact
<1>5. /\ counter[k].reserved = Cardinality(CountsOf(k, "RESERVED"))
      /\ counter[k].used = Cardinality(CountsOf(k, "COMMITTED"))
      /\ counter[k] \in Counters
  BY DEF CountersExact, TypeOK
<1>6. CountsOf(k, "COMMITTED")' = CountsOf(k, "COMMITTED")
  BY <1>2, <1>3 DEF CountsOf, TypeOK
<1>7. CASE k \in KeysOf(day[j])
  <2>1. counter'[k] = [counter[k] EXCEPT !.reserved = @ + 1]
    BY <1>1, <1>7 DEF Reserve
  <2>2. counter'[k].reserved = counter[k].reserved + 1
          /\ counter'[k].used = counter[k].used
    BY <2>1, <1>5, OneMoreReserved
  <2>3. CountsOf(k, "RESERVED")' = CountsOf(k, "RESERVED") \cup {j}
    BY <1>3, <1>7 DEF CountsOf, TypeOK
  <2>4. j \notin CountsOf(k, "RESERVED")
    BY <1>2 DEF CountsOf
  <2>5. QED
    BY <2>2, <2>3, <2>4, <1>5, <1>6, FiniteCounts, FS_AddElement
<1>8. CASE k \notin KeysOf(day[j])
  <2>1. counter'[k] = counter[k]
    BY <1>8 DEF Reserve
  <2>2. CountsOf(k, "RESERVED")' = CountsOf(k, "RESERVED")
    BY <1>2, <1>3, <1>8 DEF CountsOf, TypeOK
  <2>3. QED
    BY <2>1, <2>2, <1>5, <1>6
<1>9. QED
  BY <1>7, <1>8
LEMMA SettleExact ==
  ASSUME TypeOK, LocksHeld, OwnKeys, CountersExact, NEW j \in Jobs, Settle(j)
  PROVE  CountersExact'
<1>1. /\ day[j] \in Days /\ KeysOf(day[j]) \subseteq PeriodKeys
      /\ \A k \in KeysOf(day[j]) : seen[j][k] = counter[k]
  BY HoldsBoth DEF Locking, Settle
<1>2. /\ reservation[j] = "RESERVED" /\ reservedOn[j] = day[j]
      /\ step[j] \in {"COMMITTED", "RELEASED"}
  BY DEF OwnKeys, Settle, Settling, TypeOK
<1>3. /\ reservation' = [reservation EXCEPT ![j] = step[j]]
      /\ reservedOn' = reservedOn
  BY DEF Settle
<1>4. \A k : KeysOf(k)' = KeysOf(k)
  BY DEF KeysOf, MonthKey, DayKey
<1> SUFFICES ASSUME NEW k \in PeriodKeys
             PROVE  /\ counter'[k].reserved = Cardinality(CountsOf(k, "RESERVED")')
                    /\ counter'[k].used = Cardinality(CountsOf(k, "COMMITTED")')
  BY DEF CountersExact
<1>5. /\ counter[k].reserved = Cardinality(CountsOf(k, "RESERVED"))
      /\ counter[k].used = Cardinality(CountsOf(k, "COMMITTED"))
      /\ counter[k] \in Counters
  BY DEF CountersExact, TypeOK
<1>6. CASE k \in KeysOf(day[j])
  <2>1. counter'[k] = SettledCounter(counter[k], step[j])
    BY <1>1, <1>6 DEF Settle
  <2>2. /\ counter'[k].reserved = counter[k].reserved - 1
        /\ counter'[k].used = IF step[j] = "COMMITTED" THEN counter[k].used + 1
                              ELSE counter[k].used
    BY <2>1 DEF SettledCounter
  <2>3. /\ CountsOf(k, "RESERVED")' = CountsOf(k, "RESERVED") \ {j}
        /\ j \in CountsOf(k, "RESERVED")
    BY <1>2, <1>3, <1>6 DEF CountsOf, TypeOK
  <2>4. /\ CountsOf(k, "COMMITTED")' = IF step[j] = "COMMITTED"
                                       THEN CountsOf(k, "COMMITTED") \cup {j}
                                       ELSE CountsOf(k, "COMMITTED")
        /\ j \notin CountsOf(k, "COMMITTED")
    BY <1>2, <1>3, <1>6 DEF CountsOf, TypeOK
  <2>5. counter'[k].reserved = Cardinality(CountsOf(k, "RESERVED")')
    BY <2>2, <2>3, <1>5, FiniteCounts, FS_RemoveElement
  <2>6. counter'[k].used = Cardinality(CountsOf(k, "COMMITTED")')
    BY <2>2, <2>4, <1>5, FiniteCounts, FS_AddElement
  <2>7. QED
    BY <2>5, <2>6
<1>7. CASE k \notin KeysOf(day[j])
  <2>1. counter'[k] = counter[k]
    BY <1>7 DEF Settle
  <2>2. /\ CountsOf(k, "RESERVED")' = CountsOf(k, "RESERVED")
        /\ CountsOf(k, "COMMITTED")' = CountsOf(k, "COMMITTED")
    BY <1>2, <1>3, <1>7 DEF CountsOf, TypeOK
  <2>3. QED
    BY <2>1, <2>2, <1>5
<1>8. QED
  BY <1>6, <1>7

LEMMA StepExact ==
  ASSUME TypeOK, LocksHeld, OwnKeys, CountersExact, [Next]_vars
  PROVE  CountersExact'
<1>1. ASSUME UNCHANGED <<counter, reservation, reservedOn>>
      PROVE  CountersExact'
  BY <1>1 DEF CountersExact, CountsOf, KeysOf, MonthKey, DayKey
<1>2. ASSUME NEW j \in Jobs, Reserve(j)
      PROVE  CountersExact'
  BY <1>2, ReserveExact
<1>3. ASSUME NEW j \in Jobs, Settle(j)
      PROVE  CountersExact'
  BY <1>3, SettleExact
<1>4. ASSUME NEW j \in Jobs, NEW target \in {"COMMITTED", "RELEASED"},
             \/ BeginReserve(j) \/ BeginSettle(j, target) \/ InsertCounter(j)
             \/ StartLocking(j) \/ LockCounter(j) \/ Refuse(j) \/ Abort(j)
      PROVE  UNCHANGED <<counter, reservation, reservedOn>>
  BY <1>4 DEF BeginReserve, BeginSettle, InsertCounter, StartLocking,
              LockCounter, Refuse, Abort
<1>5. CASE UNCHANGED vars \/ Tomorrow
  BY <1>1, <1>5 DEF vars, Tomorrow
<1>6. QED
  BY <1>1, <1>2, <1>3, <1>4, <1>5 DEF Next, TxStep

Inv == TypeOK /\ LocksHeld /\ OwnKeys /\ CountersExact

LEMMA Invariance == Spec => []Inv
<1>1. Init => Inv
  <2> SUFFICES ASSUME Init PROVE Inv
    OBVIOUS
  <2>1. TypeOK
    BY CalendarAssumption DEF Init, TypeOK, Zeros, Counters, Statuses, Settling, Days
  <2>2. LocksHeld /\ OwnKeys
    BY DEF Init, LocksHeld, HoldsItsKeys, Locking, OwnKeys, Settling
  <2>3. \A k, status : status # "NONE" => CountsOf(k, status) = {}
    BY DEF Init, CountsOf
  <2>4. CountersExact
    BY <2>3, FS_EmptySet DEF Init, Zeros, CountersExact
  <2>5. QED
    BY <2>1, <2>2, <2>4 DEF Inv
<1>2. Inv /\ [Next]_vars => Inv'
  BY StepTypes, StepLocks, StepOwnKeys, StepExact DEF Inv
<1>3. QED
  BY <1>1, <1>2, PTL DEF Spec

(***************************************************************************)
(* No update of a counter is lost, however reserve, commit and release     *)
(* interleave: the locked read-modify-write keeps every counter equal to   *)
(* the number of reservations it stands for.                               *)
(***************************************************************************)
THEOREM NoLostUpdate == Spec => []CountersExact
BY Invariance, PTL DEF Inv

(***************************************************************************)
(* The free quota is never exceeded: the check and the write of reserve    *)
(* see the same counters, and settling never adds to their sum.            *)
(***************************************************************************)
THEOREM QuotaIsALimit == Spec => []WithinLimit
<1>1. Init => WithinLimit
  BY KeyFacts, LimitsAssumption DEF Init, WithinLimit, Zeros
<1>2. ASSUME Inv, WithinLimit, [Next]_vars
      PROVE  WithinLimit'
  <2> USE <1>2
  <2>1. CASE UNCHANGED counter
    BY <2>1 DEF WithinLimit, Limit, PeriodKeys, DayKey, MonthKey, Days
  <2>2. ASSUME NEW j \in Jobs, Reserve(j), NEW k \in PeriodKeys
        PROVE  counter'[k].used + counter'[k].reserved <= Limit(k)
    <3>1. CASE k \in KeysOf(day[j])
      <4>1. seen[j][k] = counter[k] /\ counter[k] \in Counters
        BY <2>2, <3>1, HoldsBoth DEF Inv, Locking, Reserve, TypeOK
      <4>2. seen[j][k].used + seen[j][k].reserved < Limit(k)
        BY <2>2, <3>1 DEF Reserve, QuotaRemains
      <4>3. counter'[k] = [seen[j][k] EXCEPT !.reserved = @ + 1]
        BY <2>2, <3>1 DEF Reserve
      <4>4. counter'[k].used = counter[k].used
              /\ counter'[k].reserved = counter[k].reserved + 1
        BY <4>1, <4>3, OneMoreReserved
      <4>5. counter[k].used \in Nat /\ counter[k].reserved \in Nat /\ Limit(k) \in Nat
        BY <4>1, KeyFacts DEF Counters
      <4>6. QED
        BY <4>1, <4>2, <4>4, <4>5
    <3>2. CASE k \notin KeysOf(day[j])
      BY <2>2, <3>2 DEF Reserve, WithinLimit
    <3>3. QED
      BY <3>1, <3>2
  <2>3. ASSUME NEW j \in Jobs, Settle(j), NEW k \in PeriodKeys
        PROVE  counter'[k].used + counter'[k].reserved <= Limit(k)
    <3>1. CASE k \in KeysOf(day[j])
      <4>1. seen[j][k] = counter[k] /\ counter[k] \in Counters
        BY <2>3, <3>1, HoldsBoth DEF Inv, Locking, Settle, TypeOK
      <4>2. counter'[k] = SettledCounter(counter[k], step[j])
        BY <2>3, <3>1, <4>1 DEF Settle
      <4>3. /\ counter'[k].reserved = counter[k].reserved - 1
            /\ counter'[k].used \in {counter[k].used, counter[k].used + 1}
        BY <4>2 DEF SettledCounter
      <4>4. /\ counter[k].used \in Nat /\ counter[k].reserved \in Nat
            /\ Limit(k) \in Nat
            /\ counter[k].used + counter[k].reserved <= Limit(k)
        BY <4>1, KeyFacts DEF Counters, WithinLimit
      <4>5. QED
        BY <4>3, <4>4
    <3>2. CASE k \notin KeysOf(day[j])
      BY <2>3, <3>2 DEF Settle, WithinLimit
    <3>3. QED
      BY <3>1, <3>2
  <2>4. \A j \in Jobs, target \in {"COMMITTED", "RELEASED"} :
          (\/ BeginReserve(j) \/ BeginSettle(j, target) \/ InsertCounter(j)
           \/ StartLocking(j) \/ LockCounter(j) \/ Refuse(j) \/ Abort(j))
          => UNCHANGED counter
    BY DEF BeginReserve, BeginSettle, InsertCounter, StartLocking, LockCounter,
           Refuse, Abort
  <2>5. \A k \in PeriodKeys : Limit(k)' = Limit(k)
    BY DEF Limit
  <2>6. \A j \in Jobs : Reserve(j) \/ Settle(j) => WithinLimit'
    BY <2>2, <2>3, <2>5 DEF WithinLimit, PeriodKeys, DayKey, MonthKey, Days
  <2>7. UNCHANGED vars \/ Tomorrow => UNCHANGED counter
    BY DEF vars, Tomorrow
  <2>8. QED
    BY <2>1, <2>4, <2>6, <2>7 DEF Next, TxStep
<1>3. QED
  BY <1>1, <1>2, Invariance, PTL DEF Spec
-----------------------------------------------------------------------------
(***************************************************************************)
(* The rows a reservation recorded stay: a key is stored, or inserted by   *)
(* the transaction that goes on to lock it.                                *)
(***************************************************************************)
Present(j, k) == k \in stored \/ inserter[k] = j

HasItsRows(j) ==
  /\ reservation[j] # "NONE" => KeysOf(reservedOn[j]) \subseteq stored
  /\ step[j] = "inserting" /\ at[j] \in {2, 3} => Present(j, MonthKey(day[j]))
  /\ step[j] = "inserting" /\ at[j] = 3 => Present(j, DayKey(day[j]))
  /\ step[j] = "locking" => Present(j, MonthKey(day[j])) /\ Present(j, DayKey(day[j]))

RowsThere == \A j \in Jobs : HasItsRows(j)

LEMMA OthersKeepRows ==
  ASSUME TypeOK, RowsThere, NEW i,
         \A j \in Jobs : j # i =>
           /\ step'[j] = step[j] /\ at'[j] = at[j] /\ day'[j] = day[j]
           /\ reservation'[j] = reservation[j] /\ reservedOn'[j] = reservedOn[j],
         stored \subseteq stored',
         \A k \in PeriodKeys : inserter[k] \in Jobs /\ inserter[k] # i =>
           inserter'[k] = inserter[k]
  PROVE  \A j \in Jobs : j # i => HasItsRows(j)'
<1> TAKE j \in Jobs
<1> HAVE j # i
<1>1. day[j] \in Days
  BY DEF TypeOK
<1>2. MonthKey(day[j]) \in PeriodKeys /\ DayKey(day[j]) \in PeriodKeys
  BY <1>1, KeyFacts
<1>3. \A k \in PeriodKeys : Present(j, k) => Present(j, k)'
  BY DEF Present
<1>4. /\ MonthKey(day[j])' = MonthKey(day[j]) /\ DayKey(day[j])' = DayKey(day[j])
      /\ KeysOf(reservedOn[j])' = KeysOf(reservedOn[j])
  BY DEF MonthKey, DayKey, KeysOf
<1>5. /\ Present(j, MonthKey(day[j])) => Present(j, MonthKey(day[j]))'
      /\ Present(j, DayKey(day[j])) => Present(j, DayKey(day[j]))'
  BY <1>2, <1>3, <1>4 DEF Present
<1>6. HasItsRows(j)
  BY DEF RowsThere
<1>7. QED
  BY <1>4, <1>5, <1>6 DEF HasItsRows

LEMMA EndKeepsRows ==
  ASSUME TypeOK, RowsThere, NEW i \in Jobs, NEW c \in BOOLEAN, EndTx(i, c),
         \A j \in Jobs : j # i => /\ reservation'[j] = reservation[j]
                                  /\ reservedOn'[j] = reservedOn[j],
         reservation'[i] # "NONE" => KeysOf(reservedOn'[i]) \subseteq stored'
  PROVE  RowsThere'
<1>1. \A j \in Jobs : j # i =>
        /\ step'[j] = step[j] /\ at'[j] = at[j] /\ day'[j] = day[j]
        /\ reservation'[j] = reservation[j] /\ reservedOn'[j] = reservedOn[j]
  BY DEF EndTx, TypeOK
<1>2. stored \subseteq stored'
  BY DEF EndTx
<1>3. \A k \in PeriodKeys : inserter[k] \in Jobs /\ inserter[k] # i =>
        inserter'[k] = inserter[k]
  BY DEF EndTx
<1>4. step'[i] = "idle"
  BY DEF EndTx, TypeOK
<1>5. HasItsRows(i)'
  BY <1>4 DEF HasItsRows, KeysOf, MonthKey, DayKey
<1>6. QED
  BY <1>1, <1>2, <1>3, <1>5, OthersKeepRows DEF RowsThere

LEMMA StepRows ==
  ASSUME TypeOK, OwnKeys, RowsThere, [Next]_vars
  PROVE  RowsThere'
<1>1. CASE UNCHANGED vars \/ Tomorrow
  BY <1>1 DEF vars, txVars, Tomorrow, RowsThere, HasItsRows, Present, KeysOf,
              MonthKey, DayKey
<1>2. ASSUME NEW i \in Jobs, UNCHANGED <<stored, inserter, reservation, reservedOn>>,
             \A j \in Jobs : j # i => /\ step'[j] = step[j] /\ at'[j] = at[j]
                                      /\ day'[j] = day[j],
             HasItsRows(i)'
      PROVE  RowsThere'
  BY <1>2, OthersKeepRows DEF RowsThere
<1>3. ASSUME NEW i \in Jobs, NEW target \in {"COMMITTED", "RELEASED"},
             BeginReserve(i) \/ BeginSettle(i, target)
      PROVE  RowsThere'
  <2>1. /\ step'[i] \in {"inserting", "COMMITTED", "RELEASED"} /\ at'[i] = 1
        /\ UNCHANGED <<stored, inserter, reservation, reservedOn>>
        /\ \A j \in Jobs : j # i => /\ step'[j] = step[j] /\ at'[j] = at[j]
                                    /\ day'[j] = day[j]
    BY <1>3 DEF BeginReserve, BeginSettle, TypeOK
  <2>2. HasItsRows(i)'
    <3>1. reservation'[i] # "NONE" => KeysOf(reservedOn[i]) \subseteq stored
      BY <2>1 DEF RowsThere, HasItsRows
    <3>2. KeysOf(reservedOn[i])' = KeysOf(reservedOn[i])
      BY <2>1 DEF KeysOf, MonthKey, DayKey
    <3>3. step'[i] # "locking" /\ at'[i] \notin {2, 3}
      BY <2>1
    <3>4. QED
      BY <2>1, <3>1, <3>2, <3>3 DEF HasItsRows
  <2>3. QED
    BY <1>2, <2>1, <2>2
<1>4. ASSUME NEW i \in Jobs, InsertCounter(i)
      PROVE  RowsThere'
  <2>1. /\ NextKey(i) \in PeriodKeys
        /\ at[i] \in {1, 2}
        /\ at[i] = 1 => NextKey(i) = MonthKey(day[i])
        /\ at[i] = 2 => NextKey(i) = DayKey(day[i])
    BY <1>4, NextKeyType DEF InsertCounter
  <2>2. /\ step[i] = "inserting" /\ at' = [at EXCEPT ![i] = @ + 1]
        /\ inserter[NextKey(i)] \in {NoJob, i}
        /\ inserter' = IF NextKey(i) \in stored THEN inserter
                       ELSE [inserter EXCEPT ![NextKey(i)] = i]
        /\ UNCHANGED <<stored, reservation, reservedOn, step, day>>
    BY <1>4 DEF InsertCounter, InsertBlocked
  <2>3. \A k \in PeriodKeys : inserter[k] \in Jobs /\ inserter[k] # i =>
          inserter'[k] = inserter[k]
    BY <2>1, <2>2, JobsAssumption DEF TypeOK
  <2>4. \A j \in Jobs : j # i => HasItsRows(j)'
    <3>1. \A j \in Jobs : j # i => at'[j] = at[j]
      BY <2>2 DEF TypeOK
    <3>2. QED
      BY <2>2, <2>3, <3>1, OthersKeepRows
  <2>5. \A k \in PeriodKeys :
          k = NextKey(i) \/ Present(i, k) => k \in stored' \/ inserter'[k] = i
    BY <2>1, <2>2 DEF TypeOK, Present
  <2>6. HasItsRows(i)'
    <3>1. MonthKey(day[i]) \in PeriodKeys /\ DayKey(day[i]) \in PeriodKeys
      BY KeyFacts DEF TypeOK
    <3>2. /\ MonthKey(day[i])' = MonthKey(day[i]) /\ DayKey(day[i])' = DayKey(day[i])
          /\ KeysOf(reservedOn[i])' = KeysOf(reservedOn[i])
      BY <2>2 DEF MonthKey, DayKey, KeysOf
    <3>3. HasItsRows(i) /\ at'[i] = at[i] + 1
      BY <2>2 DEF RowsThere, TypeOK
    <3>4. Present(i, MonthKey(day[i]))'
      <4>1. MonthKey(day[i]) = NextKey(i) \/ Present(i, MonthKey(day[i]))
        BY <2>1, <2>2, <3>3 DEF HasItsRows
      <4>2. QED
        BY <4>1, <2>5, <3>1, <3>2 DEF Present
    <3>5. at'[i] = 3 => Present(i, DayKey(day[i]))'
      <4>1. at'[i] = 3 => DayKey(day[i]) = NextKey(i)
        BY <2>1, <3>3
      <4>2. QED
        BY <4>1, <2>5, <3>1, <3>2 DEF Present
    <3>6. QED
      BY <2>2, <3>2, <3>3, <3>4, <3>5 DEF HasItsRows
  <2>7. QED
    BY <2>4, <2>6 DEF RowsThere
<1>5. ASSUME NEW i \in Jobs, StartLocking(i) \/ LockCounter(i)
      PROVE  RowsThere'
  <2>1. /\ UNCHANGED <<stored, inserter, reservation, reservedOn>>
        /\ day' = day
        /\ \A j \in Jobs : j # i => step'[j] = step[j] /\ at'[j] = at[j]
    BY <1>5 DEF StartLocking, LockCounter, TypeOK
  <2>2. /\ step'[i] # "inserting"
        /\ step'[i] = "locking" => \/ step[i] = "locking"
                                   \/ step[i] = "inserting" /\ at[i] = 3
    BY <1>5 DEF StartLocking, LockCounter, Settling, TypeOK
  <2>3. HasItsRows(i)'
    BY <2>1, <2>2 DEF RowsThere, HasItsRows, Present, KeysOf, MonthKey, DayKey
  <2>4. QED
    BY <1>2, <2>1, <2>3
<1>6. ASSUME NEW i \in Jobs, Reserve(i)
      PROVE  RowsThere'
  <2>1. /\ EndTx(i, TRUE) /\ step[i] = "locking"
        /\ reservation' = [reservation EXCEPT ![i] = "RESERVED"]
        /\ reservedOn' = [reservedOn EXCEPT ![i] = day[i]]
    BY <1>6 DEF Reserve
  <2>2. /\ MonthKey(day[i]) \in PeriodKeys /\ DayKey(day[i]) \in PeriodKeys
    BY KeyFacts DEF TypeOK
  <2>3. Present(i, MonthKey(day[i])) /\ Present(i, DayKey(day[i]))
    BY <2>1 DEF RowsThere, HasItsRows
  <2>4. KeysOf(day[i]) \subseteq stored'
    BY <2>1, <2>2, <2>3 DEF EndTx, Present, KeysOf
  <2>5. reservedOn'[i] = day[i]
    BY <2>1 DEF TypeOK
  <2>6. KeysOf(reservedOn'[i]) \subseteq stored'
    BY <2>4, <2>5
  <2>7. \A j \in Jobs : j # i => /\ reservation'[j] = reservation[j]
                                 /\ reservedOn'[j] = reservedOn[j]
    BY <2>1 DEF TypeOK
  <2>8. QED
    BY <2>1, <2>6, <2>7, EndKeepsRows
<1>7. ASSUME NEW i \in Jobs, Settle(i) \/ Refuse(i) \/ Abort(i)
      PROVE  RowsThere'
  <2>1. /\ reservedOn' = reservedOn
        /\ \A j \in Jobs : j # i => reservation'[j] = reservation[j]
        /\ reservation'[i] # "NONE" => reservation[i] # "NONE"
    BY <1>7 DEF Settle, Refuse, Abort, TypeOK
  <2>2. \E c \in BOOLEAN : EndTx(i, c)
    BY <1>7 DEF Settle, Refuse, Abort
  <2>3. stored \subseteq stored'
    BY <2>2 DEF EndTx
  <2>4. reservation'[i] # "NONE" => KeysOf(reservedOn'[i]) \subseteq stored'
    BY <2>1, <2>3 DEF RowsThere, HasItsRows
  <2>5. QED
    BY <2>1, <2>2, <2>4, EndKeepsRows
<1>8. QED
  BY <1>1, <1>3, <1>4, <1>5, <1>6, <1>7 DEF Next, TxStep

(***************************************************************************)
(* commit and release always find the counters they recorded, with         *)
(* something reserved: a finished diagnosis can always be settled.         *)
(***************************************************************************)
THEOREM AlwaysSettles == Spec => []SettlementSucceeds
<1>1. Init => RowsThere
  BY DEF Init, RowsThere, HasItsRows
<1>2. Inv /\ RowsThere /\ [Next]_vars => RowsThere'
  BY StepRows DEF Inv
<1>3. Inv /\ RowsThere => SettlementSucceeds
  <2> SUFFICES ASSUME Inv, RowsThere, NEW j \in Jobs, Settling(j)
               PROVE  /\ KeysOf(day[j]) \subseteq stored
                      /\ at[j] = 3 => ~Underflow(j)
    BY DEF SettlementSucceeds
  <2>1. day[j] = reservedOn[j] /\ reservation[j] = "RESERVED"
    BY DEF Inv, OwnKeys, TypeOK
  <2>2. KeysOf(day[j]) \subseteq stored
    BY <2>1 DEF RowsThere, HasItsRows
  <2>3. QED
    BY <2>2, NoUnderflow DEF Inv
<1>4. QED
  BY <1>1, <1>2, <1>3, Invariance, PTL DEF Spec
-----------------------------------------------------------------------------
(***************************************************************************)
(* With exact counters, the check of reserve is the check of the ledger.   *)
(***************************************************************************)
LEMMA UsesAreCounted ==
  ASSUME Inv, NEW d \in Days
  PROVE  /\ Ledger!UsesOfDay(d)
              = counter[DayKey(d)].used + counter[DayKey(d)].reserved
         /\ Ledger!UsesOfMonth(MonthOf[d])
              = counter[MonthKey(d)].used + counter[MonthKey(d)].reserved
<1> DEFINE Uses(k) == CountsOf(k, "RESERVED") \cup CountsOf(k, "COMMITTED")
<1>1. \A k \in PeriodKeys :
        Cardinality(Uses(k)) = counter[k].used + counter[k].reserved
  <2> TAKE k \in PeriodKeys
  <2>1. CountsOf(k, "RESERVED") \cap CountsOf(k, "COMMITTED") = {}
    BY DEF CountsOf
  <2>2. Cardinality(Uses(k)) = Cardinality(CountsOf(k, "RESERVED"))
          + Cardinality(CountsOf(k, "COMMITTED")) - Cardinality({})
    BY <2>1, FiniteCounts, FS_Union
  <2>3. /\ counter[k].reserved = Cardinality(CountsOf(k, "RESERVED"))
        /\ counter[k].used = Cardinality(CountsOf(k, "COMMITTED"))
    BY DEF Inv, CountersExact
  <2>4. QED
    BY <2>2, <2>3, FiniteCounts, FS_EmptySet
<1>2. \A j \in Jobs : reservation[j] # "NONE" => reservedOn[j] \in Days
  BY DEF Inv, TypeOK
<1>3. {j \in Jobs : Ledger!Counts(j) /\ reservedOn[j] = d} = Uses(DayKey(d))
  <2>1. \A j \in Jobs : reservation[j] # "NONE" =>
          (DayKey(d) \in KeysOf(reservedOn[j]) <=> reservedOn[j] = d)
    BY <1>2, KeyFacts
  <2>2. QED
    BY <2>1 DEF CountsOf, Ledger!Counts
<1>4. {j \in Jobs : Ledger!Counts(j) /\ MonthOf[reservedOn[j]] = MonthOf[d]}
        = Uses(MonthKey(d))
  <2>1. \A j \in Jobs : reservation[j] # "NONE" =>
          (MonthKey(d) \in KeysOf(reservedOn[j])
             <=> MonthOf[reservedOn[j]] = MonthOf[d])
    BY <1>2, KeyFacts
  <2>2. QED
    BY <2>1 DEF CountsOf, Ledger!Counts
<1>5. DayKey(d) \in PeriodKeys /\ MonthKey(d) \in PeriodKeys
  BY KeyFacts
<1>6. \A S : Ledger!Cardinality(S) = Cardinality(S)
  BY DEF Ledger!Cardinality, Cardinality
<1>7. QED
  BY <1>1, <1>3, <1>4, <1>5, <1>6 DEF Ledger!UsesOfDay, Ledger!UsesOfMonth

(***************************************************************************)
(* reserve, commit and release, with their locks and their interleaving,   *)
(* implement a ledger in which each is one atomic step.                    *)
(***************************************************************************)
THEOREM ImplementsLedger == Spec => KeepsLedger
<1>1. Init => Ledger!Init
  BY DEF Init, Ledger!Init
<1>2. ASSUME Inv, [Next]_vars
      PROVE  [Ledger!Next]_(Ledger!ledgerVars)
  <2> USE <1>2
  <2>1. ASSUME NEW j \in Jobs, Reserve(j)
        PROVE  Ledger!Next
    <3>1. /\ day[j] \in Days /\ KeysOf(day[j]) \subseteq PeriodKeys
          /\ \A k \in KeysOf(day[j]) : seen[j][k] = counter[k]
      BY <2>1, HoldsBoth DEF Inv, Locking, Reserve
    <3>2. DayKey(day[j]) \in KeysOf(day[j]) /\ MonthKey(day[j]) \in KeysOf(day[j])
      BY DEF KeysOf
    <3>3. /\ Limit(DayKey(day[j])) = DailyLimit
          /\ Limit(MonthKey(day[j])) = MonthlyLimit
      BY <3>1 DEF Limit, DayKey, MonthKey, Days
    <3>4. \A k \in KeysOf(day[j]) : counter[k].used + counter[k].reserved < Limit(k)
      BY <2>1, <3>1 DEF Reserve, QuotaRemains
    <3>5. /\ Ledger!UsesOfDay(day[j]) < DailyLimit
          /\ Ledger!UsesOfMonth(MonthOf[day[j]]) < MonthlyLimit
      BY <3>1, <3>2, <3>3, <3>4, UsesAreCounted
    <3>6. reservation[j] = "NONE"
      BY <2>1 DEF Reserve, Inv, OwnKeys
    <3>7. Ledger!Grant(j, day[j])
      BY <2>1, <3>5, <3>6 DEF Reserve, Ledger!Grant
    <3>8. QED
      BY <3>1, <3>7 DEF Ledger!Next
  <2>2. ASSUME NEW j \in Jobs, Settle(j)
        PROVE  Ledger!Next
    <3>1. step[j] \in {"COMMITTED", "RELEASED"} /\ reservation[j] = "RESERVED"
      BY <2>2 DEF Settle, Settling, Inv, TypeOK
    <3>2. Ledger!Settle(j, step[j])
      BY <2>2, <3>1 DEF Settle, Ledger!Settle
    <3>3. QED
      BY <3>1, <3>2 DEF Ledger!Next
  <2>3. ASSUME NEW j \in Jobs, NEW target \in {"COMMITTED", "RELEASED"},
               \/ BeginReserve(j) \/ BeginSettle(j, target) \/ InsertCounter(j)
               \/ StartLocking(j) \/ LockCounter(j) \/ Refuse(j) \/ Abort(j)
        PROVE  UNCHANGED Ledger!ledgerVars
    BY <2>3 DEF BeginReserve, BeginSettle, InsertCounter, StartLocking,
                LockCounter, Refuse, Abort, Ledger!ledgerVars
  <2>4. UNCHANGED vars \/ Tomorrow => UNCHANGED Ledger!ledgerVars
    BY DEF vars, Tomorrow, Ledger!ledgerVars
  <2>5. QED
    BY <2>1, <2>2, <2>3, <2>4 DEF Next, TxStep
<1>3. QED
  BY <1>1, <1>2, Invariance, PTL DEF Spec, KeepsLedger, Ledger!Spec
-----------------------------------------------------------------------------
(***************************************************************************)
(* Deadlock freedom.  A lock, or an uncommitted row, belongs to an open    *)
(* transaction that has got past it: LocksHeld says what a transaction at  *)
(* an index holds, HoldersArePast what the holder of a key is doing.       *)
(***************************************************************************)
Past(i, k) ==
  \/ k = MonthKey(day[i]) /\ at[i] \in {2, 3}
  \/ k = DayKey(day[i]) /\ at[i] = 3

HolderIsPast(i) ==
  \A k \in PeriodKeys :
    /\ locker[k] = i => Locking(i) /\ Past(i, k)
    /\ inserter[k] = i => step[i] = "locking" \/ (step[i] = "inserting" /\ Past(i, k))

HoldersArePast == \A i \in Jobs : HolderIsPast(i)

LEMMA StepHolders ==
  ASSUME TypeOK, HoldersArePast, [Next]_vars
  PROVE  HoldersArePast'
<1>1. CASE UNCHANGED vars \/ Tomorrow
  BY <1>1 DEF vars, txVars, Tomorrow, HoldersArePast, HolderIsPast, Past, Locking, Settling,
              MonthKey, DayKey
\* A step of transaction i gives no key to another.
<1>2. ASSUME NEW i \in Jobs,
             \A j \in Jobs : j # i => step'[j] = step[j] /\ at'[j] = at[j] /\ day'[j] = day[j],
             \A k \in PeriodKeys : /\ locker'[k] \in {locker[k], i, NoJob}
                                   /\ inserter'[k] \in {inserter[k], i, NoJob},
             HolderIsPast(i)'
      PROVE  HoldersArePast'
  <2> SUFFICES ASSUME NEW j \in Jobs, j # i, NEW k \in PeriodKeys
               PROVE  /\ locker'[k] = j => Locking(j)' /\ Past(j, k)'
                      /\ inserter'[k] = j =>
                           step'[j] = "locking" \/ (step'[j] = "inserting" /\ Past(j, k)')
    BY <1>2 DEF HoldersArePast, HolderIsPast
  <2>1. j # NoJob
    BY JobsAssumption
  <2>2. (locker'[k] = j => locker[k] = j) /\ (inserter'[k] = j => inserter[k] = j)
    BY <1>2, <2>1
  <2>3. Locking(j)' = Locking(j) /\ Past(j, k)' = Past(j, k) /\ step'[j] = step[j]
    BY <1>2 DEF Locking, Settling, Past, MonthKey, DayKey
  <2>4. QED
    BY <2>2, <2>3 DEF HoldersArePast, HolderIsPast
<1>3. ASSUME NEW i \in Jobs, NEW c \in BOOLEAN, EndTx(i, c)
      PROVE  HoldersArePast'
  <2>1. \A j \in Jobs : j # i => step'[j] = step[j] /\ at'[j] = at[j] /\ day'[j] = day[j]
    BY <1>3 DEF EndTx, TypeOK
  <2>2. \A k \in PeriodKeys : /\ locker'[k] \in {locker[k], NoJob} /\ locker'[k] # i
                              /\ inserter'[k] \in {inserter[k], NoJob} /\ inserter'[k] # i
    BY <1>3, JobsAssumption DEF EndTx
  <2>3. HolderIsPast(i)'
    BY <2>2 DEF HolderIsPast
  <2>4. QED
    BY <1>2, <2>1, <2>2, <2>3
<1>4. ASSUME NEW i \in Jobs, NEW target \in {"COMMITTED", "RELEASED"},
             BeginReserve(i) \/ BeginSettle(i, target)
      PROVE  HoldersArePast'
  <2>1. /\ step[i] = "idle" /\ UNCHANGED <<locker, inserter>>
        /\ \A j \in Jobs : j # i => step'[j] = step[j] /\ at'[j] = at[j] /\ day'[j] = day[j]
    BY <1>4 DEF BeginReserve, BeginSettle, Active, TypeOK
  <2>2. \A k \in PeriodKeys : locker[k] # i /\ inserter[k] # i
    BY <2>1 DEF HoldersArePast, HolderIsPast, Locking, Settling
  <2>3. HolderIsPast(i)'
    BY <2>1, <2>2 DEF HolderIsPast
  <2>4. QED
    BY <1>2, <2>1, <2>3
<1>5. ASSUME NEW i \in Jobs, InsertCounter(i) \/ LockCounter(i)
      PROVE  HoldersArePast'
  <2> DEFINE n == NextKey(i)
  <2>1. /\ n \in PeriodKeys /\ at[i] \in {1, 2}
        /\ at[i] = 1 => n = MonthKey(day[i])
        /\ at[i] = 2 => n = DayKey(day[i])
    BY <1>5, NextKeyType DEF InsertCounter, LockCounter
  <2>2. /\ at' = [at EXCEPT ![i] = @ + 1] /\ UNCHANGED <<step, day>>
        /\ \/ /\ step[i] = "inserting" /\ locker' = locker
              /\ inserter' \in {inserter, [inserter EXCEPT ![n] = i]}
           \/ Locking(i) /\ inserter' = inserter /\ locker' = [locker EXCEPT ![n] = i]
    BY <1>5 DEF InsertCounter, LockCounter, LocksTaken, Locking
  <2> HIDE DEF n
  <2>3. at'[i] = at[i] + 1 /\ \A j \in Jobs : j # i => at'[j] = at[j]
    BY <2>2 DEF TypeOK
  <2>4. \A k \in PeriodKeys : Past(i, k) \/ k = n => Past(i, k)'
    BY <2>1, <2>2, <2>3 DEF Past, MonthKey, DayKey
  <2>5. \A k \in PeriodKeys : /\ locker'[k] \in {locker[k], i} /\ (k # n => locker'[k] = locker[k])
                              /\ inserter'[k] \in {inserter[k], i}
                              /\ (k # n => inserter'[k] = inserter[k])
    BY <2>1, <2>2 DEF TypeOK
  <2>6. HolderIsPast(i)'
    <3> SUFFICES ASSUME NEW k \in PeriodKeys
                 PROVE  /\ locker'[k] = i => Locking(i)' /\ Past(i, k)'
                        /\ inserter'[k] = i =>
                             step'[i] = "locking" \/ (step'[i] = "inserting" /\ Past(i, k)')
      BY DEF HolderIsPast
    <3>1. Locking(i)' = Locking(i) /\ step'[i] = step[i]
      BY <2>2 DEF Locking, Settling
    <3>2. /\ locker[k] = i => Locking(i) /\ Past(i, k)
          /\ inserter[k] = i => step[i] = "locking" \/ (step[i] = "inserting" /\ Past(i, k))
      BY DEF HoldersArePast, HolderIsPast
    <3>3. CASE step[i] = "inserting" /\ locker' = locker
      BY <2>4, <2>5, <3>1, <3>2, <3>3
    <3>4. CASE Locking(i) /\ inserter' = inserter
      BY <2>4, <2>5, <3>1, <3>2, <3>4
    <3>5. QED
      BY <2>2, <3>3, <3>4
  <2>7. QED
    BY <1>2, <2>2, <2>3, <2>5, <2>6
<1>6. ASSUME NEW i \in Jobs, StartLocking(i)
      PROVE  HoldersArePast'
  <2>1. /\ step[i] = "inserting" /\ step' = [step EXCEPT ![i] = "locking"]
        /\ at' = [at EXCEPT ![i] = 1] /\ UNCHANGED <<locker, inserter, day>>
    BY <1>6 DEF StartLocking
  <2>2. step'[i] = "locking" /\ \A j \in Jobs : j # i => step'[j] = step[j] /\ at'[j] = at[j]
    BY <2>1 DEF TypeOK
  <2>3. \A k \in PeriodKeys : locker'[k] # i
    BY <2>1 DEF HoldersArePast, HolderIsPast, Locking, Settling
  <2>4. HolderIsPast(i)'
    BY <2>2, <2>3 DEF HolderIsPast
  <2>5. QED
    BY <1>2, <2>1, <2>2, <2>4
<1>7. ASSUME NEW i \in Jobs, Reserve(i) \/ Refuse(i) \/ Settle(i) \/ Abort(i)
      PROVE  HoldersArePast'
  BY <1>3, <1>7 DEF Reserve, Refuse, Settle, Abort
<1>8. QED
  BY <1>1, <1>4, <1>5, <1>6, <1>7 DEF Next, TxStep

(***************************************************************************)
(* Whoever waits for a day's key waits for a transaction that is past both *)
(* its keys; whoever waits for a month's, for one that at most waits for a *)
(* day's.  Locks are only waited for by those that have inserted.          *)
(***************************************************************************)
LEMMA WaitsAreShort ==
  ASSUME TypeOK, HoldersArePast
  PROVE  NoDeadlock
<1> DEFINE Free == \E j \in Jobs : Active(j) /\ ~Waiting(j)
<1>1. \A j \in Jobs : Locking(j) => Active(j) /\ ~InsertBlocked(j) /\ (LockBlocked(j) => at[j] < 3)
  BY DEF Locking, Settling, Active, InsertBlocked, LockBlocked
<1>2. ASSUME NEW j \in Jobs, NEW k \in PeriodKeys, locker[k] = j
      PROVE  Locking(j) /\ Past(j, k)
  BY <1>2 DEF HoldersArePast, HolderIsPast
<1>3. ASSUME NEW j \in Jobs, NEW k \in PeriodKeys, inserter[k] = j
      PROVE  step[j] = "locking" \/ (step[j] = "inserting" /\ Past(j, k))
  BY <1>3 DEF HoldersArePast, HolderIsPast
<1>4. \A d, e \in Days : DayKey(d) # MonthKey(e)
  <2>1. \A d \in Days : d # 0
    BY CalendarAssumption DEF Days
  <2>2. QED
    BY <2>1 DEF DayKey, MonthKey
<1>5. \A j \in Jobs : /\ at[j] \in {1, 2, 3} /\ day[j] \in Days
                      /\ at[j] # 3 => NextKey(j) \in PeriodKeys
                      /\ at[j] = 2 => NextKey(j) = DayKey(day[j])
  BY NextKeyType DEF TypeOK
<1>6. ASSUME NEW j \in Jobs, Locking(j), at[j] \in {2, 3}
      PROVE  Free
  <2>1. CASE ~LockBlocked(j)
    BY <1>1, <1>6, <2>1 DEF Waiting
  <2>2. CASE LockBlocked(j)
    <3> DEFINE i == locker[NextKey(j)]
    <3>1. at[j] = 2 /\ NextKey(j) = DayKey(day[j]) /\ i \in Jobs
      BY <1>5, <1>6, <2>2 DEF LockBlocked, TypeOK
    <3>2. Locking(i) /\ Past(i, NextKey(j))
      BY <1>2, <1>5, <3>1
    <3>3. at[i] = 3
      BY <1>4, <1>5, <3>1, <3>2 DEF Past
    <3>4. QED
      BY <1>1, <3>1, <3>2, <3>3 DEF Waiting
  <2>3. QED
    BY <2>1, <2>2
<1>7. ASSUME NEW j \in Jobs, Locking(j)
      PROVE  Free
  <2>1. CASE ~LockBlocked(j)
    BY <1>1, <1>7, <2>1 DEF Waiting
  <2>2. CASE LockBlocked(j)
    <3> DEFINE i == locker[NextKey(j)]
    <3>1. i \in Jobs /\ NextKey(j) \in PeriodKeys
      BY <1>5, <2>2 DEF LockBlocked, TypeOK
    <3>2. Locking(i) /\ at[i] \in {2, 3}
      BY <1>2, <3>1 DEF Past
    <3>3. QED
      BY <1>6, <3>1, <3>2
  <2>3. QED
    BY <2>1, <2>2
<1>8. ASSUME NEW j \in Jobs, step[j] = "inserting", at[j] \in {2, 3}
      PROVE  Free
  <2>1. CASE ~InsertBlocked(j)
    BY <1>8, <2>1 DEF Waiting, Active, LockBlocked, Settling
  <2>2. CASE InsertBlocked(j)
    <3> DEFINE i == inserter[NextKey(j)]
    <3>1. at[j] = 2 /\ NextKey(j) = DayKey(day[j]) /\ i \in Jobs
      BY <1>5, <1>8, <2>2 DEF InsertBlocked, TypeOK
    <3>2. step[i] = "locking" \/ (step[i] = "inserting" /\ at[i] = 3)
      BY <1>3, <1>4, <1>5, <3>1 DEF Past
    <3>3. CASE step[i] = "locking"
      BY <1>7, <3>1, <3>3 DEF Locking
    <3>4. CASE step[i] = "inserting" /\ at[i] = 3
      BY <3>1, <3>4 DEF Waiting, Active, InsertBlocked, LockBlocked, Settling
    <3>5. QED
      BY <3>2, <3>3, <3>4
  <2>3. QED
    BY <2>1, <2>2
<1>9. ASSUME NEW j \in Jobs, step[j] = "inserting"
      PROVE  Free
  <2>1. CASE ~InsertBlocked(j)
    BY <1>9, <2>1 DEF Waiting, Active, LockBlocked, Settling
  <2>2. CASE InsertBlocked(j)
    <3> DEFINE i == inserter[NextKey(j)]
    <3>1. i \in Jobs /\ NextKey(j) \in PeriodKeys
      BY <1>5, <2>2 DEF InsertBlocked, TypeOK
    <3>2. step[i] = "locking" \/ (step[i] = "inserting" /\ at[i] \in {2, 3})
      BY <1>3, <3>1 DEF Past
    <3>3. QED
      BY <1>7, <1>8, <3>1, <3>2 DEF Locking
  <2>3. QED
    BY <2>1, <2>2
<1>10. QED
  BY <1>7, <1>9 DEF NoDeadlock, Active, Locking, Settling, TypeOK

(***************************************************************************)
(* Inserting the month before the day, and locking in the order of the     *)
(* keys, leaves no cycle of waiting transactions, however many requests    *)
(* and settlements of however many days meet on the counters.              *)
(***************************************************************************)
THEOREM DeadlockFree == Spec => []NoDeadlock
<1>1. Init => HoldersArePast
  BY JobsAssumption DEF Init, HoldersArePast, HolderIsPast
<1>2. QED
  BY <1>1, StepHolders, WaitsAreShort, TypeCorrect, PTL DEF Spec
=============================================================================
