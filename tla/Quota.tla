-------------------------------- MODULE Quota --------------------------------
(***************************************************************************)
(* QuotaRepository (modules/governance/quota.py) over PostgreSQL at READ   *)
(* COMMITTED: reserve, commit and release as transactions that wait for    *)
(* each other's row locks, for one user and one quota type.  Counters of   *)
(* different users or types share no row.                                  *)
(*                                                                         *)
(* reserve upserts the counters of its day and month one statement at a    *)
(* time, then locks them in the order of their keys, reads them, and       *)
(* writes back what it read plus one.  commit and release lock the         *)
(* counters the reservation recorded.  Every amount in the code is 1.      *)
(* The job row, locked first by every caller, admits one transaction per   *)
(* job at a time.  An ended transaction frees its locks.                   *)
(*                                                                         *)
(* Definitions named Bug_X are plausible mistakes in the definition that   *)
(* follows; the specification never uses them.                             *)
(***************************************************************************)
EXTENDS Naturals, FiniteSets

CONSTANTS Jobs,        \* jobs of the user, each with at most one reservation
          NoJob,       \* no transaction: nobody holds the lock
          LastDay,     \* bound: days 1 .. LastDay pass
          MonthOf,     \* the month of each day
          DailyLimit, MonthlyLimit,   \* the active quota policies
          MaxAborts    \* bound: transactions the caller rolls back

Days == 1 .. LastDay

ASSUME CalendarAssumption ==
  /\ LastDay \in Nat \ {0}
  /\ MonthOf \in [Days -> Nat]
  /\ \A d, e \in Days : d <= e => MonthOf[d] <= MonthOf[e]
ASSUME LimitsAssumption == DailyLimit \in Nat /\ MonthlyLimit \in Nat
ASSUME JobsAssumption == IsFiniteSet(Jobs) /\ NoJob \notin Jobs

(***************************************************************************)
(* A key is "2026-07-31" or "2026-07"; day 0 marks the month.  sorted()    *)
(* and ORDER BY both put the month before its days and earlier months      *)
(* before later ones, so a day's keys are locked month first.              *)
(***************************************************************************)
DayKey(d) == [month |-> MonthOf[d], day |-> d]
MonthKey(d) == [month |-> MonthOf[d], day |-> 0]

PeriodKeys == {DayKey(d) : d \in Days} \cup {MonthKey(d) : d \in Days}

OrderedKeys(d) == <<MonthKey(d), DayKey(d)>>

KeysOf(d) == {MonthKey(d), DayKey(d)}

Limit(k) == IF k.day = 0 THEN MonthlyLimit ELSE DailyLimit

Counters == [used : Nat, reserved : Nat]

VARIABLES
  today,        \* the current date
  counter,      \* usage_counters; 0 and 0 for a row that does not exist
  stored,       \* keys whose row is committed
  inserter,     \* the open transaction that inserted an uncommitted row
  locker,       \* the open transaction holding the row FOR UPDATE
  reservation,  \* quota_reservations.status, "NONE" for no row
  reservedOn,   \* the day whose period_keys the reservation recorded
  step,         \* per job: where its open transaction is
  at,           \* the index of the key it handles next
  day,          \* the day whose keys it handles
  seen,         \* the counters as it read them when it locked them
  aborts

txVars == <<step, at, day, seen>>
vars == <<today, counter, stored, inserter, locker, reservation, reservedOn,
          txVars, aborts>>

Active(j) == step[j] # "idle"
Settling(j) == step[j] \in {"COMMITTED", "RELEASED"}

(***************************************************************************)
(* Inserting and locking handle keys 1 and 2; at 3 the statement is done.  *)
(***************************************************************************)
Bug_SettleUnordered(j) ==
  OrderedKeys(day[j])[IF Settling(j) THEN 3 - at[j] ELSE at[j]]

NextKey(j) == OrderedKeys(day[j])[at[j]]

Zeros == [k \in PeriodKeys |-> [used |-> 0, reserved |-> 0]]

Init ==
  /\ today = 1
  /\ counter = Zeros
  /\ stored = {}
  /\ inserter = [k \in PeriodKeys |-> NoJob]
  /\ locker = [k \in PeriodKeys |-> NoJob]
  /\ reservation = [j \in Jobs |-> "NONE"]
  /\ reservedOn = [j \in Jobs |-> 0]
  /\ step = [j \in Jobs |-> "idle"]
  /\ at = [j \in Jobs |-> 1]
  /\ day = [j \in Jobs |-> 1]
  /\ seen = [j \in Jobs |-> Zeros]
  /\ aborts = 0

Tomorrow ==
  /\ today < LastDay
  /\ today' = today + 1
  /\ UNCHANGED <<counter, stored, inserter, locker, reservation, reservedOn,
                 txVars, aborts>>
-----------------------------------------------------------------------------
(***************************************************************************)
(* reserve.  The date is read once, at the start.  A job that already has  *)
(* a reservation gets it back unchanged.                                   *)
(***************************************************************************)
BeginReserve(j) ==
  /\ ~Active(j)
  /\ reservation[j] = "NONE"
  /\ step' = [step EXCEPT ![j] = "inserting"]
  /\ day' = [day EXCEPT ![j] = today]
  /\ at' = [at EXCEPT ![j] = 1]
  /\ UNCHANGED <<today, counter, stored, inserter, locker, reservation,
                 reservedOn, seen, aborts>>

(***************************************************************************)
(* INSERT ... ON CONFLICT DO NOTHING waits for the transaction that        *)
(* inserted the same key and has not ended.                                *)
(***************************************************************************)
InsertBlocked(j) ==
  step[j] = "inserting" /\ at[j] < 3 /\ inserter[NextKey(j)] \notin {NoJob, j}

InsertCounter(j) ==
  /\ step[j] = "inserting" /\ at[j] < 3 /\ ~InsertBlocked(j)
  /\ inserter' = IF NextKey(j) \in stored THEN inserter
                 ELSE [inserter EXCEPT ![NextKey(j)] = j]
  /\ at' = [at EXCEPT ![j] = @ + 1]
  /\ UNCHANGED <<today, counter, stored, locker, reservation, reservedOn,
                 step, day, seen, aborts>>

StartLocking(j) ==
  /\ step[j] = "inserting" /\ at[j] = 3
  /\ step' = [step EXCEPT ![j] = "locking"]
  /\ at' = [at EXCEPT ![j] = 1]
  /\ UNCHANGED <<today, counter, stored, inserter, locker, reservation,
                 reservedOn, day, seen, aborts>>

(***************************************************************************)
(* SELECT ... ORDER BY period_key FOR UPDATE locks row after row and reads *)
(* each as it is then.                                                     *)
(***************************************************************************)
LockBlocked(j) ==
  /\ step[j] = "locking" \/ Settling(j)
  /\ at[j] < 3
  /\ locker[NextKey(j)] # NoJob

Bug_PlainSelect(j) == locker

LocksTaken(j) == [locker EXCEPT ![NextKey(j)] = j]

LockCounter(j) ==
  /\ step[j] = "locking" \/ Settling(j)
  /\ at[j] < 3
  /\ ~LockBlocked(j)
  /\ locker' = LocksTaken(j)
  /\ seen' = [seen EXCEPT ![j][NextKey(j)] = counter[NextKey(j)]]
  /\ at' = [at EXCEPT ![j] = @ + 1]
  /\ UNCHANGED <<today, counter, stored, inserter, reservation, reservedOn,
                 step, day, aborts>>

(***************************************************************************)
(* The end of a transaction: its locks go, and the rows it inserted stay   *)
(* only if it commits.                                                     *)
(***************************************************************************)
EndTx(j, committed) ==
  /\ step' = [step EXCEPT ![j] = "idle"]
  /\ at' = [at EXCEPT ![j] = 1]
  /\ locker' = [k \in PeriodKeys |-> IF locker[k] = j THEN NoJob ELSE locker[k]]
  /\ inserter' = [k \in PeriodKeys |-> IF inserter[k] = j THEN NoJob ELSE inserter[k]]
  /\ stored' = IF committed THEN stored \cup {k \in PeriodKeys : inserter[k] = j}
                            ELSE stored
  /\ day' = [day EXCEPT ![j] = 1]
  /\ seen' = [seen EXCEPT ![j] = Zeros]
  /\ UNCHANGED today

Bug_RemainingOffByOne(j) ==
  \A k \in KeysOf(day[j]) : seen[j][k].used + seen[j][k].reserved <= Limit(k)

(***************************************************************************)
(* The amounts the check leaves: limit - used - reserved >= 1 everywhere.  *)
(***************************************************************************)
Bug_DailyOnly(j) ==
  LET k == DayKey(day[j]) IN seen[j][k].used + seen[j][k].reserved < Limit(k)

QuotaRemains(j) ==
  \A k \in KeysOf(day[j]) : seen[j][k].used + seen[j][k].reserved < Limit(k)

Reserve(j) ==
  /\ step[j] = "locking" /\ at[j] = 3
  /\ QuotaRemains(j)
  /\ counter' = [k \in PeriodKeys |->
                   IF k \in KeysOf(day[j])
                     THEN [seen[j][k] EXCEPT !.reserved = @ + 1] ELSE counter[k]]
  /\ reservation' = [reservation EXCEPT ![j] = "RESERVED"]
  /\ reservedOn' = [reservedOn EXCEPT ![j] = day[j]]
  /\ EndTx(j, TRUE)
  /\ UNCHANGED aborts

(***************************************************************************)
(* QuotaExceededError: the request fails and its session rolls back, the   *)
(* inserted counters with it.                                              *)
(***************************************************************************)
Refuse(j) ==
  /\ step[j] = "locking" /\ at[j] = 3
  /\ ~QuotaRemains(j)
  /\ EndTx(j, FALSE)
  /\ UNCHANGED <<counter, reservation, reservedOn, aborts>>
-----------------------------------------------------------------------------
(***************************************************************************)
(* _settle.  The keys are those recorded by reserve, however many days     *)
(* ago.  A reservation already settled is returned or refused unchanged.   *)
(***************************************************************************)
Bug_SettleToday(j) == today

SettledDay(j) == reservedOn[j]

Bug_SettleTwice(j) == reservation[j] # "NONE"

Settleable(j) == reservation[j] = "RESERVED"

BeginSettle(j, target) ==
  /\ ~Active(j)
  /\ Settleable(j)
  /\ step' = [step EXCEPT ![j] = target]
  /\ day' = [day EXCEPT ![j] = SettledDay(j)]
  /\ at' = [at EXCEPT ![j] = 1]
  /\ UNCHANGED <<today, counter, stored, inserter, locker, reservation,
                 reservedOn, seen, aborts>>

Underflow(j) == \E k \in KeysOf(day[j]) : seen[j][k].reserved < 1

Bug_CommitKeepsReserved(c, target) ==
  [used |-> IF target = "COMMITTED" THEN c.used + 1 ELSE c.used,
   reserved |-> IF target = "COMMITTED" THEN c.reserved ELSE c.reserved - 1]

SettledCounter(c, target) ==
  [used |-> IF target = "COMMITTED" THEN c.used + 1 ELSE c.used,
   reserved |-> c.reserved - 1]

Settle(j) ==
  /\ Settling(j) /\ at[j] = 3
  /\ ~Underflow(j)
  /\ counter' = [k \in PeriodKeys |->
                   IF k \in KeysOf(day[j])
                     THEN SettledCounter(seen[j][k], step[j]) ELSE counter[k]]
  /\ reservation' = [reservation EXCEPT ![j] = step[j]]
  /\ EndTx(j, TRUE)
  /\ UNCHANGED <<reservedOn, aborts>>

(***************************************************************************)
(* The transaction around any of this fails or its connection is lost.     *)
(***************************************************************************)
Abort(j) ==
  /\ Active(j)
  /\ aborts < MaxAborts
  /\ aborts' = aborts + 1
  /\ EndTx(j, FALSE)
  /\ UNCHANGED <<counter, reservation, reservedOn>>
-----------------------------------------------------------------------------
TxStep(j) ==
  \/ InsertCounter(j) \/ StartLocking(j) \/ LockCounter(j)
  \/ Reserve(j) \/ Refuse(j) \/ Settle(j)

Next ==
  \/ Tomorrow
  \/ \E j \in Jobs : \/ BeginReserve(j)
                     \/ \E target \in {"COMMITTED", "RELEASED"} : BeginSettle(j, target)
                     \/ TxStep(j)
                     \/ Abort(j)

Spec == Init /\ [][Next]_vars

(***************************************************************************)
(* An open transaction goes on: it has nothing else to wait for.  Strong   *)
(* fairness, because PostgreSQL queues those that wait for a row, so one   *)
(* that waits is not passed over for ever by later ones.                   *)
(***************************************************************************)
FairSpec == Spec /\ \A j \in Jobs : SF_vars(TxStep(j))
-----------------------------------------------------------------------------
Statuses == {"NONE", "RESERVED", "COMMITTED", "RELEASED"}

TypeOK ==
  /\ today \in Days
  /\ counter \in [PeriodKeys -> Counters]
  /\ stored \subseteq PeriodKeys
  /\ inserter \in [PeriodKeys -> Jobs \cup {NoJob}]
  /\ locker \in [PeriodKeys -> Jobs \cup {NoJob}]
  /\ reservation \in [Jobs -> Statuses]
  /\ reservedOn \in [Jobs -> Days \cup {0}]
  /\ \A j \in Jobs : /\ reservation[j] # "NONE" => reservedOn[j] \in Days
                     /\ Settling(j) => reservation[j] = "RESERVED"
  /\ step \in [Jobs -> {"idle", "inserting", "locking", "COMMITTED", "RELEASED"}]
  /\ at \in [Jobs -> 1 .. 3]
  /\ day \in [Jobs -> Days]
  /\ seen \in [Jobs -> [PeriodKeys -> Counters]]
  /\ aborts \in Nat

(***************************************************************************)
(* However many requests run at once, nobody uses and holds more than the  *)
(* limit of a day or of a month.                                           *)
(***************************************************************************)
WithinLimit == \A k \in PeriodKeys : counter[k].used + counter[k].reserved <= Limit(k)

(***************************************************************************)
(* No update is lost: the counters are the number of reservations in each  *)
(* state that recorded the period, whatever day they were settled on.      *)
(***************************************************************************)
CountsOf(k, status) ==
  {j \in Jobs : reservation[j] = status /\ k \in KeysOf(reservedOn[j])}

CountersExact ==
  \A k \in PeriodKeys :
    /\ counter[k].reserved = Cardinality(CountsOf(k, "RESERVED"))
    /\ counter[k].used = Cardinality(CountsOf(k, "COMMITTED"))

(***************************************************************************)
(* Locks are waited for without a cycle: among open transactions some one  *)
(* can always go on.                                                       *)
(***************************************************************************)
Waiting(j) == InsertBlocked(j) \/ LockBlocked(j)

NoDeadlock ==
  (\E j \in Jobs : Active(j)) => \E j \in Jobs : Active(j) /\ ~Waiting(j)

(***************************************************************************)
(* A settlement never fails on its counters: QUOTA_COUNTER_UNDERFLOW and   *)
(* QUOTA_COUNTER_INCOMPLETE are unreachable.                               *)
(***************************************************************************)
SettlementSucceeds ==
  \A j \in Jobs :
    Settling(j) => /\ KeysOf(day[j]) \subseteq stored
                   /\ at[j] = 3 => ~Underflow(j)

(***************************************************************************)
(* Every transaction ends.                                                 *)
(***************************************************************************)
TransactionsEnd == \A j \in Jobs : Active(j) ~> ~Active(j)

(***************************************************************************)
(* The locked counters implement a ledger in which every grant and every   *)
(* settlement is one step.                                                 *)
(***************************************************************************)
Ledger == INSTANCE QuotaLedger WITH grant <- reservation, grantDay <- reservedOn

KeepsLedger == Ledger!Spec
=============================================================================
