---------------------------- MODULE QuotaLedger ----------------------------
(***************************************************************************)
(* The free quota as a user understands it: each job is granted or not in  *)
(* one step against the uses of its day and its month, and a granted use   *)
(* is later charged or given back, once.                                   *)
(***************************************************************************)
EXTENDS Naturals, FiniteSets

CONSTANTS Jobs,          \* the jobs one user creates with one quota type
          Days,          \* the dates on which they are created
          MonthOf,       \* the month of each date
          DailyLimit, MonthlyLimit

VARIABLES grant,     \* per job: "NONE", "RESERVED", "COMMITTED" or "RELEASED"
          grantDay   \* per job: the day it counts for, while it is granted

ledgerVars == <<grant, grantDay>>

Counts(j) == grant[j] \in {"RESERVED", "COMMITTED"}

UsesOfDay(d) == Cardinality({j \in Jobs : Counts(j) /\ grantDay[j] = d})

UsesOfMonth(m) == Cardinality({j \in Jobs : Counts(j) /\ MonthOf[grantDay[j]] = m})

Init ==
  /\ grant = [j \in Jobs |-> "NONE"]
  /\ grantDay = [j \in Jobs |-> 0]

Grant(j, d) ==
  /\ grant[j] = "NONE"
  /\ UsesOfDay(d) < DailyLimit
  /\ UsesOfMonth(MonthOf[d]) < MonthlyLimit
  /\ grant' = [grant EXCEPT ![j] = "RESERVED"]
  /\ grantDay' = [grantDay EXCEPT ![j] = d]

Settle(j, target) ==
  /\ grant[j] = "RESERVED"
  /\ grant' = [grant EXCEPT ![j] = target]
  /\ UNCHANGED grantDay

Next ==
  \E j \in Jobs : \/ \E d \in Days : Grant(j, d)
                  \/ \E target \in {"COMMITTED", "RELEASED"} : Settle(j, target)

Spec == Init /\ [][Next]_ledgerVars
=============================================================================
