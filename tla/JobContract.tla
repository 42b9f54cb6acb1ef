---------------------------- MODULE JobContract ----------------------------
(***************************************************************************)
(* What the job system promises a user about one paid-for generation job,  *)
(* whatever workers, messages and retries do underneath:                   *)
(*                                                                         *)
(*   - execution happens in attempts, each with a higher epoch;            *)
(*   - the job is settled at most once, in one step that decides the       *)
(*     verdict, the charge and the result together;                        *)
(*   - a success is charged and carries the result of the last attempt;    *)
(*   - a failure gives the reserved quota back and carries no result.      *)
(***************************************************************************)
EXTENDS Naturals

CONSTANT Jobs

VARIABLES epoch,    \* attempts begun so far
          verdict,  \* "open", "succeeded" or "failed"
          charge,   \* "RESERVED", "COMMITTED" or "RELEASED"
          author    \* the epoch whose result the user sees, 0 for none

contractVars == <<epoch, verdict, charge, author>>

Init ==
  /\ epoch = [j \in Jobs |-> 0]
  /\ verdict = [j \in Jobs |-> "open"]
  /\ charge = [j \in Jobs |-> "RESERVED"]
  /\ author = [j \in Jobs |-> 0]

BeginAttempt(j) ==
  /\ verdict[j] = "open"
  /\ epoch' = [epoch EXCEPT ![j] = @ + 1]
  /\ UNCHANGED <<verdict, charge, author>>

Succeed(j) ==
  /\ verdict[j] = "open"
  /\ epoch[j] > 0
  /\ verdict' = [verdict EXCEPT ![j] = "succeeded"]
  /\ charge' = [charge EXCEPT ![j] = "COMMITTED"]
  /\ author' = [author EXCEPT ![j] = epoch[j]]
  /\ UNCHANGED epoch

Fail(j) ==
  /\ verdict[j] = "open"
  /\ verdict' = [verdict EXCEPT ![j] = "failed"]
  /\ charge' = [charge EXCEPT ![j] = "RELEASED"]
  /\ UNCHANGED <<epoch, author>>

(***************************************************************************)
(* An attempt that finds at once that it has nothing to work on.           *)
(***************************************************************************)
Refuse(j) ==
  /\ verdict[j] = "open"
  /\ epoch' = [epoch EXCEPT ![j] = @ + 1]
  /\ verdict' = [verdict EXCEPT ![j] = "failed"]
  /\ charge' = [charge EXCEPT ![j] = "RELEASED"]
  /\ UNCHANGED author

Next == \E j \in Jobs : BeginAttempt(j) \/ Succeed(j) \/ Fail(j) \/ Refuse(j)

Spec == Init /\ [][Next]_contractVars
=============================================================================
