------------------------------ MODULE AIGateway ------------------------------
(***************************************************************************)
(* A call of a model on behalf of a job: the policy a job carries          *)
(* (modules/ai/policies.py), the gateway that tries the routes of the      *)
(* policy in turn (modules/ai/gateway.py) and the invocation rows it       *)
(* leaves (modules/jobs/invocations.py), each written in a transaction of  *)
(* its own before and after the provider is asked.                         *)
(*                                                                         *)
(* The executions of one job may overlap (a lapsed lease) or follow each   *)
(* other (a retry), and the service may be deployed with other models in   *)
(* between.  A deletion of the account takes the rows away.                *)
(*                                                                         *)
(* Definitions named Bug_X are plausible mistakes in the definition that   *)
(* follows; the specification never uses them.                             *)
(***************************************************************************)
EXTENDS Naturals, Sequences

CONSTANTS Executions,   \* executions of the job
          Deployments,  \* settings that were deployed at some time
          Buckets,      \* hashes of users, compared with canary_percentage
          NoModel       \* no canary is configured

Models == UNION {{d.primary, d.canary, d.fallback} : d \in Deployments}

(***************************************************************************)
(* What a provider raises.  RATE_LIMIT and INVALID_RESPONSE are to the     *)
(* gateway as a 5xx, CONTENT_POLICY and COST_LIMIT as INVALID_INPUT.       *)
(***************************************************************************)
Errors == {[code |-> "TIMEOUT", retryable |-> TRUE],
           [code |-> "UNAVAILABLE", retryable |-> TRUE],
           [code |-> "UNAVAILABLE", retryable |-> FALSE],
           [code |-> "INVALID_INPUT", retryable |-> FALSE]}

Codes == {e.code : e \in Errors}

MaxRoutes == 2

Routes == UNION {[1 .. n -> Models] : n \in 0 .. MaxRoutes}

ASSUME GatewayAssumption ==
  \A d \in Deployments : d.percentage \in Nat /\ d.enabled \in BOOLEAN

VARIABLES
  task,        \* "vision" or "image_edit"
  settings,    \* what is deployed
  cohort,      \* hash of the user
  snapshot,    \* model_policy_snapshot of the job: routes, or none (NULL)
  jobThere,    \* the job was not purged
  policy,      \* per execution: the routes it tries
  registered,  \* per execution: an API key was configured
  stage,          \* per execution: next step, or how the call ended
  attempts,    \* per execution: codes of the routes that failed
  error,       \* per execution: the error in hand
  invocation   \* per execution and route: status of the row

gatewayVars == <<task, settings, cohort, snapshot, jobThere, policy, registered,
                 stage, attempts, error, invocation>>

NoError == [code |-> "none", retryable |-> FALSE]
-----------------------------------------------------------------------------
(***************************************************************************)
(* is_canary_cohort and the policies of the tasks.                         *)
(***************************************************************************)
UseCanary(d) == d.canary # NoModel /\ cohort < d.percentage

PolicyOf(d, canary) ==
  LET first == IF canary /\ d.canary # NoModel THEN d.canary ELSE d.primary
  IN IF task = "vision" THEN <<first, d.fallback>> ELSE <<first>>

GatewayInit ==
  /\ task \in {"vision", "image_edit"}
  /\ settings \in Deployments
  /\ cohort \in Buckets
  /\ snapshot \in {<<>>, PolicyOf(settings, UseCanary(settings))}
  /\ jobThere = TRUE
  /\ policy = [e \in Executions |-> <<>>]
  /\ registered = [e \in Executions |-> FALSE]
  /\ stage = [e \in Executions |-> "begin"]
  /\ attempts = [e \in Executions |-> <<>>]
  /\ error = [e \in Executions |-> NoError]
  /\ invocation = [e \in Executions |-> [i \in 1 .. MaxRoutes |-> "NONE"]]

Job == UNCHANGED <<task, settings, cohort, snapshot, jobThere>>

Call == UNCHANGED <<policy, registered>>

Enter(e, step) == stage' = [stage EXCEPT ![e] = step]

Route(e) == Len(attempts[e]) + 1

Write(e, status) ==
  invocation' = IF jobThere THEN [invocation EXCEPT ![e][Route(e)] = status]
                            ELSE invocation
-----------------------------------------------------------------------------
(***************************************************************************)
(* The executor reads the job's policy: the snapshot, for as long as the   *)
(* job lives; a job from before snapshots takes what is deployed.          *)
(***************************************************************************)
JobPolicy(d) == IF snapshot = <<>> THEN PolicyOf(d, FALSE) ELSE snapshot

BeginCall(e) ==
  /\ stage[e] = "begin"
  /\ policy' = [policy EXCEPT ![e] = JobPolicy(settings)]
  /\ registered' = [registered EXCEPT ![e] = settings.enabled]
  /\ Enter(e, "route")
  /\ Job /\ UNCHANGED <<attempts, error, invocation>>

More(e) == stage[e] = "route" /\ Route(e) <= Len(policy[e])

NoProvider(e) ==
  /\ More(e)
  /\ ~registered[e]
  /\ attempts' = [attempts EXCEPT ![e] = Append(@, "UNAVAILABLE")]
  /\ Job /\ Call /\ UNCHANGED <<stage, error, invocation>>

(***************************************************************************)
(* observer.started; the insert fails when the job is gone.                *)
(***************************************************************************)
Started(e) ==
  /\ More(e)
  /\ registered[e]
  /\ Write(e, "STARTED")
  /\ Enter(e, IF jobThere THEN "ask" ELSE "raised")
  /\ Job /\ Call /\ UNCHANGED <<attempts, error>>

Answer(e) ==
  /\ stage[e] = "ask"
  /\ Enter(e, "succeeded")
  /\ Job /\ Call /\ UNCHANGED <<attempts, error, invocation>>

Refuse(e) ==
  /\ stage[e] = "ask"
  /\ \E x \in Errors : error' = [error EXCEPT ![e] = x]
  /\ Enter(e, "fail")
  /\ Job /\ Call /\ UNCHANGED <<attempts, invocation>>

Succeeded(e) ==
  /\ stage[e] = "succeeded"
  /\ Write(e, "SUCCEEDED")
  /\ Enter(e, "returned")
  /\ Job /\ Call /\ UNCHANGED <<attempts, error>>

Bug_AlwaysFailed(code) == "FAILED"

FailureStatus(code) == IF code = "TIMEOUT" THEN "TIMED_OUT" ELSE "FAILED"

(***************************************************************************)
(* observer.failed, then the next route unless the error is final.         *)
(***************************************************************************)
Failed(e) ==
  /\ stage[e] = "fail"
  /\ Write(e, FailureStatus(error[e].code))
  /\ attempts' = [attempts EXCEPT ![e] = Append(@, error[e].code)]
  /\ error' = [error EXCEPT ![e] = NoError]
  /\ Enter(e, IF error[e].retryable THEN "route" ELSE "failed")
  /\ Job /\ Call

AllProvidersFailed(e) ==
  /\ stage[e] = "route" /\ ~More(e)
  /\ Enter(e, "failed")
  /\ Job /\ Call /\ UNCHANGED <<attempts, error, invocation>>

(***************************************************************************)
(* An error of the observer (of the database, say) ends the call, and so   *)
(* does the end of the worker.                                             *)
(***************************************************************************)
Raise(e) ==
  /\ stage[e] \in {"route", "ask", "succeeded", "fail"}
  /\ Enter(e, "raised")
  /\ Job /\ Call /\ UNCHANGED <<attempts, error, invocation>>
-----------------------------------------------------------------------------
Deploy(d) ==
  /\ d # settings
  /\ settings' = d
  /\ UNCHANGED <<task, cohort, snapshot, jobThere, policy, registered, stage,
                 attempts, error, invocation>>

Purge ==
  /\ jobThere
  /\ jobThere' = FALSE
  /\ invocation' = [e \in Executions |-> [i \in 1 .. MaxRoutes |-> "NONE"]]
  /\ UNCHANGED <<task, settings, cohort, snapshot, policy, registered, stage, attempts, error>>

GatewayNext ==
  \/ \E e \in Executions :
       \/ BeginCall(e) \/ NoProvider(e) \/ Started(e) \/ Answer(e) \/ Refuse(e)
       \/ Succeeded(e) \/ Failed(e) \/ AllProvidersFailed(e) \/ Raise(e)
  \/ \E d \in Deployments : Deploy(d)
  \/ Purge

GatewaySpec == GatewayInit /\ [][GatewayNext]_gatewayVars
-----------------------------------------------------------------------------
Statuses == {"NONE", "STARTED", "SUCCEEDED", "FAILED", "TIMED_OUT"}

GatewayTypeOK ==
  /\ task \in {"vision", "image_edit"}
  /\ settings \in Deployments
  /\ cohort \in Buckets
  /\ snapshot \in Routes
  /\ jobThere \in BOOLEAN
  /\ policy \in [Executions -> Routes]
  /\ registered \in [Executions -> BOOLEAN]
  /\ stage \in [Executions -> {"begin", "route", "ask", "succeeded", "fail",
                            "returned", "failed", "raised"}]
  /\ attempts \in [Executions -> Seq(Codes)]
  /\ \A e \in Executions : Len(attempts[e]) <= Len(policy[e])
  /\ error \in [Executions -> Errors \cup {NoError}]
  /\ invocation \in [Executions -> [1 .. MaxRoutes -> Statuses]]

(***************************************************************************)
(* The rows say what was asked and what came of it: a call that returned   *)
(* or gave up leaves a settled row for every provider it asked, in order,  *)
(* the last one a success if and only if it returned.                      *)
(***************************************************************************)
RowsTellCall(e) ==
  \A i \in 1 .. MaxRoutes :
    CASE i <= Len(attempts[e]) ->
           invocation[e][i] = IF ~registered[e] THEN "NONE"
                              ELSE IF attempts[e][i] = "TIMEOUT" THEN "TIMED_OUT" ELSE "FAILED"
      [] i = Route(e) /\ stage[e] = "returned" -> invocation[e][i] = "SUCCEEDED"
      [] OTHER -> invocation[e][i] = "NONE"

AttemptsRecorded ==
  jobThere => \A e \in Executions : stage[e] \in {"returned", "failed"} => RowsTellCall(e)
=============================================================================
