----------------------------- MODULE MCServices -----------------------------
(***************************************************************************)
(* Five parts that share no state, looked at one at a time: those not      *)
(* looked at are in a state in which all their work has ended.             *)
(***************************************************************************)
EXTENDS Creation, Votes, RateLimit, AIGateway, MiniProgram

CONSTANTS Parts, m1, m2, m3, m4

VARIABLE part

vars == <<part, creationVars, voteVars, limitVars, gatewayVars, miniVars>>

\* Requests per window of each layer.
Layered == [ip |-> 3, user |-> 2, costly |-> 1]

\* A canary, and the service after it became the primary model.
TwoDeployments ==
  {[primary |-> m1, canary |-> m2, fallback |-> m3, percentage |-> 1, enabled |-> TRUE],
   [primary |-> m2, canary |-> NoModel, fallback |-> m4, percentage |-> 0, enabled |-> TRUE]}

\* What the states below take a member of.
ASSUME PartsAssumption ==
  /\ "login" \in Endpoints
  /\ {} \notin {Keys, Sources, Voters, Deployments, Buckets}
-----------------------------------------------------------------------------
NoRequests ==
  /\ endpoint = "login"
  /\ source = [s \in Sources |-> "ready"]
  /\ row = [k \in Keys |-> NoRow]
  /\ used = 0
  /\ wants = [r \in Requests |-> [key |-> CHOOSE k \in Keys : TRUE,
                                  source |-> CHOOSE s \in Sources : TRUE]]
  /\ pc = [r \in Requests |-> "failed"]
  /\ answer = [r \in Requests |-> Nobody]
  /\ purged = FALSE

NoVisits ==
  /\ share = "ACTIVE"
  /\ vote = [v \in Voters |-> NoChoice]
  /\ events = {}
  /\ visit = [r \in Visits |-> CHOOSE x \in Visit : x.name = "opened"]
  /\ at = [r \in Visits |-> "failed"]
  /\ previous = [r \in Visits |-> NoChoice]
  /\ eraser = "plan"
  /\ doomed = {}
  /\ purge = [v \in Voters |-> "lock_user"]

NoCalls ==
  /\ task = "vision"
  /\ settings = CHOOSE d \in Deployments : TRUE
  /\ cohort = CHOOSE b \in Buckets : TRUE
  /\ snapshot = <<>>
  /\ jobThere = TRUE
  /\ policy = [e \in Executions |-> <<>>]
  /\ registered = [e \in Executions |-> FALSE]
  /\ stage = [e \in Executions |-> "raised"]
  /\ attempts = [e \in Executions |-> <<>>]
  /\ error = [e \in Executions |-> NoError]
  /\ invocation = [e \in Executions |-> [i \in 1 .. MaxRoutes |-> "NONE"]]

\* Keys, like sources, are interchangeable: the first request wants the first.
FirstWants ==
  wants[CHOOSE r \in Requests : TRUE] = [key |-> CHOOSE k \in Keys : TRUE,
                                         source |-> CHOOSE s \in Sources : TRUE]

\* Visits are interchangeable, too: they come in the order of some numbering.
Rank ==
  CHOOSE f \in [Visit -> 1 .. Cardinality(Visit)] :
    \A x, y \in Visit : f[x] = f[y] => x = y

SortedVisits == \A r, q \in Visits : r < q => Rank[visit[r]] <= Rank[visit[q]]
-----------------------------------------------------------------------------
Init ==
  /\ part \in Parts
  /\ IF part = "creation" THEN CreationInit /\ FirstWants ELSE NoRequests
  /\ IF part = "votes" THEN VotesInit /\ SortedVisits ELSE NoVisits
  /\ LimitInit
  /\ IF part = "gateway" THEN GatewayInit ELSE NoCalls
  /\ MiniInit

Next ==
  \/ /\ part = "creation" /\ CreationNext
     /\ UNCHANGED <<part, voteVars, limitVars, gatewayVars, miniVars>>
  \/ /\ part = "votes" /\ VotesNext
     /\ UNCHANGED <<part, creationVars, limitVars, gatewayVars, miniVars>>
  \/ /\ part = "limit" /\ LimitNext
     /\ UNCHANGED <<part, creationVars, voteVars, gatewayVars, miniVars>>
  \/ /\ part = "gateway" /\ GatewayNext
     /\ UNCHANGED <<part, creationVars, voteVars, limitVars, miniVars>>
  \/ /\ part = "mini" /\ MiniNext
     /\ UNCHANGED <<part, creationVars, voteVars, limitVars, gatewayVars>>

FairSpec == Init /\ [][Next]_vars /\ CreationFairness

TypeOK == CreationTypeOK /\ VotesTypeOK /\ LimitTypeOK /\ GatewayTypeOK /\ MiniTypeOK
=============================================================================
