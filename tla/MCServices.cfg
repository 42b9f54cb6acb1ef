\* Requests that create, friends of a share, the rate limiter, model calls, the
\* mini program.  A diagnosis does what an optimization does, except that its
\* result cannot go alone.
SPECIFICATION FairSpec
CONSTANTS
  Parts = {"creation", "votes", "limit", "gateway", "mini"}
  Requests = {r1, r2, r3}
  Keys = {k1, k2}
  Sources = {s1, s2}
  Nobody = Nobody
  Endpoints = {"optimization", "share", "feedback", "login"}
  Limit = 1
  Visits = {1, 2, 3}
  Voters = {f1}
  Choices = {"BEFORE", "AFTER"}
  NoChoice = NoChoice
  Capacity <- Layered
  Window = 2
  MaxTime = 4
  m1 = m1
  m2 = m2
  m3 = m3
  m4 = m4
  Executions = {e1, e2}
  Deployments <- TwoDeployments
  Buckets = {0, 1}
  NoModel = "none"
  Taps = {t1, t2}
  Subjects = {a1, a2}
  NoRequest = NoRequest
  MaxKeys = 2
  MaxRestarts = 1
CHECK_DEADLOCK FALSE
INVARIANTS TypeOK CreatedOnce NeverIncomplete VoteHasEvent VotesGoWithShare CostlyLimit AttemptsRecorded JobKnown
PROPERTIES RequestsEnd
