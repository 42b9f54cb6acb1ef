\* Every fault, duplicate events and lapsed leases.
SPECIFICATION Spec
CONSTANTS
  Jobs = {j1}
  Workers = {w1, w2}
  NoMessage = NoMessage
  MaxRetries = 2
  MaxPublish = 2
  MaxLapses = 2
  MaxFaults = 2
  Faults <- FaultKinds
SYMMETRY WorkerSymmetry
CHECK_DEADLOCK FALSE
INVARIANTS TypeOK SettledTogether ResultFromLatestClaim RetryCountHonest OneCallPerLease AttemptsBounded
PROPERTIES SettledIsFinal KeepsContract
