\* An optimization or a share, every fault, duplicate events, lapsed leases.
SPECIFICATION Spec
CONSTANTS
  Jobs = {j1}
  Workers = {w1, w2}
  NoMessage = NoMessage
  MaxRetries = 1
  MaxPublish = 2
  MaxGenerations = 2
  MaxLapses = 1
  MaxFaults = 2
  Faults <- FaultKinds
SYMMETRY WorkerSymmetry
CHECK_DEADLOCK FALSE
INVARIANTS TypeOK SettledTogether ImageOfLatestClaim OrphansExplained
PROPERTIES KeepsContract
