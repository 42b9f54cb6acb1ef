\* One worker process dies.
SPECIFICATION Spec
CONSTANTS
  Jobs = {j1}
  Workers = {w1, w2}
  NoMessage = NoMessage
  MaxRetries = 2
  MaxPublish = 1
  MaxLapses = 0
  MaxFaults = 1
  Faults = {"worker_lost"}
SYMMETRY WorkerSymmetry
CHECK_DEADLOCK FALSE
INVARIANT NoJobLost
