\* An image is put while its photo is being deleted; nothing else goes wrong.
SPECIFICATION Spec
CONSTANTS
  Jobs = {j1}
  Workers = {w1, w2}
  NoMessage = NoMessage
  MaxRetries = 1
  MaxPublish = 1
  MaxGenerations = 2
  MaxLapses = 0
  MaxFaults = 1
  Faults = {"deleted"}
SYMMETRY WorkerSymmetry
CHECK_DEADLOCK FALSE
INVARIANT DeletedLeavesNoImage
