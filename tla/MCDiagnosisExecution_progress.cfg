\* Only faults the executor absorbs: nothing is left behind.
SPECIFICATION FairSpec
CONSTANTS
  Jobs = {j1}
  Workers = {w1, w2}
  NoMessage = NoMessage
  MaxRetries = 2
  MaxPublish = 2
  MaxLapses = 1
  MaxFaults = 2
  Faults <- AbsorbedFaults
CHECK_DEADLOCK FALSE
INVARIANTS NoJobLost
PROPERTIES EveryJobSettles
