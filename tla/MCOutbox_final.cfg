\* A dispatcher that outlived its lock records a failure over a success.
SPECIFICATION Spec
CONSTANTS
  NumEvents = 1
  Dispatchers = {d1, d2}
  BatchSize = 1
  MaxFailures = 1
  MaxCrashes = 0
SYMMETRY DispatcherSymmetry
CHECK_DEADLOCK FALSE
PROPERTIES PublishedIsFinal
