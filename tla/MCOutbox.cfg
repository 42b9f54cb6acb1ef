\* Two dispatchers claim one of two events at a time; sends fail, one crashes.
SPECIFICATION FairSpec
CONSTANTS
  NumEvents = 2
  Dispatchers = {d1, d2}
  BatchSize = 1
  MaxFailures = 2
  MaxCrashes = 1
CHECK_DEADLOCK FALSE
INVARIANTS TypeOK PublishedWasSent DuplicatesExplained
PROPERTIES EveryEventPublished
