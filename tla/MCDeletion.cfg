\* Two deletions of a photo with a derived image or of the account; or one
\* with a fault and a lease that lapses.
SPECIFICATION FairSpec
CONSTANTS
  photo = photo
  result = result
  Assets = {photo, result}
  NoAsset = NoAsset
  SourceOf <- PhotoAndResult
  Account = Account
  MaxRequests = 2
  Operations = {"ticket", "complete", "derive", "delete"}
  Jobs = {1, 2}
  Workers = {w1, w2}
  NoMessage = NoMessage
  MaxRetries = 1
  MaxRounds = 2
  MaxPublish = 1
  MaxLapses = 1
  MaxFaults = 1
  MaxLoad = 4
  Faults = {"prepare_error", "prepare_ack_lost", "outcome_error", "outcome_ack_lost",
            "mark_error", "retry_unpublished", "finalize_error", "worker_lost"}
CHECK_DEADLOCK FALSE
INVARIANTS TypeOK StatusesAgree NothingComesBack
PROPERTIES KeepsPromise EveryDeletionEnds
