\* An account with feedback is deleted; nothing goes wrong.
SPECIFICATION Spec
CONSTANTS
  photo = photo
  result = result
  Assets = {photo, result}
  NoAsset = NoAsset
  SourceOf <- PhotoAndResult
  Account = Account
  MaxRequests = 2
  Operations = {"ticket", "feedback", "delete"}
  Jobs = {1, 2}
  Workers = {w1}
  NoMessage = NoMessage
  MaxRetries = 1
  MaxRounds = 2
  MaxPublish = 1
  MaxLapses = 0
  MaxFaults = 0
  MaxLoad = 4
  Faults = {}
CHECK_DEADLOCK FALSE
INVARIANT FeedbackCleaned
