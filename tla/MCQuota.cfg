\* Three requests over three days of a month, at both limits.
SPECIFICATION FairSpec
CONSTANTS
  Jobs = {j1, j2, j3}
  NoJob = NoJob
  LastDay = 3
  MonthOf <- OneMonth
  DailyLimit = 1
  MonthlyLimit = 2
  MaxAborts = 1
CHECK_DEADLOCK FALSE
INVARIANTS TypeOK WithinLimit CountersExact NoDeadlock SettlementSucceeds
PROPERTIES KeepsLedger TransactionsEnd
