CONSTANTS
  Requests = {r1, r2}
  Cmts = {c1, c2}
  MaxTxn = 2
  MaxReports = 2
  None = None
SPECIFICATION FairFreshSpec
INVARIANTS OwnAnswer
PROPERTIES ReportStays ImplementsRpc FileEndsWait
