CONSTANTS
  Requests = {r1, r2}
  Cmts = {c1}
  MaxTxn = 1
  MaxReports = 2
  None = None
SPECIFICATION Spec
INVARIANT OwnAnswer
