SPECIFICATION NestFleetSpec
CONSTANTS
  Cases = {c1}
  ChangeRequests = {k1}
  Jobs = {j1, j2}
  Requests = {r1}
  None = None
  RetryLimit = 0
  MarkCanFail = FALSE
  MaxReplies = 0
  AutoComplete = TRUE
  Operations <- RetryOperations
SYMMETRY Symmetry
INVARIANT
  FailedPrepIsRetried
CHECK_DEADLOCK FALSE
