SPECIFICATION ChangeControlSpec
CONSTANTS
  Cases = {c1}
  ChangeRequests = {k1}
  Jobs = {j1, j2}
  Requests = {r1}
  None = None
  RetryLimit = 1
  MarkCanFail = FALSE
  AutoComplete = TRUE
INVARIANTS
  PrepHasJob
CHECK_DEADLOCK FALSE
