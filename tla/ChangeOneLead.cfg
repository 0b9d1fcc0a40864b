SPECIFICATION ChangeControlLiveSpec
CONSTANTS
  Cases = {c1}
  ChangeRequests = {k1, k2}
  Jobs = {j1, j2}
  Requests = {r1}
  None = None
  RetryLimit = 1
  MarkCanFail = FALSE
  AutoComplete = TRUE
PROPERTIES
  PrepIsSettled
CHECK_DEADLOCK FALSE
