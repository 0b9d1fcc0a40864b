SPECIFICATION RoutingSpec
CONSTANTS
  Cases = {c1}
  ChangeRequests = {k1}
  Jobs = {j1, j2}
  Requests = {r1}
  None = None
  RetryLimit = 1
  MarkCanFail = FALSE
  MaxReplies = 0
  Operations <- TriageOperations
INVARIANTS
  TriagedHasSteward
  FailedNamesJob
PROPERTIES
  TriagedIsSettled
  EnrichingIsSettled
CHECK_DEADLOCK FALSE
