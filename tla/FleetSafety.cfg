SPECIFICATION NestFleetSpec
CONSTANTS
  Cases = {c1}
  ChangeRequests = {k1}
  Jobs = {j1, j2}
  Requests = {r1}
  None = None
  RetryLimit = 0
  MarkCanFail = TRUE
  MaxReplies = 1
  AutoComplete = TRUE
  Operations <- TeamOperations
SYMMETRY Symmetry
INVARIANTS
  ChangeControlTypeOK
  HumanApproval
PROPERTIES
  ImplementsGate
  CrFollowsTable
CHECK_DEADLOCK FALSE
