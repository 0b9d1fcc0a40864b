SPECIFICATION ProvisioningLiveSpec
CONSTANTS
  Jobs = {j1}
  Requests = {r1}
  Nightly = nightly
  Servers = {s1, s2}
  None = None
  RetryLimit = 1
  MaxCalls = 4
INVARIANTS
  ProvisioningTypeOK
  CustomersAreServed
  NameIsOfRow
PROPERTIES
  DeprovisionedIsFinal
  CancelledIsSettled
CHECK_DEADLOCK FALSE
