SPECIFICATION HealthSpec
CONSTANTS
  AlertThreshold = 3
  MaxAge = 8
INVARIANTS
  OutageIsAlerted
CHECK_DEADLOCK FALSE
