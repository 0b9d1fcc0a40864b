SPECIFICATION IngressSpec
CONSTANTS
  Messages = {"x1", "x2", "y1", "f1", "e1", "e2", "h1", "h2"}
  Envelope <- MCEnvelope
  Senders = {"s1"}
  Threads = {"t1"}
  Deliveries = {d1}
  CaseIds = {i1}
  Null = Null
INVARIANTS
  DuplicateWasProcessed
CHECK_DEADLOCK FALSE
