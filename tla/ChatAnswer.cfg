SPECIFICATION ChatSpec
CONSTANTS
  Streams = {s1}
  VisitorTexts = {"v1"}
  Repliers = {"a1"}
  MaxAsks = 1
  NoStream = NoStream
  NoIndex = NoIndex
INVARIANTS
  AnswerIsShown
CHECK_DEADLOCK FALSE
