SPECIFICATION ServicesSpec
CONSTANTS
  Cases = {c1}
  ChangeRequests = {k1, k2}
  Jobs = {j1, j2, j3}
  Requests = {r1}
  None = None
  RetryLimit = 2
  MarkCanFail = FALSE
  MaxReplies = 2
  Messages = {"x1", "x2", "y1", "f1", "e1", "e2", "h1", "h2"}
  Envelope <- MCEnvelope
  Senders = {"s1"}
  Threads = {"t1"}
  Deliveries = {d1, d2}
  CaseIds = {i1, i2}
  Null = Null
  Owners = {"o1"}
  MaxReissues = 2
  Tiers = {"starter", "growth"}
  Expiries = {1, 2}
  AlertThreshold = 3
  MaxAge = 8
  Chunks = {"a1", "b1"}
  Document <- MCDocument
  Similar <- MCSimilar
  Ingestions = {"i1"}
  Detections = {"d1"}
  Queries = {"q1"}
  ConflictIds = {"c1", "c2"}
  NoPair = NoPair
  PermissionIds <- MCIds
  Requires <- MCRequires
  DefaultRoles = {"operator", "change_lead"}
  DefaultGrants <- MCDefaultGrants
  CustomRoles = {"x1"}
  Edits = {"e1", "e2"}
  Asked <- MCAsked
  Runs = {"r1", "r2"}
  Retries = 1
  HardLimit = 1
  MaxCall = 1
  MaxSpent = 4
  MaxAbandoned = 1
  Phase1MaxInput = 10
  Phase2MaxInput = 18
  CharsPerToken = 4
  ShortText = 4
  KeptText = 8
  Frame = 6
  PromptLengths = {40, 41}
  TextLengths = {3, 50}
  ToolLengths = {0, 60}
  LinkedRows = {"n1", "s1", "v1", "k1", "e1", "g1"}
  Table <- MCTable
  Assets = {"a1"}
  Callers = {"p1", "p2"}
  Updates = {"e1", "e2"}
  SectionSets <- MCSectionSets
  Providers = {"openai", "google"}
  DefaultModel <- MCDefaultModel
  Models = {"m1", "m2"}
  Unset = "unset"
  NotifRows = {n1, n2}
  Leads = {l1, l2}
  SupportLead = l1
  ChangeLead = l2
  Emitters = {w1}
  Crons = {w2}
  Occasions = {"outageRouted", "outageNoted"}
  MaxEvents = 1
  Streams = {s1, s2}
  VisitorTexts = {"v1"}
  Repliers = {"a1", "a2"}
  MaxAsks = 2
  NoStream = NoStream
  NoIndex = NoIndex
INVARIANTS
  TriagedHasSteward
  InResolutionHasReply
  LeadHasDraft
  AnsweredOnce
  InChangeHasRequest
  ServicesTypeOK
  OneCasePerMessage
  JoinsItsThread
  IdleTellsInstance
  AlertIsTrue
  OpenConflictIsFlagged
  ConflictAbstains
  GrantsAreClosed
  WritesLeastClosure
  Phase2FitsBudget
  NeverOvercounted
  OvershootIsBounded
  SavedUnlessOverlapped
  EmbeddingFitsProvider
  ShownAsOftenAsSent
  ToldIsRecorded
PROPERTIES
  
  PublishedIsReviewed
CHECK_DEADLOCK FALSE
