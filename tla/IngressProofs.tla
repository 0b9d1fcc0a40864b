--------------------------- MODULE IngressProofs ---------------------------
(***************************************************************************)
(* What reaches the server from outside, and who is told of it: the intake *)
(* puts a message into one case, and only one of its own thread; the chat  *)
(* shows and records what it says it does; and a notification that was     *)
(* acknowledged stays so.  For any messages, streams, operators, rows and  *)
(* runners.                                                                *)
(***************************************************************************)
EXTENDS Ingress, Chat, Notifications, FiniteSetTheorems, FunctionTheorems, SequenceTheorems, TLAPS

\* The points a call with the message m goes through.
Points(m) ==
  IF Channel(m) = "followUp" THEN {"idle", "session", "signal", "openCase", "attach", "close"}
  ELSE {"idle", "usage", "signal", "identity", "addIdentity", "addConversation", "case",
        "enrich", "link", "dispatch", "linked"}
         \cup (IF Channel(m) = "chat" THEN {} ELSE {"conversation"})
         \cup (IF Channel(m) \in {"chat", "form"} THEN {} ELSE {"thread"})

\* Between the insert of the message's signal and its case.
PastSignal(point, m) ==
  \/ point \in {"identity", "addIdentity", "conversation", "addConversation", "thread", "case"}
  \/ point = "usage" /\ Channel(m) # "chat"

HasCase == {"enrich", "link", "dispatch", "attach"}

\* The message m belongs into the case c.
Belongs(m, c) ==
  /\ intake[c].status # "none"
  /\ LET opener == intake[c].opener
     IN \/ opener = m
        \/ ChannelThread(m) # Null /\ ChannelThread(opener) = ChannelThread(m)
        \/ Channel(m) = "followUp" /\ ThreadKey(opener) = ThreadKey(m)

CallIsSound(x) ==
  /\ x.pc \in Points(x.msg)
  /\ x.pc \in HasCase => x.case # Null
  /\ x.case # Null => Belongs(x.msg, x.case)

\* The case c was opened by a message whose signal is stored.
CaseIsSound(c) ==
  IF intake[c].status = "none" THEN intake[c].opener = Null
  ELSE /\ intake[c].opener \in Messages /\ intake[c].key = ThreadKey(intake[c].opener)
       /\ signal[intake[c].opener].status # "none"

\* A message that is past its signal has no case yet, and one delivery.
ClaimIsSound(d) ==
  LET m == delivery[d].msg
  IN PastSignal(delivery[d].pc, m) =>
       /\ signal[m].status # "none"
       /\ \A c \in CaseIds : intake[c].opener # m
       /\ \A e \in Deliveries \ {d} : ~(delivery[e].msg = m /\ PastSignal(delivery[e].pc, m))

IngressInv ==
  /\ IngressTypeOK
  /\ \A d \in Deliveries : CallIsSound(delivery[d]) /\ ClaimIsSound(d)
  /\ \A c \in CaseIds : CaseIsSound(c)
  /\ \A m \in Messages : signal[m].case # Null => Belongs(m, signal[m].case)
  /\ OneCasePerMessage

-----------------------------------------------------------------------------
(* The order of the statements.                                            *)

\* Every message has one of the channels.
LEMMA ChannelType == ASSUME NEW m \in Messages PROVE Channel(m) \in Channels
BY IngressAssumption DEF Channel

\* What follows a statement in each channel.
LEMMA NextPoints ==
  ASSUME NEW m \in Messages
  PROVE  LET next == StepsOf[Channel(m)]
             stays(p) == p \in Points(m) \ HasCase
             done(p) == p \in Points(m) /\ ~PastSignal(p, m)
         IN /\ stays(next.idle) /\ done(next.idle) /\ stays(next.signal)
            /\ "session" \in Points(m) => stays(next.session) /\ done(next.session)
            /\ "identity" \in Points(m) => stays(next.identity) /\ stays("addIdentity")
            /\ "conversation" \in Points(m) => stays("addConversation")
            /\ "addConversation" \in Points(m) => stays(next.conversation)
            /\ "thread" \in Points(m) => stays(next.thread) /\ done("link")
            /\ "usage" \in Points(m) => stays(next.usage)
            /\ Channel(m) = "chat" => ~PastSignal(next.usage, m)
            /\ "case" \in Points(m) => done("enrich")
            /\ "enrich" \in Points(m) => done(next.enrich)
            /\ "link" \in Points(m) => done(next.link) /\ done("linked")
            /\ "dispatch" \in Points(m) => done(next.dispatch)
            /\ "openCase" \in Points(m) => done("attach") /\ done("close") /\ stays("close")
<1>0. Channel(m) \in Channels
  BY ChannelType
<1>1. CASE Channel(m) = "email"
  BY <1>1 DEF StepsOf, EmailSteps, Points, HasCase, PastSignal
<1>2. CASE Channel(m) = "external"
  BY <1>2 DEF StepsOf, ExternalSteps, Points, HasCase, PastSignal
<1>3. CASE Channel(m) = "canary"
  BY <1>3 DEF StepsOf, ExternalSteps, Points, HasCase, PastSignal
<1>4. CASE Channel(m) = "form"
  BY <1>4 DEF StepsOf, FormSteps, Points, HasCase, PastSignal
<1>5. CASE Channel(m) = "chat"
  BY <1>5 DEF StepsOf, ChatSteps, Points, HasCase, PastSignal
<1>6. CASE Channel(m) = "followUp"
  BY <1>6 DEF StepsOf, FollowUpSteps, Points, HasCase, PastSignal
<1> QED BY <1>0, <1>1, <1>2, <1>3, <1>4, <1>5, <1>6 DEF Channels

\* The points of a message are points of a call.
LEMMA PointsType == ASSUME NEW m \in Messages PROVE Points(m) \subseteq DeliveryPoints
BY DEF Points, DeliveryPoints

-----------------------------------------------------------------------------
(* What the steps do to the invariant.                                     *)

\* A case a message belongs into stays its case while cases keep their openers.
LEMMA BelongsStays ==
  ASSUME NEW m, NEW c \in CaseIds, Belongs(m, c),
         intake'[c].opener = intake[c].opener, intake'[c].status # "none"
  PROVE  Belongs(m, c)'
BY DEF Belongs

IntakeAnswers == {"none", "accepted", "duplicate", "withheld", "closed", "error"}

\* The rows keep their types, no case is opened or gets another opener, signals are not taken back,
\* and a signal is put where its message belongs.
RowStep ==
  /\ intake' \in [CaseIds -> IntakeCase]
  /\ \A c \in CaseIds : /\ intake'[c].opener = intake[c].opener
                        /\ intake'[c].key = intake[c].key
                        /\ intake'[c].status = "none" <=> intake[c].status = "none"
  /\ signal' \in [Messages -> Signal] /\ identities' \subseteq Senders
  /\ conversations' \subseteq ThreadKeys /\ triage' \subseteq CaseIds
  /\ answer' \in [Messages -> IntakeAnswers]
  /\ \A m \in Messages : signal[m].status # "none" => signal'[m].status # "none"
  /\ \A m \in Messages : signal'[m].case # Null => Belongs(m, signal'[m].case)

\* A step of the call d that opens no case: it only goes on past its signal if it
\* was past it before, and signals are not taken back.
LEMMA CallEffect ==
  ASSUME IngressInv, NEW d \in Deliveries, NEW x \in Delivery,
         delivery' = [delivery EXCEPT ![d] = x], CallIsSound(x),
         PastSignal(x.pc, x.msg) => /\ PastSignal(delivery[d].pc, delivery[d].msg)
                                    /\ x.msg = delivery[d].msg,
         RowStep
  PROVE  IngressInv'
<1> USE DEF RowStep
<1>0. delivery \in [Deliveries -> Delivery] /\ delivery' \in [Deliveries -> Delivery]
  BY DEF IngressInv, IngressTypeOK
<1>1. ASSUME NEW e \in Deliveries PROVE CallIsSound(delivery[e])'
  <2>1. PICK y \in Delivery : y = delivery'[e]
    BY <1>0
  <2>2. CallIsSound(y)
    BY <1>0, <2>1 DEF IngressInv
  <2>3. ASSUME y.case # Null PROVE Belongs(y.msg, y.case)'
    <3>1. y.case \in CaseIds /\ Belongs(y.msg, y.case)
      BY <2>2, <2>3 DEF Delivery, CallIsSound
    <3>2. intake'[y.case].opener = intake[y.case].opener /\ intake'[y.case].status # "none"
      BY <3>1 DEF Belongs
    <3> QED BY <3>1, <3>2, BelongsStays
  <2>4. CallIsSound(y)'
    BY <2>2, <2>3 DEF CallIsSound
  <2> QED BY <2>1, <2>4
<1>2. ASSUME NEW e \in Deliveries PROVE ClaimIsSound(e)'
  <2> DEFINE m == delivery'[e].msg
  <2> SUFFICES ASSUME PastSignal(delivery'[e].pc, m)
               PROVE  /\ signal'[m].status # "none"
                      /\ \A c \in CaseIds : intake'[c].opener # m
                      /\ \A f \in Deliveries \ {e} :
                           ~(delivery'[f].msg = m /\ PastSignal(delivery'[f].pc, m))
    BY DEF ClaimIsSound, PastSignal
  <2>1. PastSignal(delivery[e].pc, m) /\ m = delivery[e].msg /\ m \in Messages
    BY <1>0 DEF Delivery
  <2>2. /\ signal[m].status # "none"
        /\ \A c \in CaseIds : intake[c].opener # m
        /\ \A f \in Deliveries \ {e} : ~(delivery[f].msg = m /\ PastSignal(delivery[f].pc, m))
    BY <2>1 DEF IngressInv, ClaimIsSound
  <2>3. ASSUME NEW f \in Deliveries \ {e}, delivery'[f].msg = m, PastSignal(delivery'[f].pc, m)
        PROVE  FALSE
    <3>1. delivery[f].msg = m /\ PastSignal(delivery[f].pc, m)
      BY <1>0, <2>3
    <3> QED BY <2>2, <3>1
  <2> QED BY <2>1, <2>2, <2>3
<1>3. ASSUME NEW c \in CaseIds PROVE CaseIsSound(c)'
  BY DEF IngressInv, CaseIsSound
<1>4. ASSUME NEW m \in Messages, signal'[m].case # Null PROVE Belongs(m, signal[m].case)'
  <2>1. Belongs(m, signal'[m].case) /\ signal'[m].case \in CaseIds
    BY <1>4 DEF Signal
  <2>2. PICK c \in CaseIds : c = signal'[m].case
    BY <2>1
  <2>3. Belongs(m, c) /\ intake'[c].opener = intake[c].opener /\ intake'[c].status # "none"
    BY <2>1, <2>2 DEF Belongs
  <2>4. Belongs(m, c)'
    BY <2>3, BelongsStays
  <2> QED BY <2>2, <2>4
<1>5. OneCasePerMessage'
  BY DEF IngressInv, OneCasePerMessage
<1>6. IngressTypeOK'
  BY <1>0, <1>1 DEF IngressInv, IngressTypeOK, CallIsSound, HasCase, IntakeAnswers
<1> QED BY <1>1, <1>2, <1>3, <1>4, <1>5, <1>6 DEF IngressInv

\* A free call is sound.
LEMMA NoCallIsSound == NoCall \in Delivery /\ CallIsSound(NoCall) /\ NoCall.pc = "idle"
<1>1. (CHOOSE m \in Messages : TRUE) \in Messages
  BY IngressAssumption
<1> QED BY <1>1 DEF NoCall, Delivery, DeliveryPoints, CallIsSound, Points, HasCase

\* A call that goes on to another of its points, with the case it has.
LEMMA GoesEffect ==
  ASSUME IngressInv, NEW d \in Deliveries, NEW point, CallGoes(d, point),
         point \in Points(Msg(d)), point \in HasCase => delivery[d].case # Null,
         PastSignal(point, Msg(d)) => PastSignal(delivery[d].pc, Msg(d)),
         RowStep
  PROVE  IngressInv'
<1>1. /\ delivery[d] \in Delivery /\ Msg(d) \in Messages /\ CallIsSound(delivery[d])
      /\ Msg(d) = delivery[d].msg
  BY DEF IngressInv, IngressTypeOK, Msg, Delivery
<1>2. PICK x \in Delivery : /\ x.pc = point /\ x.msg = Msg(d) /\ x.case = delivery[d].case
                             /\ delivery' = [delivery EXCEPT ![d] = x]
  <2>1. [delivery[d] EXCEPT !.pc = point] \in Delivery
    BY <1>1, PointsType DEF Delivery
  <2> QED BY <1>1, <2>1 DEF CallGoes, Delivery
<1>3. CallIsSound(x)
  BY <1>1, <1>2 DEF CallIsSound
<1> QED BY <1>1, <1>2, <1>3, CallEffect

\* A call that ends with an answer.
LEMMA AnswerEffect ==
  ASSUME IngressInv, NEW d \in Deliveries, NEW what \in IntakeAnswers, AnswerCall(d, what), RowStep
  PROVE  IngressInv'
<1>1. delivery' = [delivery EXCEPT ![d] = NoCall]
  BY DEF AnswerCall
<1>2. ~PastSignal(NoCall.pc, NoCall.msg)
  BY NoCallIsSound DEF PastSignal
<1> QED BY <1>1, <1>2, NoCallIsSound, CallEffect

\* What a step that leaves all rows alone, or only answers, does to them.
LEMMA QuietRows ==
  ASSUME IngressInv, UNCHANGED rowVars,
         \/ UNCHANGED answer
         \/ \E d \in Deliveries, what \in IntakeAnswers : AnswerCall(d, what)
  PROVE  RowStep
<1>1. answer' \in [Messages -> IntakeAnswers]
  BY DEF IngressInv, IngressTypeOK, IntakeAnswers, AnswerCall
<1> QED BY <1>1 DEF rowVars, RowStep, IngressInv, IngressTypeOK, Belongs

\* A step that changes only one signal, whose message belongs where it is put.
LEMMA SignalRows ==
  ASSUME IngressInv, NEW m \in Messages, NEW s \in Signal, s.status # "none",
         s.case # Null => Belongs(m, s.case), signal' = [signal EXCEPT ![m] = s],
         UNCHANGED <<identities, conversations, intake, triage>>,
         \/ UNCHANGED answer
         \/ \E d \in Deliveries, what \in IntakeAnswers : AnswerCall(d, what)
  PROVE  RowStep
<1>1. answer' \in [Messages -> IntakeAnswers]
  BY DEF IngressInv, IngressTypeOK, IntakeAnswers, AnswerCall
<1>2. signal \in [Messages -> Signal] /\ signal' \in [Messages -> Signal]
  BY DEF IngressInv, IngressTypeOK
<1>3. ASSUME NEW n \in Messages, signal'[n].case # Null PROVE Belongs(n, signal'[n].case)
  BY <1>2, <1>3 DEF IngressInv
<1> QED BY <1>1, <1>2, <1>3 DEF RowStep, IngressInv, IngressTypeOK

-----------------------------------------------------------------------------
(* The steps.                                                              *)

\* A webhook call begins.
LEMMA ReceiveKeepsInv ==
  ASSUME IngressInv, NEW d \in Deliveries, NEW m \in Messages, Receive(d, m)
  PROVE  IngressInv'
<1> DEFINE first == StepsOf[Channel(m)].idle
<1>1. first \in Points(m) \ HasCase /\ ~PastSignal(first, m) /\ first \in DeliveryPoints
  BY NextPoints, PointsType
<1>2. PICK x \in Delivery : /\ x.pc = first /\ x.msg = m /\ x.case = Null
                             /\ delivery' = [delivery EXCEPT ![d] = x]
  <2> HIDE DEF first
  <2>1. /\ [NoCall EXCEPT !.pc = first, !.msg = m] \in Delivery
        /\ [NoCall EXCEPT !.pc = first, !.msg = m].pc = first
        /\ [NoCall EXCEPT !.pc = first, !.msg = m].msg = m
        /\ [NoCall EXCEPT !.pc = first, !.msg = m].case = Null
    BY <1>1 DEF NoCall, Delivery
  <2> QED BY <2>1 DEF Receive, first
<1>3. CallIsSound(x)
  BY <1>1, <1>2 DEF CallIsSound
<1>4. RowStep
  BY QuietRows DEF Receive
<1> HIDE DEF first
<1> QED BY <1>1, <1>2, <1>3, <1>4, CallEffect

\* The steps that read, or add an identity or a conversation.
LEMMA LookupKeepsInv ==
  ASSUME IngressInv, NEW d \in Deliveries,
         \/ FindIdentity(d) \/ CreateIdentity(d)
         \/ FindConversation(d) \/ CreateConversation(d) \/ FindSession(d)
  PROVE  IngressInv'
<1> DEFINE m == Msg(d)
           next == StepsOf[Channel(m)]
<1>1. m \in Messages /\ delivery[d].pc \in Points(m) /\ m = delivery[d].msg
  BY DEF IngressInv, IngressTypeOK, Msg, Delivery, CallIsSound
<1>2. ASSUME NEW point, CallGoes(d, point), RowStep, point \in Points(m) \ HasCase,
             PastSignal(point, m) => PastSignal(delivery[d].pc, m)
      PROVE  IngressInv'
  BY <1>1, <1>2, GoesEffect
<1>3. CASE FindIdentity(d)
  <2>1. delivery[d].pc = "identity" /\ (CallGoes(d, next.identity) \/ CallGoes(d, "addIdentity"))
    BY <1>3 DEF FindIdentity, CallAt, Continue
  <2>2. RowStep
    BY <1>3, QuietRows DEF FindIdentity
  <2>3. PastSignal(delivery[d].pc, m)
    BY <2>1 DEF PastSignal
  <2> QED BY <1>1, <1>2, <2>1, <2>2, <2>3, NextPoints
<1>4. CASE CreateIdentity(d)
  <2>1. delivery[d].pc = "addIdentity" /\ CallGoes(d, next.identity)
    BY <1>4 DEF CreateIdentity, CallAt, Continue
  <2>2. RowStep
    <3>1. Envelope[m].sender \in Senders
      BY <1>1, IngressAssumption
    <3> QED BY <1>4, <3>1 DEF CreateIdentity, RowStep, IngressInv, IngressTypeOK, IntakeAnswers, Belongs
  <2>3. PastSignal(delivery[d].pc, m) /\ "identity" \in Points(m)
    BY <1>1, <2>1 DEF PastSignal, Points
  <2> QED BY <1>1, <1>2, <2>1, <2>2, <2>3, NextPoints
<1>5. CASE FindConversation(d)
  <2>1. /\ delivery[d].pc = "conversation"
        /\ CallGoes(d, next.conversation) \/ CallGoes(d, "addConversation")
    BY <1>5 DEF FindConversation, CallAt, Continue
  <2>2. RowStep
    BY <1>5, QuietRows DEF FindConversation
  <2>3. PastSignal(delivery[d].pc, m) /\ "addConversation" \in Points(m)
    BY <1>1, <2>1 DEF PastSignal, Points
  <2> QED BY <1>1, <1>2, <2>1, <2>2, <2>3, NextPoints
<1>6. CASE CreateConversation(d)
  <2>1. delivery[d].pc = "addConversation" /\ CallGoes(d, next.conversation)
    BY <1>6 DEF CreateConversation, CallAt, Continue
  <2>2. RowStep
    BY <1>1, <1>6 DEF CreateConversation, RowStep, IngressInv, IngressTypeOK, IntakeAnswers, Belongs,
                      ThreadKeys
  <2>3. PastSignal(delivery[d].pc, m)
    BY <2>1 DEF PastSignal
  <2> QED BY <1>1, <1>2, <2>1, <2>2, <2>3, NextPoints
<1>7. CASE FindSession(d)
  <2>1. delivery[d].pc = "session" /\ CallGoes(d, next.session)
    BY <1>7 DEF FindSession, CallAt, Continue
  <2>2. RowStep
    BY <1>7, QuietRows DEF FindSession
  <2> QED BY <1>1, <1>2, <2>1, <2>2, NextPoints
<1> QED BY <1>3, <1>4, <1>5, <1>6, <1>7

\* A message joins the open case of its thread, or of its session.
LEMMA JoinKeepsInv ==
  ASSUME IngressInv, NEW d \in Deliveries, FindThread(d) \/ FindOpenCase(d)
  PROVE  IngressInv'
<1> DEFINE m == Msg(d)
           next == StepsOf[Channel(m)]
<1>1. /\ m \in Messages /\ delivery[d].pc \in Points(m) /\ m = delivery[d].msg
      /\ delivery[d] \in Delivery
  BY DEF IngressInv, IngressTypeOK, Msg, Delivery, CallIsSound
<1>2. RowStep
  BY QuietRows DEF FindThread, FindOpenCase, CallGoes
<1>3. ASSUME NEW c \in CaseIds, Belongs(m, c), NEW point \in Points(m), ~PastSignal(point, m),
             delivery' = [delivery EXCEPT ![d] = [delivery[d] EXCEPT !.pc = point, !.case = c]]
      PROVE  IngressInv'
  <2>1. PICK x \in Delivery : /\ x.pc = point /\ x.msg = m /\ x.case = c
                               /\ delivery' = [delivery EXCEPT ![d] = x]
    <3>1. [delivery[d] EXCEPT !.pc = point, !.case = c] \in Delivery
      BY <1>1, PointsType DEF Delivery
    <3> QED BY <1>1, <1>3, <3>1 DEF Delivery
  <2>2. CallIsSound(x)
    BY <1>3, <2>1, IngressAssumption DEF CallIsSound
  <2> QED BY <1>2, <1>3, <2>1, <2>2, CallEffect
<1>4. CASE FindThread(d)
  <2>1. delivery[d].pc = "thread"
    BY <1>4 DEF FindThread, CallAt
  <2>2. ASSUME Continue(d, "thread") PROVE IngressInv'
    <3>1. next.thread \in Points(m) \ HasCase
      BY <1>1, <2>1, NextPoints
    <3>2. PastSignal(delivery[d].pc, m)
      BY <2>1 DEF PastSignal
    <3> QED BY <1>2, <2>2, <3>1, <3>2, GoesEffect DEF Continue
  <2>3. ASSUME MayThread(m), NEW c \in OpenCasesOfThread(m),
               delivery' = [delivery EXCEPT ![d] = [delivery[d] EXCEPT !.pc = "link", !.case = c]]
        PROVE  IngressInv'
    <3>1. c \in CaseIds /\ IsOpen(c)
      BY DEF OpenCasesOfThread
    <3>2. PICK s \in Messages : signal[s].case = c /\ ChannelThread(s) = ChannelThread(m)
      BY DEF OpenCasesOfThread
    <3>3. Belongs(s, c)
      BY <3>1, <3>2, IngressAssumption DEF IngressInv
    <3>4. ChannelThread(m) # Null
      BY <1>1, <2>3, KeyAssumption DEF MayThread, ChannelThread, ThreadKeys
    <3>5. Channel(s) # "followUp"
      BY <3>2, <3>4 DEF ChannelThread
    <3>6. Belongs(m, c)
      BY <3>2, <3>3, <3>4, <3>5 DEF Belongs
    <3>7. "link" \in Points(m) /\ ~PastSignal("link", m)
      BY <1>1, <2>1, NextPoints
    <3> QED BY <1>3, <2>3, <3>1, <3>6, <3>7
  <2> QED BY <1>4, <2>2, <2>3 DEF FindThread
<1>5. CASE FindOpenCase(d)
  <2>1. delivery[d].pc = "openCase" /\ Channel(m) = "followUp"
    BY <1>1, <1>5 DEF FindOpenCase, CallAt, Points
  <2>2. /\ "attach" \in Points(m) /\ ~PastSignal("attach", m)
        /\ "close" \in Points(m) \ HasCase /\ ~PastSignal("close", m)
    BY <1>1, <2>1, NextPoints
  <2>3. CASE CallGoes(d, "close")
    BY <1>2, <2>2, <2>3, GoesEffect
  <2>4. ASSUME NEW c \in CaseIds, IsOpen(c), intake[c].key = ThreadKey(m),
               delivery' = [delivery EXCEPT ![d] = [delivery[d] EXCEPT !.pc = "attach", !.case = c]]
        PROVE  IngressInv'
    <3>1. intake[c].status # "none" /\ CaseIsSound(c)
      BY <2>4 DEF IsOpen, IngressInv
    <3>2. Belongs(m, c)
      BY <2>1, <2>4, <3>1 DEF Belongs, CaseIsSound
    <3> QED BY <1>3, <2>2, <2>4, <3>2
  <2> QED BY <1>5, <2>3, <2>4 DEF FindOpenCase
<1> QED BY <1>4, <1>5

\* The steps of a call beyond its case.
LEMMA CaseStepsKeepInv ==
  ASSUME IngressInv, NEW d \in Deliveries,
         \/ CheckUsage(d) \/ StartEnriching(d) \/ LinkSignal(d) \/ DispatchTriage(d)
  PROVE  IngressInv'
<1> DEFINE m == Msg(d)
           next == StepsOf[Channel(m)]
           x == delivery[d]
<1>1. /\ m \in Messages /\ x.pc \in Points(m) /\ m = x.msg /\ x \in Delivery /\ CallIsSound(x)
  BY DEF IngressInv, IngressTypeOK, Msg, Delivery, CallIsSound
<1>2. CASE CheckUsage(d)
  <2>1. x.pc = "usage"
    BY <1>2 DEF CheckUsage, CallAt
  <2>2. PICK limited \in BOOLEAN :
          delivery' = [delivery EXCEPT ![d] = [x EXCEPT !.pc = next.usage, !.limited = limited]]
    BY <1>2 DEF CheckUsage
  <2>3. next.usage \in Points(m) \ HasCase /\ (PastSignal(next.usage, m) => PastSignal(x.pc, m))
    BY <1>1, <2>1, NextPoints DEF PastSignal
  <2>4. PICK y \in Delivery : /\ y.pc = next.usage /\ y.msg = m /\ y.case = x.case
                               /\ delivery' = [delivery EXCEPT ![d] = y]
    <3> DEFINE point == next.usage
    <3>1. point \in DeliveryPoints
      BY <1>1, <2>3, PointsType
    <3> HIDE DEF point
    <3>2. /\ [x EXCEPT !.pc = point, !.limited = limited] \in Delivery
          /\ [x EXCEPT !.pc = point, !.limited = limited].pc = point
          /\ [x EXCEPT !.pc = point, !.limited = limited].msg = m
          /\ [x EXCEPT !.pc = point, !.limited = limited].case = x.case
      BY <1>1, <3>1 DEF Delivery
    <3> QED BY <2>2, <3>2 DEF point
  <2>5. CallIsSound(y)
    BY <1>1, <2>3, <2>4 DEF CallIsSound
  <2>6. RowStep
    BY <1>2, QuietRows DEF CheckUsage
  <2> QED BY <1>1, <2>3, <2>4, <2>5, <2>6, CallEffect
<1>3. CASE StartEnriching(d)
  <2>1. x.pc = "enrich" /\ x.case \in CaseIds /\ intake[x.case].status # "none"
    BY <1>1, <1>3 DEF StartEnriching, CallAt, CallIsSound, HasCase, Delivery, Belongs
  <2>2. CallGoes(d, next.enrich) /\ next.enrich \in Points(m) /\ ~PastSignal(next.enrich, m)
    BY <1>1, <1>3, <2>1, NextPoints DEF StartEnriching, Continue
  <2>3. /\ intake \in [CaseIds -> IntakeCase]
        /\ intake' = [intake EXCEPT ![x.case] = [intake[x.case] EXCEPT !.status = "enriching"]]
    BY <1>3 DEF StartEnriching, IngressInv, IngressTypeOK
  <2>4. RowStep
    <3>1. [intake[x.case] EXCEPT !.status = "enriching"] \in IntakeCase
      BY <2>1, <2>3 DEF IntakeCase
    <3>2. intake' \in [CaseIds -> IntakeCase]
      BY <2>3, <3>1
    <3>3. ASSUME NEW c \in CaseIds
          PROVE  /\ intake'[c].opener = intake[c].opener /\ intake'[c].key = intake[c].key
                 /\ intake'[c].status = "none" <=> intake[c].status = "none"
      BY <2>1, <2>3 DEF IntakeCase
    <3> QED BY <1>3, <3>2, <3>3 DEF StartEnriching, RowStep, IngressInv, IngressTypeOK, IntakeAnswers
  <2> QED BY <2>1, <2>2, <2>4, <1>1, GoesEffect DEF CallIsSound, HasCase
<1>4. CASE LinkSignal(d)
  <2>1. x.pc = "link" /\ x.case \in CaseIds /\ Belongs(m, x.case)
    BY <1>1, <1>4 DEF LinkSignal, CallAt, CallIsSound, HasCase, Delivery
  <2>2. RowStep
    <3>1. [status |-> "normalized", case |-> x.case] \in Signal
      BY <2>1 DEF Signal
    <3> QED BY <1>1, <1>4, <2>1, <3>1, SignalRows DEF LinkSignal
  <2>3. x.case # Null
    BY <2>1, IngressAssumption
  <2> QED BY <1>1, <1>4, <2>1, <2>2, <2>3, NextPoints, GoesEffect DEF LinkSignal, Continue
<1>5. CASE DispatchTriage(d)
  <2>1. x.pc = "dispatch" /\ x.case \in CaseIds
    BY <1>1, <1>5 DEF DispatchTriage, CallAt, CallIsSound, HasCase, Delivery
  <2>2. RowStep
    BY <1>5, <2>1 DEF DispatchTriage, RowStep, IngressInv, IngressTypeOK, IntakeAnswers
  <2>3. x.case # Null
    BY <2>1, IngressAssumption
  <2> QED BY <1>1, <1>5, <2>1, <2>2, <2>3, NextPoints, GoesEffect DEF DispatchTriage, Continue
<1> QED BY <1>2, <1>3, <1>4, <1>5

\* The steps that answer.
LEMMA AnswersKeepInv ==
  ASSUME IngressInv, NEW d \in Deliveries,
         \/ SkipDuplicate(d) \/ Withhold(d) \/ MarkLinked(d)
         \/ AttachMessage(d) \/ RefuseClosed(d) \/ DeliveryFails(d)
  PROVE  IngressInv'
<1> DEFINE m == Msg(d)
           x == delivery[d]
<1>1. /\ m \in Messages /\ m = x.msg /\ x \in Delivery /\ CallIsSound(x)
      /\ signal \in [Messages -> Signal]
  BY DEF IngressInv, IngressTypeOK, Msg, Delivery
<1>2. PICK what \in IntakeAnswers : AnswerCall(d, what)
  BY DEF SkipDuplicate, Withhold, MarkLinked, AttachMessage, RefuseClosed, DeliveryFails, IntakeAnswers
<1>3. CASE SkipDuplicate(d) \/ DeliveryFails(d)
  BY <1>2, <1>3, QuietRows, AnswerEffect DEF SkipDuplicate, DeliveryFails
<1>4. CASE Withhold(d) \/ MarkLinked(d) \/ RefuseClosed(d)
  <2> DEFINE s == [signal[m] EXCEPT !.status = "linked"]
  <2>1. s \in Signal /\ s.status # "none" /\ s.case = signal[m].case
    BY <1>1 DEF Signal
  <2>2. s.case # Null => Belongs(m, s.case)
    BY <1>1, <2>1 DEF IngressInv
  <2>3. signal' = [signal EXCEPT ![m] = s] /\ UNCHANGED <<identities, conversations, intake, triage>>
    BY <1>4 DEF Withhold, MarkLinked, RefuseClosed
  <2> HIDE DEF s
  <2> QED BY <1>1, <1>2, <2>1, <2>2, <2>3, SignalRows, AnswerEffect
<1>5. CASE AttachMessage(d)
  <2>1. x.case \in CaseIds /\ Belongs(m, x.case)
    BY <1>1, <1>5 DEF AttachMessage, CallAt, CallIsSound, HasCase, Delivery
  <2>2. [status |-> "linked", case |-> x.case] \in Signal
    BY <2>1 DEF Signal
  <2> QED BY <1>1, <1>2, <1>5, <2>1, <2>2, SignalRows, AnswerEffect DEF AttachMessage
<1> QED BY <1>3, <1>4, <1>5

\* The insert of a signal claims its message for this call.
LEMMA CreateSignalKeepsInv ==
  ASSUME IngressInv, NEW d \in Deliveries, CreateSignal(d)
  PROVE  IngressInv'
<1> DEFINE m == Msg(d)
           x == delivery[d]
           next == StepsOf[Channel(m)].signal
<1>1. /\ m \in Messages /\ m = x.msg /\ x \in Delivery /\ CallIsSound(x)
      /\ signal \in [Messages -> Signal] /\ delivery \in [Deliveries -> Delivery]
      /\ signal[m].status = "none"
  BY DEF IngressInv, IngressTypeOK, Msg, Delivery, CreateSignal
<1>2. next \in Points(m) \ HasCase /\ next \in DeliveryPoints
  BY <1>1, NextPoints, PointsType
<1>3. PICK y \in Delivery : /\ y.pc = next /\ y.msg = m /\ y.case = x.case
                             /\ delivery' = [delivery EXCEPT ![d] = y]
  <2> HIDE DEF next
  <2>1. /\ [x EXCEPT !.pc = next] \in Delivery /\ [x EXCEPT !.pc = next].pc = next
        /\ [x EXCEPT !.pc = next].msg = m /\ [x EXCEPT !.pc = next].case = x.case
    BY <1>1, <1>2 DEF Delivery
  <2> QED BY <2>1 DEF CreateSignal, Continue, CallGoes, next
<1> HIDE DEF next
<1>4. RowStep
  <2>1. [status |-> "received", case |-> Null] \in Signal
    BY DEF Signal
  <2> QED BY <1>1, <2>1, SignalRows DEF CreateSignal
<1>5. \A c \in CaseIds : intake[c].opener # m
  BY <1>1, IngressAssumption DEF IngressInv, CaseIsSound
<1>6. ASSUME NEW e \in Deliveries, delivery[e].msg = m PROVE ~PastSignal(delivery[e].pc, m)
  BY <1>1, <1>6 DEF IngressInv, ClaimIsSound
<1>7. UNCHANGED intake
  BY DEF CreateSignal
<1>8. ASSUME NEW e \in Deliveries PROVE ClaimIsSound(e)'
  <2>1. CASE e = d
    <3>1. signal'[m].status # "none"
      BY <1>1 DEF CreateSignal
    <3>2. ASSUME NEW f \in Deliveries \ {d}, delivery'[f].msg = m PROVE ~PastSignal(delivery'[f].pc, m)
      BY <1>1, <1>3, <1>6, <3>2
    <3>3. delivery'[e] = y
      BY <1>1, <1>3, <2>1
    <3> QED BY <1>3, <1>5, <1>7, <2>1, <3>1, <3>2, <3>3 DEF ClaimIsSound, PastSignal
  <2>2. CASE e # d
    <3>1. delivery'[e] = delivery[e] /\ ClaimIsSound(e) /\ delivery[e] \in Delivery
      BY <1>1, <1>3, <2>2 DEF IngressInv
    <3> DEFINE n == delivery[e].msg
    <3> SUFFICES ASSUME PastSignal(delivery[e].pc, n)
                 PROVE  /\ signal'[n].status # "none"
                        /\ \A c \in CaseIds : intake'[c].opener # n
                        /\ \A f \in Deliveries \ {e} :
                             ~(delivery'[f].msg = n /\ PastSignal(delivery'[f].pc, n))
      BY <3>1 DEF ClaimIsSound, PastSignal
    <3>2. n # m /\ n \in Messages
      BY <1>6, <3>1 DEF Delivery
    <3> QED BY <1>1, <1>3, <1>4, <1>7, <3>1, <3>2 DEF ClaimIsSound, RowStep
  <2> QED BY <2>1, <2>2
<1>9. CallIsSound(y)
  BY <1>1, <1>2, <1>3 DEF CallIsSound
<1>10. ASSUME NEW e \in Deliveries PROVE CallIsSound(delivery[e])'
  <2>1. CallIsSound(delivery'[e])
    BY <1>1, <1>3, <1>9 DEF IngressInv
  <2> QED BY <1>7, <2>1 DEF CallIsSound, Belongs
<1>11. (\A c \in CaseIds : CaseIsSound(c))' /\ OneCasePerMessage'
  BY <1>4, <1>7 DEF IngressInv, CaseIsSound, OneCasePerMessage, RowStep
<1>12. \A n \in Messages : (signal[n].case # Null => Belongs(n, signal[n].case))'
  BY <1>4, <1>7 DEF RowStep, Belongs
<1>13. IngressTypeOK'
  BY <1>1, <1>3, <1>4, <1>10 DEF IngressInv, IngressTypeOK, RowStep, CallIsSound, HasCase, IntakeAnswers
<1> QED BY <1>8, <1>10, <1>11, <1>12, <1>13 DEF IngressInv

\* A case is opened for a message that has none, by the one call that claims it.
LEMMA CreateCaseKeepsInv ==
  ASSUME IngressInv, NEW d \in Deliveries, CreateCase(d)
  PROVE  IngressInv'
<1> DEFINE m == Msg(d)
           x == delivery[d]
<1>1. /\ m \in Messages /\ m = x.msg /\ x \in Delivery /\ x.pc = "case"
      /\ "enrich" \in Points(m) /\ PastSignal("case", m) /\ ~PastSignal("enrich", m)
      /\ delivery \in [Deliveries -> Delivery] /\ intake \in [CaseIds -> IntakeCase]
  <2>1. m \in Messages /\ m = x.msg /\ x \in Delivery /\ x.pc = "case" /\ x.pc \in Points(m)
    BY DEF IngressInv, IngressTypeOK, Msg, Delivery, CreateCase, CallAt, CallIsSound
  <2> QED BY <2>1, NextPoints DEF PastSignal, IngressInv, IngressTypeOK
<1>2. PICK c \in CaseIds :
        /\ intake[c].status = "none"
        /\ intake' = [intake EXCEPT ![c] = [status |-> "new", opener |-> m, key |-> ThreadKey(m)]]
        /\ delivery' = [delivery EXCEPT ![d] = [x EXCEPT !.pc = "enrich", !.case = c]]
  BY DEF CreateCase
<1>3. UNCHANGED <<signal, identities, conversations, triage, answer>>
  BY DEF CreateCase
<1>4. PICK y \in Delivery : /\ y.pc = "enrich" /\ y.msg = m /\ y.case = c
                             /\ delivery' = [delivery EXCEPT ![d] = y]
  <2>1. [x EXCEPT !.pc = "enrich", !.case = c] \in Delivery
    BY <1>1 DEF Delivery, DeliveryPoints
  <2> QED BY <1>1, <1>2, <2>1 DEF Delivery
<1>5. /\ signal[m].status # "none" /\ \A b \in CaseIds : intake[b].opener # m
      /\ \A e \in Deliveries \ {d} : ~(delivery[e].msg = m /\ PastSignal(delivery[e].pc, m))
  BY <1>1 DEF IngressInv, ClaimIsSound
<1>6. intake' \in [CaseIds -> IntakeCase]
  <2>1. [status |-> "new", opener |-> m, key |-> ThreadKey(m)] \in IntakeCase
    BY <1>1 DEF IntakeCase, ThreadKeys
  <2> QED BY <1>1, <1>2, <2>1
<1>7. /\ intake'[c].status = "new" /\ intake'[c].opener = m /\ intake'[c].key = ThreadKey(m)
      /\ \A b \in CaseIds \ {c} : intake'[b] = intake[b]
  BY <1>1, <1>2
<1>8. ASSUME NEW n, NEW b \in CaseIds, Belongs(n, b) PROVE Belongs(n, b)'
  <2>1. b # c
    BY <1>2, <1>8 DEF Belongs
  <2> QED BY <1>7, <1>8, <2>1 DEF Belongs
<1>9. ASSUME NEW e \in Deliveries PROVE CallIsSound(delivery[e])'
  <2>1. PICK z \in Delivery : z = delivery'[e]
    BY <1>1, <1>4
  <2>2. CASE e = d
    <3>1. z = y /\ y.msg = m /\ y.pc \in Points(y.msg) /\ y.case # Null
      BY <1>1, <1>4, <2>1, <2>2, IngressAssumption
    <3>2. Belongs(y.msg, c)'
      BY <1>7, <3>1 DEF Belongs
    <3>3. CallIsSound(y)'
      BY <1>4, <3>1, <3>2 DEF CallIsSound
    <3> QED BY <2>1, <3>1, <3>3
  <2>3. CASE e # d
    <3>1. CallIsSound(z)
      BY <1>1, <1>4, <2>1, <2>3 DEF IngressInv
    <3>2. (z.case # Null => Belongs(z.msg, z.case))'
      BY <1>8, <3>1 DEF CallIsSound, Delivery
    <3> QED BY <2>1, <3>1, <3>2 DEF CallIsSound
  <2> QED BY <2>2, <2>3
<1>10. ASSUME NEW e \in Deliveries PROVE ClaimIsSound(e)'
  <2>1. CASE e = d
    <3>1. delivery'[e] = y
      BY <1>1, <1>4, <2>1
    <3> QED BY <1>1, <1>4, <3>1 DEF ClaimIsSound, PastSignal
  <2>2. CASE e # d
    <3>1. delivery'[e] = delivery[e] /\ ClaimIsSound(e)
      BY <1>1, <1>4, <2>2 DEF IngressInv
    <3> DEFINE n == delivery[e].msg
    <3> SUFFICES ASSUME PastSignal(delivery[e].pc, n)
                 PROVE  /\ signal'[n].status # "none"
                        /\ \A b \in CaseIds : intake'[b].opener # n
                        /\ \A f \in Deliveries \ {e} :
                             ~(delivery'[f].msg = n /\ PastSignal(delivery'[f].pc, n))
      BY <3>1 DEF ClaimIsSound, PastSignal
    <3>2. n # m
      BY <1>5, <2>2
    <3>3. \A b \in CaseIds : intake'[b].opener # n
      BY <1>7, <3>1, <3>2 DEF ClaimIsSound
    <3>4. ASSUME NEW f \in Deliveries \ {e}, delivery'[f].msg = n, PastSignal(delivery'[f].pc, n)
          PROVE  FALSE
      <4>1. f # d /\ delivery'[f] = delivery[f]
        BY <1>1, <1>4, <3>2, <3>4
      <4> QED BY <3>1, <3>4, <4>1 DEF ClaimIsSound
    <3> QED BY <1>3, <3>1, <3>3, <3>4 DEF ClaimIsSound
  <2> QED BY <2>1, <2>2
<1>11. ASSUME NEW b \in CaseIds PROVE CaseIsSound(b)'
  <2>1. CASE b = c
    BY <1>1, <1>3, <1>5, <1>7, <2>1 DEF CaseIsSound
  <2>2. CASE b # c
    BY <1>3, <1>7, <2>2 DEF CaseIsSound, IngressInv
  <2> QED BY <2>1, <2>2
<1>12. ASSUME NEW n \in Messages, signal[n].case # Null PROVE Belongs(n, signal[n].case)'
  <2>1. PICK b \in CaseIds : b = signal[n].case
    BY <1>12 DEF IngressInv, IngressTypeOK, Signal
  <2>2. Belongs(n, b)'
    BY <1>8, <1>12, <2>1 DEF IngressInv
  <2> QED BY <1>3, <2>1, <2>2
<1>13. \A n \in Messages : (signal[n].case # Null => Belongs(n, signal[n].case))'
  BY <1>3, <1>12
<1>14. OneCasePerMessage'
  BY <1>5, <1>7 DEF IngressInv, OneCasePerMessage
<1>15. IngressTypeOK'
  BY <1>1, <1>3, <1>4, <1>6, <1>9 DEF IngressInv, IngressTypeOK, CallIsSound, HasCase
<1> QED BY <1>9, <1>10, <1>11, <1>13, <1>14, <1>15 DEF IngressInv

\* A case that is resolved or reopened keeps its opener.
LEMMA CaseMovesKeepsInv ==
  ASSUME IngressInv, NEW c \in CaseIds, CaseMoves(c)
  PROVE  IngressInv'
<1>1. intake \in [CaseIds -> IntakeCase]
  BY DEF IngressInv, IngressTypeOK
<1>2. PICK s \in {"resolved", "enriching"} :
        intake' = [intake EXCEPT ![c] = [intake[c] EXCEPT !.status = s]]
  BY DEF CaseMoves
<1>3. intake[c].status # "none" /\ UNCHANGED <<signal, identities, conversations, triage, delivery, answer>>
  BY DEF CaseMoves
<1>4. [intake[c] EXCEPT !.status = s] \in IntakeCase
  BY <1>1 DEF IntakeCase
<1>5. ASSUME NEW b \in CaseIds
      PROVE  /\ intake'[b].opener = intake[b].opener /\ intake'[b].key = intake[b].key
             /\ intake'[b].status = "none" <=> intake[b].status = "none"
  BY <1>1, <1>2, <1>3 DEF IntakeCase
<1>6. RowStep
  BY <1>1, <1>2, <1>3, <1>4, <1>5 DEF RowStep, IngressInv, IngressTypeOK, IntakeAnswers
<1>7. CASE Deliveries # {}
  <2>1. PICK d \in Deliveries : TRUE
    BY <1>7
  <2>2. PICK x \in Delivery : x = delivery[d] /\ CallIsSound(x)
    BY DEF IngressInv, IngressTypeOK
  <2>3. delivery' = [delivery EXCEPT ![d] = x]
    BY <1>3, <2>2 DEF IngressInv, IngressTypeOK
  <2> QED BY <1>6, <2>2, <2>3, CallEffect
<1>8. CASE Deliveries = {}
  <2>1. ASSUME NEW b \in CaseIds PROVE CaseIsSound(b)'
    BY <1>3, <1>5 DEF IngressInv, CaseIsSound
  <2>2. ASSUME NEW n \in Messages, signal[n].case # Null PROVE Belongs(n, signal[n].case)'
    <3>1. PICK b \in CaseIds : b = signal[n].case
      BY <2>2 DEF IngressInv, IngressTypeOK, Signal
    <3>2. Belongs(n, b)
      BY <2>2, <3>1 DEF IngressInv
    <3>3. intake'[b].opener = intake[b].opener /\ intake'[b].status # "none"
      BY <1>5, <3>2 DEF Belongs
    <3>4. Belongs(n, b)'
      BY <3>2, <3>3, BelongsStays
    <3> QED BY <1>3, <3>1, <3>4
  <2>3. \A n \in Messages : (signal[n].case # Null => Belongs(n, signal[n].case))'
    BY <1>3, <2>2
  <2>4. OneCasePerMessage'
    BY <1>5 DEF IngressInv, OneCasePerMessage
  <2>5. IngressTypeOK'
    BY <1>3, <1>6, <1>8 DEF IngressInv, IngressTypeOK, RowStep
  <2> QED BY <1>8, <2>1, <2>3, <2>4, <2>5 DEF IngressInv
<1> QED BY <1>7, <1>8

-----------------------------------------------------------------------------
(* The theorems.                                                           *)

\* The invariant of the intake.
LEMMA IngressInvHolds == IngressSpec => []IngressInv
<1>1. IngressInit => IngressInv
  <2> SUFFICES ASSUME IngressInit PROVE IngressInv
    OBVIOUS
  <2>1. IngressTypeOK
    BY NoCallIsSound DEF IngressInit, IngressTypeOK, Signal, IntakeCase, HasCase
  <2>2. ASSUME NEW d \in Deliveries PROVE CallIsSound(delivery[d]) /\ ClaimIsSound(d)
    BY NoCallIsSound DEF IngressInit, ClaimIsSound, PastSignal
  <2>3. \A c \in CaseIds : CaseIsSound(c)
    BY DEF IngressInit, CaseIsSound
  <2> QED BY <2>1, <2>2, <2>3 DEF IngressInit, IngressInv, OneCasePerMessage
<1>2. IngressInv /\ IngressNext => IngressInv'
  <2> SUFFICES ASSUME IngressInv, IngressNext PROVE IngressInv'
    OBVIOUS
  <2>1. ASSUME NEW d \in Deliveries, DeliveryStep(d) PROVE IngressInv'
    BY <2>1, LookupKeepsInv, JoinKeepsInv, CaseStepsKeepInv, AnswersKeepInv,
       CreateSignalKeepsInv, CreateCaseKeepsInv DEF DeliveryStep
  <2> QED BY <2>1, ReceiveKeepsInv, AnswersKeepInv, CaseMovesKeepsInv DEF IngressNext
<1>3. IngressInv /\ UNCHANGED ingressVars => IngressInv'
  BY DEF ingressVars, IngressInv, IngressTypeOK, CallIsSound, ClaimIsSound, CaseIsSound, Belongs,
         OneCasePerMessage
<1> QED BY <1>1, <1>2, <1>3, PTL DEF IngressSpec

\* The signals, the cases, the deliveries and what they were answered have their types,
\* for any messages and any number of overlapping deliveries.
THEOREM IngressTypeCorrect == IngressSpec => []IngressTypeOK
<1>1. IngressInv => IngressTypeOK
  BY DEF IngressInv
<1> QED BY <1>1, IngressInvHolds, PTL

\* A message opens one case at most, whatever is delivered again, in whatever order
\* and wherever an earlier delivery broke off (the unique index of the signals).
THEOREM OneCasePerMessageHolds == IngressSpec => []OneCasePerMessage
<1>1. IngressInv => OneCasePerMessage
  BY DEF IngressInv
<1> QED BY <1>1, IngressInvHolds, PTL

\* A message is only put into the case of its own thread or session, for any
\* threads and any interleaving of deliveries with the life of the cases
\* (findOpenCaseByChannelThreadId(), appendChatMessage()).
THEOREM JoinsItsThreadHolds == IngressSpec => []JoinsItsThread
<1>1. IngressInv => JoinsItsThread
  BY DEF IngressInv, Belongs, JoinsItsThread
<1> QED BY <1>1, IngressInvHolds, PTL

-----------------------------------------------------------------------------
(* The replies of the operators of a chat session.                         *)

Recorded(o) == \E r \in thread : r.text = o /\ r.linked

\* A request that is past its own row has left it in the thread.
RecordedInv ==
  /\ IsFiniteSet(thread)
  /\ replier \in [Repliers -> [pc : ReplyPoints, index : Nat]]
  /\ told \subseteq Repliers
  /\ \A o \in Repliers :
       replier[o].pc \in {"move", "audit"} \/ o \in told => Recorded(o)

\* A request moves on to a point and keeps its number.
LEMMA ReplyToEffect ==
  ASSUME RecordedInv, NEW o \in Repliers, NEW point \in ReplyPoints, ReplyTo(o, point)
  PROVE  /\ replier' \in [Repliers -> [pc : ReplyPoints, index : Nat]]
         /\ \A p \in Repliers : replier'[p].pc = IF p = o THEN point ELSE replier[p].pc
BY DEF RecordedInv, ReplyTo

\* A linked row stays: only the unlinked row of a request is ever replaced.
LEMMA RecordedStays ==
  ASSUME NEW o \in Repliers, Recorded(o),
         \A r \in thread : r.linked => r \in thread'
  PROVE  Recorded(o)'
BY DEF Recorded

\* A step of an operator's request.
LEMMA ReplyKeepsRecorded ==
  ASSUME RecordedInv, NEW o \in Repliers,
         \/ PublishReply(o) \/ CountReplies(o) \/ InsertReply(o) \/ LinkReply(o)
         \/ TakeOver(o) \/ AuditReply(o) \/ ReplyFails(o)
  PROVE  RecordedInv'
<1>1. CASE PublishReply(o)
  BY <1>1, ReplyToEffect DEF PublishReply, RecordedInv, Recorded, ReplyPoints, ReplyAt
<1>2. CASE CountReplies(o)
  <2> DEFINE linked == {r \in thread : r.linked}
  <2>1. Cardinality(linked) \in Nat
    BY FS_Subset, FS_CardinalityType DEF RecordedInv
  <2>2. replier' = [replier EXCEPT ![o] = [pc |-> "insert", index |-> Cardinality(linked)]]
    BY <1>2 DEF CountReplies
  <2>3. replier' \in [Repliers -> [pc : ReplyPoints, index : Nat]]
    <3> HIDE DEF linked
    <3> QED BY <2>1, <2>2 DEF RecordedInv, ReplyPoints
  <2>4. \A p \in Repliers : replier'[p].pc = IF p = o THEN "insert" ELSE replier[p].pc
    <3> HIDE DEF linked
    <3> QED BY <2>2 DEF RecordedInv
  <2> QED BY <1>2, <2>3, <2>4 DEF CountReplies, RecordedInv, Recorded
<1>3. CASE InsertReply(o)
  <2>1. CASE NumberIsTaken(o)
    <3>1. ReplyTo(o, "idle") /\ UNCHANGED <<thread, told>>
      BY <1>3, <2>1 DEF InsertReply
    <3> QED BY <3>1, ReplyToEffect DEF RecordedInv, Recorded, ReplyPoints
  <2>2. CASE ~NumberIsTaken(o)
    <3>1. /\ ReplyTo(o, "link") /\ UNCHANGED told
          /\ thread' = thread \cup {ReplyRow(o, FALSE)}
      BY <1>3, <2>2 DEF InsertReply
    <3>2. IsFiniteSet(thread')
      BY <3>1, FS_AddElement DEF RecordedInv
    <3>3. \A p \in Repliers : Recorded(p) => Recorded(p)'
      BY <3>1, RecordedStays
    <3> QED BY <3>1, <3>2, <3>3, ReplyToEffect DEF RecordedInv, ReplyPoints
  <2> QED BY <2>1, <2>2
<1>4. CASE LinkReply(o)
  <2> DEFINE to == IF replier[o].index = 0 THEN "move" ELSE "audit"
  <2>1. /\ ReplyTo(o, to) /\ UNCHANGED told
        /\ thread' = (thread \ {ReplyRow(o, FALSE)}) \cup {ReplyRow(o, TRUE)}
    BY <1>4 DEF LinkReply
  <2>2. to \in ReplyPoints
    BY DEF ReplyPoints
  <2>3. IsFiniteSet(thread')
    BY <2>1, FS_AddElement, FS_RemoveElement DEF RecordedInv
  <2>4. \A p \in Repliers : Recorded(p) => Recorded(p)'
    BY <2>1, RecordedStays DEF ReplyRow
  <2>5. Recorded(o)'
    <3> DEFINE row == ReplyRow(o, TRUE)
    <3>1. row.text = o /\ row.linked = TRUE
      BY DEF ReplyRow
    <3>2. row \in thread'
      BY <2>1
    <3> QED BY <3>1, <3>2 DEF Recorded
  <2> HIDE DEF to
  <2> QED BY <2>1, <2>2, <2>3, <2>4, <2>5, ReplyToEffect DEF RecordedInv
<1>5. CASE TakeOver(o)
  BY <1>5, ReplyToEffect DEF TakeOver, RecordedInv, Recorded, ReplyPoints, ReplyAt
<1>6. CASE AuditReply(o)
  BY <1>6, ReplyToEffect DEF AuditReply, RecordedInv, Recorded, ReplyPoints, ReplyAt
<1>7. CASE ReplyFails(o)
  BY <1>7, ReplyToEffect DEF ReplyFails, RecordedInv, Recorded, ReplyPoints
<1> QED BY <1>1, <1>2, <1>3, <1>4, <1>5, <1>6, <1>7

\* Neither the widget nor the pipeline takes a reply out of the thread.
LEMMA OthersKeepRecorded ==
  ASSUME RecordedInv, WidgetNext \/ PipelineNext
  PROVE  RecordedInv'
<1>1. CASE WidgetNext
  <2>1. UNCHANGED replyVars
    BY <1>1 DEF WidgetNext, StartChat, OpenWindow, CloseWindow, LoadPage, Reconnect, StreamOpens,
         Unsubscribe, StreamFails, DeliverEvent, TypeMessage, SessionClosed, TakeMessage,
         RefuseMessage, MessageFails
  <2> QED BY <2>1 DEF replyVars, RecordedInv, Recorded
<1>2. CASE RecordAnswer
  <2> DEFINE row == [index |-> NoIndex, text |-> "answer", linked |-> TRUE]
  <2>1. UNCHANGED <<replier, told>> /\ thread' \in {thread, thread \cup {row}}
    BY <1>2 DEF RecordAnswer
  <2> HIDE DEF row
  <2>2. IsFiniteSet(thread')
    BY <2>1, FS_AddElement DEF RecordedInv
  <2>3. \A p \in Repliers : Recorded(p) => Recorded(p)'
    BY <2>1, RecordedStays
  <2> QED BY <2>1, <2>2, <2>3 DEF RecordedInv
<1>3. ASSUME PipelineNext, ~RecordAnswer PROVE RecordedInv'
  <2>1. UNCHANGED replyVars
    BY <1>3 DEF PipelineNext, ChatTriaged, ChatRouted, ChatAnswered, PushAnswer, ChatJobFails,
         ResolveChat
  <2> QED BY <2>1 DEF replyVars, RecordedInv, Recorded
<1> QED BY <1>1, <1>2, <1>3

\* A restart drops the requests, never a row.
LEMMA RestartKeepsRecorded ==
  ASSUME RecordedInv, ServerRestarts
  PROVE  RecordedInv'
<1>1. replier' = [o \in Repliers |-> [replier[o] EXCEPT !.pc = "idle"]]
  BY DEF ServerRestarts
<1>2. /\ replier' \in [Repliers -> [pc : ReplyPoints, index : Nat]]
      /\ \A o \in Repliers : replier'[o].pc = "idle"
  BY <1>1 DEF RecordedInv, ReplyPoints
<1> QED BY <1>2 DEF ServerRestarts, RecordedInv, Recorded

\* What was told was recorded before.
LEMMA RecordedInvHolds == ChatSpec => []RecordedInv
<1>1. ChatInit => RecordedInv
  BY FS_EmptySet DEF ChatInit, RecordedInv, ReplyPoints
<1>2. RecordedInv /\ ChatNext => RecordedInv'
  BY ReplyKeepsRecorded, OthersKeepRecorded, RestartKeepsRecorded DEF ChatNext, ReplyNext
<1>3. RecordedInv /\ UNCHANGED chatVars => RecordedInv'
  BY DEF chatVars, replyVars, RecordedInv, Recorded
<1> QED BY <1>1, <1>2, <1>3, PTL DEF ChatSpec

\* A reply whose operator was told that it is sent is in the conversation thread,
\* for any operators and any number of attempts, with the number of a reply taken
\* by another one meanwhile, and with restarts (POST chat/reply, api/v1/chat.ts).
THEOREM ToldIsRecordedHolds == ChatSpec => []ToldIsRecorded
<1>1. RecordedInv => ToldIsRecorded
  BY DEF RecordedInv, Recorded, ToldIsRecorded
<1> QED BY <1>1, RecordedInvHolds, PTL

-----------------------------------------------------------------------------
(* The events on their way to the page.                                    *)

\* The places of a message in a queue.
Places(m, q) == {k \in 1..Len(q) : q[k] = m}
Times(m, q) == Cardinality(Places(m, q))

LEMMA PlacesAreFinite ==
  ASSUME NEW T, NEW q \in Seq(T), NEW m
  PROVE  IsFiniteSet(Places(m, q)) /\ Times(m, q) \in Nat
<1>1. Len(q) \in Nat
  BY LenProperties
<1>2. IsFiniteSet(1..Len(q))
  BY <1>1, FS_Interval
<1>3. Places(m, q) \in SUBSET (1..Len(q))
  BY DEF Places
<1>4. IsFiniteSet(Places(m, q))
  BY <1>2, <1>3, FS_Subset
<1> QED BY <1>4, FS_CardinalityType DEF Times

\* A message that is appended is there once more, any other as often as before.
LEMMA TimesOfAppend ==
  ASSUME NEW T, NEW q \in Seq(T), NEW e \in T, NEW m
  PROVE  Times(m, Append(q, e)) = IF e = m THEN Times(m, q) + 1 ELSE Times(m, q)
<1>1. /\ Len(q) \in Nat /\ Len(Append(q, e)) = Len(q) + 1
      /\ \A k \in 1..Len(q) : Append(q, e)[k] = q[k]
      /\ Append(q, e)[Len(q) + 1] = e
  BY AppendProperties, LenProperties
<1>2. 1..(Len(q) + 1) = (1..Len(q)) \cup {Len(q) + 1} /\ Len(q) + 1 \notin 1..Len(q)
  BY <1>1
<1>3. Places(m, Append(q, e)) =
        IF e = m THEN Places(m, q) \cup {Len(q) + 1} ELSE Places(m, q)
  BY <1>1, <1>2 DEF Places
<1>4. Len(q) + 1 \notin Places(m, q)
  BY <1>2 DEF Places
<1> QED BY <1>3, <1>4, PlacesAreFinite, FS_AddElement DEF Times

\* The head that is taken away is there once less, any other message as often as before.
LEMMA TimesOfTail ==
  ASSUME NEW T, NEW q \in Seq(T), q # <<>>, NEW m
  PROVE  Times(m, q) = IF Head(q) = m THEN Times(m, Tail(q)) + 1 ELSE Times(m, Tail(q))
<1> DEFINE later == Places(m, q) \ {1}
           shift == [k \in Places(m, Tail(q)) |-> k + 1]
<1>1. /\ Len(q) \in Nat \ {0} /\ Tail(q) \in Seq(T) /\ Len(Tail(q)) = Len(q) - 1
      /\ \A k \in 1..Len(Tail(q)) : Tail(q)[k] = q[k + 1]
      /\ Head(q) = q[1]
  BY EmptySeq, HeadTailProperties, LenProperties
<1>2. IsFiniteSet(Places(m, q)) /\ IsFiniteSet(Places(m, Tail(q)))
  BY <1>1, PlacesAreFinite
<1>3. shift \in Bijection(Places(m, Tail(q)), later)
  <2>1. shift \in [Places(m, Tail(q)) -> later]
    BY <1>1 DEF Places
  <2>2. \A j, k \in Places(m, Tail(q)) : shift[j] = shift[k] => j = k
    BY <1>1 DEF Places
  <2>3. \A k \in later : \E j \in Places(m, Tail(q)) : shift[j] = k
    <3> SUFFICES ASSUME NEW k \in later
                 PROVE  \E j \in Places(m, Tail(q)) : shift[j] = k
      OBVIOUS
    <3>1. k \in 1..Len(q) /\ k # 1 /\ q[k] = m
      BY DEF Places
    <3>2. k - 1 \in 1..Len(Tail(q)) /\ Tail(q)[k - 1] = q[(k - 1) + 1] /\ (k - 1) + 1 = k
      BY <1>1, <3>1
    <3>3. k - 1 \in Places(m, Tail(q))
      BY <3>1, <3>2 DEF Places
    <3> QED BY <3>2, <3>3
  <2> QED BY <2>1, <2>2, <2>3, Fun_IsBij
<1>4. Cardinality(later) = Times(m, Tail(q))
  BY <1>2, <1>3, FS_Bijection DEF ExistsBijection, Times
<1>5. Cardinality(later) = IF Head(q) = m THEN Times(m, q) - 1 ELSE Times(m, q)
  <2>1. Cardinality(later) = IF 1 \in Places(m, q) THEN Times(m, q) - 1 ELSE Times(m, q)
    BY <1>2, FS_RemoveElement DEF Times
  <2>2. 1 \in Places(m, q) <=> Head(q) = m
    BY <1>1 DEF Places
  <2> QED BY <2>1, <2>2
<1>6. Times(m, q) \in Nat /\ Times(m, Tail(q)) \in Nat
  BY <1>1, PlacesAreFinite
<1> QED BY <1>4, <1>5, <1>6

PageTypes ==
  /\ page \in Page
  /\ stream \in [Streams -> StreamStates]
  /\ wire \in [Streams -> Seq(ChatMessages)]
  /\ shown \in [ChatMessages -> Nat]
  /\ typed \in [VisitorTexts -> {"unsent", "sent", "left", "closed", "done"}]
  /\ asked \in [Repliers -> Nat]
  /\ chatJob \in ChatJob
  /\ JobAt("push") => chatJob.plan \in {"answer", "ack"}

\* The page has one connection, and events wait on no other.
SourceIsCurrent ==
  \A s \in Streams :
    /\ s \in Sources => page.evtSource = s
    /\ s \notin Sources => wire[s] = <<>>

\* What is shown and what is still on its way was sent.
NoneTooMany ==
  /\ \A m \in VisitorTexts : shown[m] <= IF typed[m] = "unsent" THEN 0 ELSE 1
  /\ \A o \in Repliers : shown[o] <= asked[o]
  /\ \A o \in Repliers, s \in Streams : shown[o] + Times(o, wire[s]) <= asked[o]

ShownInv == PageTypes /\ SourceIsCurrent /\ NoneTooMany

LEMMA TimesOfNone == \A m : Times(m, <<>>) = 0
<1>1. \A m : Places(m, <<>>) = {}
  BY DEF Places
<1> QED BY <1>1, FS_EmptySet DEF Times

\* The page closes connections and opens one: those left open are the one it keeps.
LEMMA SwitchEffect ==
  ASSUME PageTypes, SourceIsCurrent, NEW closed \in SUBSET Streams, SwitchStreams(closed),
         \A s \in Sources \ closed : page'.evtSource = s
  PROVE  /\ stream' \in [Streams -> StreamStates]
         /\ wire' \in [Streams -> Seq(ChatMessages)]
         /\ SourceIsCurrent'
         /\ \A s \in Streams : wire'[s] \in {wire[s], <<>>}
<1>1. /\ stream' = [s \in Streams |->
            IF s \in closed THEN IF stream[s] = "open" THEN "cut" ELSE "free"
            ELSE IF page'.evtSource = s /\ stream[s] = "free" THEN "asked" ELSE stream[s]]
      /\ wire' = [s \in Streams |-> IF s \in closed THEN <<>> ELSE wire[s]]
  BY DEF SwitchStreams
<1>2. stream' \in [Streams -> StreamStates]
  BY <1>1 DEF PageTypes, StreamStates
<1>3. <<>> \in Seq(ChatMessages)
  BY EmptySeq
<1>4. wire' \in [Streams -> Seq(ChatMessages)]
  BY <1>1, <1>3 DEF PageTypes
<1>5. SourceIsCurrent'
  BY <1>1 DEF SourceIsCurrent, Sources
<1> QED BY <1>1, <1>2, <1>4, <1>5

\* connectSSE() changes nothing but the connection, and that only if there is none.
LEMMA ConnectedEffect ==
  ASSUME NEW p \in Page, NEW q \in Connected(p)
  PROVE  /\ q \in Page
         /\ q.evtSource = p.evtSource \/ p.evtSource = NoStream
BY DEF Connected, Page

\* A step that shows nothing and sends nothing.
LEMMA NothingShown ==
  ASSUME NoneTooMany, PageTypes, UNCHANGED <<shown, asked>>,
         \A s \in Streams : wire'[s] \in {wire[s], <<>>},
         \A m \in VisitorTexts : typed'[m] = "unsent" => typed[m] = "unsent"
  PROVE  NoneTooMany'
<1>1. \A o \in Repliers : shown[o] \in Nat /\ asked[o] \in Nat
  BY DEF PageTypes, ChatMessages
<1>2. \A m \in VisitorTexts : shown[m] \in Nat
  BY DEF PageTypes, ChatMessages
<1>3. \A m \in VisitorTexts : shown'[m] <= IF typed'[m] = "unsent" THEN 0 ELSE 1
  BY <1>2 DEF NoneTooMany
<1>4. \A o \in Repliers, s \in Streams : shown'[o] + Times(o, wire'[s]) <= asked'[o]
  BY <1>1, TimesOfNone DEF NoneTooMany
<1> QED BY <1>3, <1>4 DEF NoneTooMany

\* An event on the open connections: a source stays one, and no other has events.
LEMMA PublishedEffect ==
  ASSUME PageTypes, SourceIsCurrent, NEW e \in ChatMessages, wire' = Published(e),
         UNCHANGED <<page, stream>>
  PROVE  /\ wire' \in [Streams -> Seq(ChatMessages)]
         /\ SourceIsCurrent'
         /\ \A o \in Repliers, s \in Streams :
              Times(o, wire'[s]) = Times(o, wire[s])
                \/ (e = o /\ Times(o, wire'[s]) = Times(o, wire[s]) + 1)
<1>1. wire' = [s \in Streams |-> IF stream[s] = "open" THEN Append(wire[s], e) ELSE wire[s]]
  BY DEF Published
<1>2. \A s \in Streams : wire[s] \in Seq(ChatMessages)
  BY DEF PageTypes
<1>3. \A s \in Streams : Append(wire[s], e) \in Seq(ChatMessages)
  BY <1>2, AppendProperties
<1>4. wire' \in [Streams -> Seq(ChatMessages)]
  BY <1>1, <1>2, <1>3
<1>5. SourceIsCurrent'
  BY <1>1 DEF SourceIsCurrent, Sources
<1>6. \A o \in Repliers, s \in Streams :
        Times(o, Append(wire[s], e)) = IF e = o THEN Times(o, wire[s]) + 1 ELSE Times(o, wire[s])
  BY <1>2, TimesOfAppend
<1> QED BY <1>1, <1>4, <1>5, <1>6

\* The steps of the page that open or close connections.
LEMMA WidgetKeepsShown ==
  ASSUME ShownInv, StartChat \/ OpenWindow \/ CloseWindow \/ Reconnect
  PROVE  ShownInv'
<1> USE DEF ShownInv
<1>1. page.evtSource \in Streams \/ page.evtSource = NoStream
  BY DEF PageTypes, Page
<1>2. ASSUME NEW p \in Page, p.evtSource = page.evtSource, page' \in Connected(p), SwitchStreams({}),
             chatJob' \in ChatJob, chatJob'.pc # "push" \/ chatJob' = chatJob,
             UNCHANGED <<shown, typed, asked>>
      PROVE  ShownInv'
  <2>1. page' \in Page /\ (page'.evtSource = page.evtSource \/ page.evtSource = NoStream)
    BY <1>2, ConnectedEffect
  <2>2. \A s \in Sources \ {} : page'.evtSource = s
    BY <2>1, ChatAssumption DEF SourceIsCurrent, Sources
  <2>3. /\ stream' \in [Streams -> StreamStates]
        /\ wire' \in [Streams -> Seq(ChatMessages)]
        /\ SourceIsCurrent'
        /\ \A s \in Streams : wire'[s] \in {wire[s], <<>>}
    BY <1>2, <2>2, SwitchEffect
  <2>4. NoneTooMany'
    BY <1>2, <2>3, NothingShown
  <2>5. PageTypes'
    BY <1>2, <2>1, <2>3 DEF PageTypes, JobAt
  <2> QED BY <2>3, <2>4, <2>5
<1>3. CASE StartChat
  <2> DEFINE p == [page EXCEPT !.sessionId = "held"]
  <2>1. p \in Page /\ p.evtSource = page.evtSource
    BY DEF PageTypes, Page
  <2>2. chatJob' \in ChatJob /\ (chatJob'.pc # "push" \/ chatJob' = chatJob)
    <3>1. \/ chatJob' = [pc |-> "triage", payload |-> {"signalText", "signalId"}, plan |-> "none"]
          \/ chatJob' = chatJob
      BY <1>3 DEF StartChat, caseVars, NoChatJob
    <3> QED BY <3>1 DEF PageTypes, ChatJob, ChatJobPoints
  <2>3. page' \in Connected(p) /\ SwitchStreams({}) /\ UNCHANGED <<shown, typed, asked>>
    BY <1>3 DEF StartChat, replyVars
  <2> HIDE DEF p
  <2> QED BY <1>2, <2>1, <2>2, <2>3
<1>4. CASE OpenWindow
  <2> DEFINE p == [page EXCEPT !.isOpen = TRUE]
  <2>1. p \in Page /\ p.evtSource = page.evtSource
    BY DEF PageTypes, Page
  <2>2. /\ page' \in Connected(p) /\ SwitchStreams({})
        /\ UNCHANGED <<shown, typed, asked, chatJob>>
    BY <1>4 DEF OpenWindow, replyVars, caseVars
  <2> HIDE DEF p
  <2> QED BY <1>2, <2>1, <2>2 DEF PageTypes
<1>5. CASE CloseWindow
  <2>1. page' \in Page /\ page'.evtSource = page.evtSource
    BY <1>5 DEF CloseWindow, PageTypes, Page
  <2>2. UNCHANGED <<stream, wire, shown, typed, asked, chatJob>>
    BY <1>5 DEF CloseWindow, replyVars, caseVars
  <2>3. PageTypes'
    BY <2>1, <2>2 DEF PageTypes, JobAt
  <2>4. SourceIsCurrent'
    BY <2>1, <2>2 DEF SourceIsCurrent, Sources
  <2>5. NoneTooMany'
    BY <2>2 DEF NoneTooMany
  <2> QED BY <2>3, <2>4, <2>5
<1>6. CASE Reconnect
  <2> DEFINE p == [page EXCEPT !.reconnect = FALSE]
  <2>1. p \in Page /\ p.evtSource = page.evtSource
    BY DEF PageTypes, Page
  <2>2. /\ page' \in Connected(p) \/ page' = p
        /\ SwitchStreams({}) /\ UNCHANGED <<shown, typed, asked, chatJob>>
    BY <1>6 DEF Reconnect, replyVars, caseVars
  <2>3. ASSUME page' = p PROVE ShownInv'
    <3>1. \A s \in Sources \ {} : page'.evtSource = s
      BY <2>1, <2>3 DEF SourceIsCurrent, Sources
    <3>2. /\ stream' \in [Streams -> StreamStates]
          /\ wire' \in [Streams -> Seq(ChatMessages)]
          /\ SourceIsCurrent'
          /\ \A s \in Streams : wire'[s] \in {wire[s], <<>>}
      BY <2>2, <3>1, SwitchEffect
    <3>3. NoneTooMany'
      BY <2>2, <3>2, NothingShown
    <3>4. PageTypes'
      BY <2>1, <2>2, <2>3, <3>2 DEF PageTypes, JobAt
    <3> QED BY <3>2, <3>3, <3>4
  <2> HIDE DEF p
  <2> QED BY <1>2, <2>1, <2>2, <2>3 DEF PageTypes
<1> QED BY <1>3, <1>4, <1>5, <1>6

\* A page that is loaded again shows nothing; what it had asked is not sent again.
LEMMA LoadKeepsShown ==
  ASSUME ShownInv, LoadPage
  PROVE  ShownInv'
<1> DEFINE p == [NewPage EXCEPT !.sessionId = "held"]
<1> USE DEF ShownInv
<1>1. p \in Page /\ p.evtSource = NoStream
  BY DEF NewPage, Page
<1>2. /\ page' \in Connected(p) /\ SwitchStreams(Sources) /\ UNCHANGED <<asked, chatJob>>
      /\ shown' = [m \in ChatMessages |-> 0]
      /\ typed' = [m \in VisitorTexts |->
           CASE typed[m] = "sent" -> "left" [] typed[m] = "closed" -> "done" [] OTHER -> typed[m]]
  BY DEF LoadPage, replyVars, caseVars
<1> HIDE DEF p
<1>3. page' \in Page
  BY <1>1, <1>2, ConnectedEffect
<1>4. Sources \in SUBSET Streams /\ \A s \in Sources \ Sources : page'.evtSource = s
  BY DEF Sources
<1>5. /\ stream' \in [Streams -> StreamStates]
      /\ wire' \in [Streams -> Seq(ChatMessages)]
      /\ SourceIsCurrent'
      /\ \A s \in Streams : wire'[s] \in {wire[s], <<>>}
  BY <1>2, <1>4, SwitchEffect
<1>6. PageTypes'
  BY <1>2, <1>3, <1>5 DEF PageTypes, JobAt
<1>7. \A o \in Repliers, s \in Streams :
        /\ Times(o, wire[s]) \in Nat /\ shown[o] \in Nat /\ asked[o] \in Nat
        /\ shown[o] + Times(o, wire[s]) <= asked[o]
  BY PlacesAreFinite DEF NoneTooMany, PageTypes, ChatMessages
<1>8. \A o \in Repliers, s \in Streams : 0 + Times(o, wire'[s]) <= asked[o]
  BY <1>5, <1>7, TimesOfNone
<1>9. NoneTooMany'
  <2>1. \A m \in VisitorTexts : shown'[m] <= IF typed'[m] = "unsent" THEN 0 ELSE 1
    BY <1>2 DEF ChatMessages
  <2>2. \A o \in Repliers : shown'[o] = 0 /\ asked'[o] \in Nat
    BY <1>2 DEF ChatMessages, PageTypes
  <2> QED BY <1>2, <1>8, <2>1, <2>2 DEF NoneTooMany
<1> QED BY <1>5, <1>6, <1>9

\* A step of a connection.
LEMMA StreamKeepsShown ==
  ASSUME ShownInv, NEW s \in Streams,
         StreamOpens(s) \/ Unsubscribe(s) \/ StreamFails(s) \/ DeliverEvent(s)
  PROVE  ShownInv'
<1> USE DEF ShownInv
<1>1. ASSUME StreamOpens(s) \/ Unsubscribe(s) PROVE ShownInv'
  <2>1. \/ stream[s] = "asked" /\ stream' = [stream EXCEPT ![s] = "open"]
        \/ stream[s] = "open" /\ stream' = [stream EXCEPT ![s] = "ended"]
        \/ stream[s] = "cut" /\ stream' = [stream EXCEPT ![s] = "free"]
    BY <1>1 DEF StreamOpens, Unsubscribe, PageTypes
  <2>2. UNCHANGED <<page, wire, shown, typed, asked, chatJob>>
    BY <1>1 DEF StreamOpens, Unsubscribe, replyVars, caseVars
  <2>3. PageTypes'
    BY <2>1, <2>2 DEF PageTypes, StreamStates, JobAt
  <2>4. SourceIsCurrent'
    BY <2>1, <2>2 DEF SourceIsCurrent, Sources, PageTypes
  <2>5. NoneTooMany'
    BY <2>2 DEF NoneTooMany
  <2> QED BY <2>3, <2>4, <2>5
<1>2. CASE StreamFails(s)
  <2> DEFINE closed == {s} \cup ({page.evtSource} \ {NoStream})
  <2>1. /\ page' = [page EXCEPT !.evtSource = NoStream, !.reconnect = TRUE]
        /\ SwitchStreams(closed) /\ UNCHANGED <<shown, typed, asked, chatJob>>
    BY <1>2 DEF StreamFails, replyVars, caseVars
  <2>2. closed \in SUBSET Streams /\ \A t \in Sources \ closed : page'.evtSource = t
    BY ChatAssumption DEF SourceIsCurrent, Sources, PageTypes, Page
  <2> HIDE DEF closed
  <2>3. /\ stream' \in [Streams -> StreamStates]
        /\ wire' \in [Streams -> Seq(ChatMessages)]
        /\ SourceIsCurrent'
        /\ \A t \in Streams : wire'[t] \in {wire[t], <<>>}
    BY <2>1, <2>2, SwitchEffect
  <2>4. NoneTooMany'
    BY <2>1, <2>3, NothingShown
  <2>5. page' \in Page
    BY <2>1 DEF PageTypes, Page
  <2>6. PageTypes'
    BY <2>1, <2>3, <2>5 DEF PageTypes, JobAt
  <2> QED BY <2>3, <2>4, <2>6
<1>3. CASE DeliverEvent(s)
  <2> DEFINE e == Head(wire[s])
  <2>1. /\ s \in Sources /\ wire[s] # <<>> /\ wire' = [wire EXCEPT ![s] = Tail(@)]
        /\ UNCHANGED <<page, stream, typed, asked, chatJob>>
    BY <1>3 DEF DeliverEvent, replyVars, caseVars
  <2>2. wire[s] \in Seq(ChatMessages) /\ e \in ChatMessages /\ Tail(wire[s]) \in Seq(ChatMessages)
    BY <2>1, HeadTailProperties DEF PageTypes
  <2>3. shown' = IF e \in Repliers THEN [shown EXCEPT ![e] = @ + 1] ELSE shown
    BY <1>3 DEF DeliverEvent, Displays, Role
  <2>4. \A o \in Repliers :
          Times(o, wire[s]) = IF e = o THEN Times(o, Tail(wire[s])) + 1 ELSE Times(o, Tail(wire[s]))
    BY <2>1, <2>2, TimesOfTail
  <2> HIDE DEF e
  <2>5. /\ wire' \in [Streams -> Seq(ChatMessages)]
        /\ shown' \in [ChatMessages -> Nat]
    BY <2>1, <2>2, <2>3 DEF PageTypes
  <2>6. PageTypes'
    BY <2>1, <2>5 DEF PageTypes, JobAt
  <2>7. SourceIsCurrent'
    BY <2>1 DEF SourceIsCurrent, Sources, PageTypes
  <2>8. \A t \in Streams \ {s} : wire'[t] = <<>>
    BY <2>1 DEF SourceIsCurrent, Sources, PageTypes
  <2>9. \A m \in VisitorTexts : shown'[m] = shown[m]
    BY <2>3, ChatAssumption DEF PageTypes, ChatMessages
  <2>10. \A o \in Repliers : shown'[o] + Times(o, wire'[s]) = shown[o] + Times(o, wire[s])
    <3>1. \A o \in Repliers : shown[o] \in Nat /\ shown'[o] = IF e = o THEN shown[o] + 1 ELSE shown[o]
      BY <2>3 DEF PageTypes, ChatMessages
    <3>2. \A o \in Repliers : Times(o, Tail(wire[s])) \in Nat
      BY <2>2, PlacesAreFinite
    <3>3. wire'[s] = Tail(wire[s])
      BY <2>1 DEF PageTypes
    <3> QED BY <2>4, <3>1, <3>2, <3>3
  <2>11. \A o \in Repliers : shown'[o] \in Nat /\ asked[o] \in Nat /\ Times(o, wire'[s]) \in Nat
    BY <2>5, PlacesAreFinite DEF PageTypes, ChatMessages
  <2>12. \A o \in Repliers : shown'[o] <= asked[o] /\ shown'[o] + Times(o, wire'[s]) <= asked[o]
    BY <2>10, <2>11 DEF NoneTooMany
  <2>13. \A o \in Repliers, t \in Streams : shown'[o] + Times(o, wire'[t]) <= asked[o]
    <3>1. \A o \in Repliers, t \in Streams \ {s} : shown'[o] + Times(o, wire'[t]) <= asked[o]
      BY <2>8, <2>11, <2>12, TimesOfNone
    <3> QED BY <2>12, <3>1
  <2>14. NoneTooMany'
    BY <2>1, <2>9, <2>12, <2>13 DEF NoneTooMany
  <2> QED BY <2>6, <2>7, <2>14
<1> QED BY <1>1, <1>2, <1>3

\* A message that is published and is not a reply changes no count of a reply.
LEMMA PublishedKeepsShown ==
  ASSUME ShownInv, NEW e \in ChatMessages \ Repliers, wire' = Published(e),
         UNCHANGED <<page, stream, shown, asked>>,
         \A m \in VisitorTexts : typed'[m] = "unsent" => typed[m] = "unsent"
  PROVE  SourceIsCurrent' /\ NoneTooMany' /\ wire' \in [Streams -> Seq(ChatMessages)]
<1>1. PageTypes /\ SourceIsCurrent /\ NoneTooMany
  BY DEF ShownInv
<1>2. /\ wire' \in [Streams -> Seq(ChatMessages)]
      /\ SourceIsCurrent'
      /\ \A o \in Repliers, s \in Streams : Times(o, wire'[s]) = Times(o, wire[s])
  BY <1>1, PublishedEffect
<1>3. \A m \in VisitorTexts : shown[m] \in Nat
  BY <1>1 DEF PageTypes, ChatMessages
<1> QED BY <1>1, <1>2, <1>3 DEF NoneTooMany

\* A message of the visitor, from the key to the answer of the request.
LEMMA MessageKeepsShown ==
  ASSUME ShownInv, NEW m \in VisitorTexts,
         \/ TypeMessage(m) \/ SessionClosed(m) \/ TakeMessage(m) \/ RefuseMessage(m)
         \/ MessageFails(m)
  PROVE  ShownInv'
<1> USE DEF ShownInv
<1>1. CASE TypeMessage(m)
  <2>1. /\ typed[m] = "unsent" /\ typed' = [typed EXCEPT ![m] = "sent"]
        /\ shown' = [shown EXCEPT ![m] = @ + 1]
        /\ UNCHANGED <<page, stream, wire, asked, chatJob>>
    BY <1>1 DEF TypeMessage, replyVars, caseVars
  <2>2. m \in ChatMessages /\ shown[m] \in Nat /\ shown[m] <= 0
    BY <2>1 DEF PageTypes, ChatMessages, NoneTooMany
  <2>3. PageTypes'
    BY <2>1, <2>2 DEF PageTypes, JobAt
  <2>4. SourceIsCurrent'
    BY <2>1 DEF SourceIsCurrent, Sources
  <2>5. \A o \in Repliers : shown'[o] = shown[o]
    BY <2>1, ChatAssumption DEF PageTypes, ChatMessages
  <2>6. \A n \in VisitorTexts : shown'[n] <= IF typed'[n] = "unsent" THEN 0 ELSE 1
    BY <2>1, <2>2 DEF PageTypes, ChatMessages, NoneTooMany
  <2>7. NoneTooMany'
    BY <2>1, <2>5, <2>6 DEF NoneTooMany
  <2> QED BY <2>3, <2>4, <2>7
<1>2. CASE SessionClosed(m)
  <2> DEFINE closed == {page.evtSource} \ {NoStream}
  <2>1. /\ page' = [page EXCEPT !.sessionId = "ended", !.evtSource = NoStream]
        /\ typed' = [typed EXCEPT ![m] = "done"]
        /\ SwitchStreams(closed) /\ UNCHANGED <<shown, asked, chatJob>>
    BY <1>2 DEF SessionClosed, replyVars, caseVars
  <2>2. closed \in SUBSET Streams /\ \A t \in Sources \ closed : page'.evtSource = t
    BY ChatAssumption DEF SourceIsCurrent, Sources, PageTypes, Page
  <2> HIDE DEF closed
  <2>3. /\ stream' \in [Streams -> StreamStates]
        /\ wire' \in [Streams -> Seq(ChatMessages)]
        /\ SourceIsCurrent'
        /\ \A t \in Streams : wire'[t] \in {wire[t], <<>>}
    BY <2>1, <2>2, SwitchEffect
  <2>4. \A n \in VisitorTexts : typed'[n] = "unsent" => typed[n] = "unsent"
    BY <2>1 DEF PageTypes
  <2>5. NoneTooMany'
    BY <2>1, <2>3, <2>4, NothingShown
  <2>6. page' \in Page
    BY <2>1 DEF PageTypes, Page
  <2>7. PageTypes'
    BY <2>1, <2>3, <2>6 DEF PageTypes, JobAt
  <2> QED BY <2>3, <2>5, <2>7
<1>3. CASE TakeMessage(m)
  <2>1. /\ typed' = [typed EXCEPT ![m] = "done"] /\ wire' = Published(m)
        /\ UNCHANGED <<page, stream, shown, asked, chatJob>>
    BY <1>3 DEF TakeMessage, replyVars, caseVars
  <2>2. m \in ChatMessages \ Repliers
    BY ChatAssumption DEF ChatMessages
  <2>3. \A n \in VisitorTexts : typed'[n] = "unsent" => typed[n] = "unsent"
    BY <2>1 DEF PageTypes
  <2>4. SourceIsCurrent' /\ NoneTooMany' /\ wire' \in [Streams -> Seq(ChatMessages)]
    BY <2>1, <2>2, <2>3, PublishedKeepsShown
  <2>5. PageTypes'
    BY <2>1, <2>4 DEF PageTypes, JobAt
  <2> QED BY <2>4, <2>5
<1>4. ASSUME RefuseMessage(m) \/ MessageFails(m) PROVE ShownInv'
  <2>1. /\ typed' = [typed EXCEPT ![m] = "done"] \/ typed' = [typed EXCEPT ![m] = "closed"]
        /\ UNCHANGED <<page, stream, wire, shown, asked, chatJob>>
    BY <1>4 DEF RefuseMessage, MessageFails, streamVars, replyVars, caseVars, PageTypes
  <2>2. PageTypes'
    BY <2>1 DEF PageTypes, JobAt
  <2>3. SourceIsCurrent'
    BY <2>1 DEF SourceIsCurrent, Sources
  <2>4. \A n \in VisitorTexts : typed'[n] = "unsent" => typed[n] = "unsent"
    BY <2>1 DEF PageTypes
  <2>5. NoneTooMany'
    BY <2>1, <2>4, NothingShown
  <2> QED BY <2>2, <2>3, <2>5
<1> QED BY <1>1, <1>2, <1>3, <1>4

\* The text is counted as sent in the same step that publishes it.
LEMMA PublishReplyKeepsShown ==
  ASSUME ShownInv, NEW o \in Repliers, PublishReply(o)
  PROVE  ShownInv'
<1> USE DEF ShownInv
<1>1. /\ asked' = [asked EXCEPT ![o] = @ + 1] /\ wire' = Published(o)
      /\ UNCHANGED <<page, stream, shown, typed, chatJob>>
  BY DEF PublishReply, caseVars
<1>2. o \in ChatMessages
  BY DEF ChatMessages
<1>3. /\ wire' \in [Streams -> Seq(ChatMessages)]
      /\ SourceIsCurrent'
      /\ \A p \in Repliers, s \in Streams :
           Times(p, wire'[s]) = Times(p, wire[s])
             \/ (o = p /\ Times(p, wire'[s]) = Times(p, wire[s]) + 1)
  BY <1>1, <1>2, PublishedEffect
<1>4. asked' \in [Repliers -> Nat] /\ \A p \in Repliers : asked'[p] = IF p = o THEN asked[p] + 1 ELSE asked[p]
  BY <1>1 DEF PageTypes
<1>5. PageTypes'
  BY <1>1, <1>3, <1>4 DEF PageTypes, JobAt
<1>6. \A p \in Repliers, s \in Streams :
        shown[p] \in Nat /\ asked[p] \in Nat /\ Times(p, wire[s]) \in Nat
  BY PlacesAreFinite DEF PageTypes, ChatMessages
<1>7. \A p \in Repliers : shown[p] <= asked'[p]
  <2>1. \A p \in Repliers : shown[p] \in Nat /\ asked[p] \in Nat
    BY DEF PageTypes, ChatMessages
  <2> QED BY <1>4, <2>1 DEF NoneTooMany
<1>8. \A p \in Repliers, s \in Streams : shown[p] + Times(p, wire'[s]) <= asked'[p]
  BY <1>3, <1>4, <1>6 DEF NoneTooMany
<1>9. NoneTooMany'
  BY <1>1, <1>7, <1>8 DEF NoneTooMany
<1> QED BY <1>3, <1>5, <1>9

\* The other steps of the server show and send no reply.
LEMMA ServerKeepsShown ==
  ASSUME ShownInv,
         \/ PipelineNext \/ ServerRestarts
         \/ \E o \in Repliers : \/ CountReplies(o) \/ InsertReply(o) \/ LinkReply(o)
                                \/ TakeOver(o) \/ AuditReply(o) \/ ReplyFails(o)
  PROVE  ShownInv'
<1> USE DEF ShownInv
<1>1. ASSUME UNCHANGED <<page, stream, wire, shown, typed, asked>>,
             chatJob' \in ChatJob, chatJob'.pc = "push" => chatJob'.plan \in {"answer", "ack"}
      PROVE  ShownInv'
  <2>1. PageTypes'
    BY <1>1 DEF PageTypes, JobAt
  <2>2. SourceIsCurrent' /\ NoneTooMany'
    BY <1>1 DEF SourceIsCurrent, Sources, NoneTooMany
  <2> QED BY <2>1, <2>2
<1>2. ASSUME NEW o \in Repliers,
             \/ CountReplies(o) \/ InsertReply(o) \/ LinkReply(o)
             \/ TakeOver(o) \/ AuditReply(o) \/ ReplyFails(o)
      PROVE  ShownInv'
  <2>1. UNCHANGED <<page, stream, wire, shown, typed, asked, chatJob>>
    BY <1>2 DEF CountReplies, InsertReply, LinkReply, TakeOver, AuditReply, ReplyFails, streamVars,
         caseVars
  <2> QED BY <1>1, <2>1 DEF PageTypes, JobAt
<1>3. ASSUME PipelineNext, ~PushAnswer PROVE ShownInv'
  <2>1. UNCHANGED <<page, stream, wire, shown, typed, asked>>
    BY <1>3 DEF PipelineNext, ChatTriaged, ChatRouted, ChatAnswered, RecordAnswer, ChatJobFails,
         ResolveChat, streamVars, replyVars
  <2>2. chatJob \in [pc : ChatJobPoints, payload : SUBSET {"signalText", "signalId", "sessionId"},
                     plan : {"none", "answer", "ack"}]
    BY DEF PageTypes, ChatJob
  <2>3. chatJob' \in ChatJob /\ (chatJob'.pc = "push" => chatJob'.plan \in {"answer", "ack"})
    <3>1. ASSUME ChatTriaged \/ ChatRouted
          PROVE  /\ chatJob'.pc \in {"route", "reply"}
                 /\ chatJob' \in ChatJob
      <4>1. PassedOn(chatJob.payload) \in SUBSET {"signalText", "signalId", "sessionId"}
        BY DEF PassedOn
      <4>2. \E pc \in {"route", "reply"} :
              chatJob' = [chatJob EXCEPT !.pc = pc, !.payload = PassedOn(@)]
        BY <3>1 DEF ChatTriaged, ChatRouted
      <4>3. PICK pc \in {"route", "reply"} :
              chatJob' = [chatJob EXCEPT !.pc = pc, !.payload = PassedOn(chatJob.payload)]
        BY <2>2, <4>2
      <4> QED BY <2>2, <4>1, <4>3 DEF ChatJob, ChatJobPoints
    <3>2. CASE ChatAnswered
      BY <2>2, <3>2 DEF ChatAnswered, ChatJob, ChatJobPoints
    <3>3. ASSUME RecordAnswer \/ ChatJobFails \/ ResolveChat
          PROVE  /\ chatJob'.pc = "done" \/ chatJob' = chatJob
                 /\ chatJob' \in ChatJob
      BY <2>2, <3>3 DEF RecordAnswer, ChatJobFails, ResolveChat, ChatJob, ChatJobPoints
    <3> QED BY <1>3, <3>1, <3>2, <3>3 DEF PipelineNext, PageTypes, JobAt
  <2> QED BY <1>1, <2>1, <2>3
<1>4. CASE PushAnswer
  <2>1. /\ JobAt("push") /\ UNCHANGED <<page, stream, shown, typed, asked>>
        /\ wire' = Published(chatJob.plan) \/ wire' = wire
        /\ \E pc \in {"record", "done"} : chatJob' = [chatJob EXCEPT !.pc = pc]
    BY <1>4 DEF PushAnswer, replyVars
  <2>2. chatJob.plan \in ChatMessages \ Repliers
    BY <2>1, ChatAssumption DEF PageTypes, ChatMessages
  <2>3. SourceIsCurrent' /\ NoneTooMany' /\ wire' \in [Streams -> Seq(ChatMessages)]
    <3>1. CASE wire' = Published(chatJob.plan)
      BY <2>1, <2>2, <3>1, PublishedKeepsShown
    <3>2. CASE wire' = wire
      BY <2>1, <3>2 DEF SourceIsCurrent, Sources, NoneTooMany, PageTypes
    <3> QED BY <2>1, <3>1, <3>2
  <2>4. chatJob' \in ChatJob /\ chatJob'.pc # "push"
    BY <2>1 DEF PageTypes, ChatJob, ChatJobPoints
  <2>5. PageTypes'
    BY <2>1, <2>3, <2>4 DEF PageTypes, JobAt
  <2> QED BY <2>3, <2>5
<1>5. CASE ServerRestarts
  <2>1. /\ stream' = [s \in Streams |->
             CASE stream[s] \in {"asked", "open"} -> "ended" [] stream[s] = "cut" -> "free"
               [] OTHER -> stream[s]]
        /\ typed' = [m \in VisitorTexts |-> IF typed[m] \in {"sent", "left"} THEN "done" ELSE typed[m]]
        /\ chatJob' = IF chatJob.pc \in {"push", "record"} THEN [chatJob EXCEPT !.pc = "done"] ELSE chatJob
        /\ UNCHANGED <<page, wire, shown, asked>>
    BY <1>5 DEF ServerRestarts
  <2>2. stream' \in [Streams -> StreamStates]
    BY <2>1 DEF PageTypes, StreamStates
  <2>3. chatJob' \in ChatJob /\ chatJob'.pc # "push"
    BY <2>1 DEF PageTypes, ChatJob, ChatJobPoints
  <2>4. PageTypes'
    BY <2>1, <2>2, <2>3 DEF PageTypes, JobAt
  <2>5. SourceIsCurrent'
    BY <2>1 DEF SourceIsCurrent, Sources
  <2>6. \A m \in VisitorTexts : typed'[m] = "unsent" => typed[m] = "unsent"
    BY <2>1
  <2>7. NoneTooMany'
    BY <2>1, <2>6, NothingShown
  <2> QED BY <2>4, <2>5, <2>7
<1> QED BY <1>2, <1>3, <1>4, <1>5

\* What is shown was sent, and what is on its way is counted with it.
LEMMA ShownInvHolds == ChatSpec => []ShownInv
<1>1. ChatInit => ShownInv
  <2> SUFFICES ASSUME ChatInit PROVE ShownInv
    OBVIOUS
  <2> USE DEF ChatInit
  <2>1. PageTypes
    <3>1. <<>> \in Seq(ChatMessages)
      BY EmptySeq
    <3>2. wire \in [Streams -> Seq(ChatMessages)]
      BY <3>1
    <3>3. chatJob \in ChatJob /\ page \in Page
      BY DEF ChatJob, NoChatJob, ChatJobPoints, Page, NewPage
    <3> QED BY <3>2, <3>3 DEF PageTypes, StreamStates, NoChatJob, JobAt
  <2>2. SourceIsCurrent
    BY DEF SourceIsCurrent, Sources
  <2>3. NoneTooMany
    BY TimesOfNone DEF NoneTooMany, ChatMessages
  <2> QED BY <2>1, <2>2, <2>3 DEF ShownInv
<1>2. ShownInv /\ ChatNext => ShownInv'
  <2> SUFFICES ASSUME ShownInv, ChatNext PROVE ShownInv'
    OBVIOUS
  <2>1. CASE WidgetNext
    BY <2>1, WidgetKeepsShown, LoadKeepsShown, StreamKeepsShown, MessageKeepsShown DEF WidgetNext
  <2>2. CASE ReplyNext
    BY <2>2, PublishReplyKeepsShown, ServerKeepsShown DEF ReplyNext
  <2> QED BY <2>1, <2>2, ServerKeepsShown DEF ChatNext
<1>3. ShownInv /\ UNCHANGED chatVars => ShownInv'
  BY DEF chatVars, streamVars, replyVars, caseVars, ShownInv, PageTypes, SourceIsCurrent, Sources,
         NoneTooMany, JobAt
<1> QED BY <1>1, <1>2, <1>3, PTL DEF ChatSpec

\* The page shows a text of the visitor once and a reply no more often than it was
\* sent, for any operators, connections and texts, through echoes, reconnections and
\* restarts: one connection at a time (connectSSE()), and what a closed connection had
\* still to deliver is lost with it.
THEOREM ShownAsOftenAsSentHolds == ChatSpec => []ShownAsOftenAsSent
<1>1. ShownInv => ShownAsOftenAsSent
  <2> SUFFICES ASSUME ShownInv PROVE ShownAsOftenAsSent
    OBVIOUS
  <2>1. \A m \in VisitorTexts : shown[m] \in Nat
    BY DEF ShownInv, PageTypes, ChatMessages
  <2> QED BY <2>1 DEF ShownInv, NoneTooMany, ShownAsOftenAsSent
<1> QED BY <1>1, ShownInvHolds, PTL

-----------------------------------------------------------------------------
(* The types of a chat session.  The number of a reply is a count of rows  *)
(* in the thread, so that the types say how many rows there can be.        *)

RepliesOf(o) == {r \in thread : r.text = o}
PipelineRow == [index |-> NoIndex, text |-> "answer", linked |-> TRUE]

\* A request that has sent its text and not yet stored it.
Underway(o) == IF replier[o].pc \in {"count", "insert"} THEN 1 ELSE 0

\* A text is stored no more often than it was sent, and what the page does not
\* display it does not count.
ThreadInv ==
  /\ asked \in [Repliers -> 0..MaxAsks] /\ owed \subseteq Streams
  /\ chatCase \in CaseStatuses \cup {"none"}
  /\ thread \subseteq Outbound
  /\ \A o \in Repliers : replier[o].index \in Indexes
  /\ \A r \in thread : r.text \notin Repliers => r = PipelineRow
  /\ \A o \in Repliers : Cardinality(RepliesOf(o)) + Underway(o) <= asked[o]
  /\ \A o \in Repliers : replier[o].pc = "link" => ReplyRow(o, FALSE) \in thread
  /\ \A m \in {"answer", "ack"} : shown[m] = 0

\* No more rows than the operators have tries, and one for the pipeline's answer.
LEMMA ThreadIsBounded ==
  ASSUME RecordedInv, ThreadInv, NEW S \in SUBSET thread
  PROVE  IsFiniteSet(S) /\ Cardinality(S) \in Indexes
<1> DEFINE tries == Repliers \X (1..MaxAsks)
           n(o) == Cardinality(RepliesOf(o))
           numbered == [o \in Repliers |-> CHOOSE f : f \in Bijection(1..n(o), RepliesOf(o))]
           used == {p \in tries : p[2] <= n(p[1])}
           row == [p \in used |-> numbered[p[1]][p[2]]]
           replies == {r \in thread : r.text \in Repliers}
<1>1. ASSUME NEW o \in Repliers
      PROVE  /\ IsFiniteSet(RepliesOf(o)) /\ n(o) \in Nat /\ n(o) <= MaxAsks
             /\ numbered[o] \in Bijection(1..n(o), RepliesOf(o))
  <2>1. IsFiniteSet(RepliesOf(o))
    BY FS_Subset DEF RecordedInv, RepliesOf
  <2>2. n(o) \in Nat /\ ExistsBijection(1..n(o), RepliesOf(o))
    BY <2>1, FS_CardinalityType
  <2>3. \E f : f \in Bijection(1..n(o), RepliesOf(o))
    BY <2>2 DEF ExistsBijection
  <2>4. n(o) + Underway(o) <= asked[o] /\ asked[o] \in 0..MaxAsks /\ Underway(o) \in {0, 1}
    BY DEF ThreadInv, Underway
  <2>5. n(o) <= MaxAsks
    <3> HIDE DEF n
    <3> QED BY <2>2, <2>4, ChatAssumption
  <2> QED BY <2>1, <2>2, <2>3, <2>5
<1>2. row \in Surjection(used, replies)
  <2>1. ASSUME NEW p \in used PROVE row[p] \in replies
    <3>1. p[1] \in Repliers /\ p[2] \in 1..n(p[1])
      <4>1. p[1] \in Repliers /\ p[2] \in 1..MaxAsks /\ p[2] <= n(p[1])
        OBVIOUS
      <4> HIDE DEF n
      <4> QED BY <1>1, <4>1, ChatAssumption
    <3>2. numbered[p[1]] \in [1..n(p[1]) -> RepliesOf(p[1])]
      BY <1>1, <3>1 DEF Bijection, Injection
    <3>3. numbered[p[1]][p[2]] \in RepliesOf(p[1])
      <4> HIDE DEF n, numbered
      <4> QED BY <3>1, <3>2
    <3>4. row[p] = numbered[p[1]][p[2]]
      OBVIOUS
    <3> HIDE DEF row, numbered
    <3> QED BY <3>1, <3>3, <3>4 DEF RepliesOf
  <2>2. ASSUME NEW r \in replies PROVE \E p \in used : row[p] = r
    <3> DEFINE o == r.text
    <3>1. o \in Repliers /\ r \in RepliesOf(o)
      BY DEF RepliesOf
    <3>2. numbered[o] \in Surjection(1..n(o), RepliesOf(o))
      BY <1>1, <3>1 DEF Bijection
    <3>3. PICK k \in 1..n(o) : numbered[o][k] = r
      <4> HIDE DEF n, numbered
      <4> QED BY <3>1, <3>2 DEF Surjection
    <3>4. k \in 1..MaxAsks /\ k <= n(o)
      <4> HIDE DEF n
      <4> QED BY <1>1, <3>1, <3>3, ChatAssumption
    <3>5. <<o, k>> \in used
      <4> HIDE DEF n, o
      <4> QED BY <3>1, <3>4
    <3>6. row[<<o, k>>] = numbered[o][k]
      <4> HIDE DEF numbered
      <4> QED BY <3>5
    <3> QED BY <3>3, <3>5, <3>6
  <2> HIDE DEF used, replies
  <2> QED BY <2>1, <2>2 DEF Surjection
<1>3. IsFiniteSet(tries) /\ Cardinality(tries) = Cardinality(Repliers) * MaxAsks
      /\ Cardinality(Repliers) \in Nat
  <2>1. IsFiniteSet(1..MaxAsks) /\ Cardinality(1..MaxAsks) = MaxAsks
    BY ChatAssumption, FS_Interval
  <2> QED BY <2>1, ChatAssumption, FS_Product, FS_CardinalityType
<1>4. IsFiniteSet(replies) /\ Cardinality(replies) <= Cardinality(tries)
      /\ Cardinality(replies) \in Nat
  <2>1. used \subseteq tries
    OBVIOUS
  <2> HIDE DEF tries, used, row, replies
  <2>2. IsFiniteSet(used) /\ Cardinality(used) <= Cardinality(tries)
    BY <1>3, <2>1, FS_Subset
  <2>3. IsFiniteSet(replies) /\ Cardinality(replies) <= Cardinality(used)
    BY <1>2, <2>2, FS_Surjection
  <2>4. Cardinality(replies) \in Nat /\ Cardinality(used) \in Nat /\ Cardinality(tries) \in Nat
    BY <1>3, <2>2, <2>3, FS_CardinalityType
  <2> QED BY <2>2, <2>3, <2>4
<1>5. S \subseteq replies \cup {PipelineRow}
  BY DEF ThreadInv
<1> HIDE DEF tries, replies
<1>6. /\ IsFiniteSet(replies \cup {PipelineRow})
      /\ Cardinality(replies \cup {PipelineRow}) <= Cardinality(replies) + 1
  BY <1>4, FS_AddElement
<1>7. /\ IsFiniteSet(S) /\ Cardinality(S) \in Nat
      /\ Cardinality(S) <= Cardinality(replies \cup {PipelineRow})
  BY <1>5, <1>6, FS_Subset, FS_CardinalityType
<1>8. Cardinality(replies \cup {PipelineRow}) \in Nat
  BY <1>6, FS_CardinalityType
<1>9. Cardinality(S) <= Cardinality(Repliers) * MaxAsks + 1
      /\ Cardinality(Repliers) * MaxAsks \in Nat
  <2>1. Cardinality(tries) \in Nat
    BY <1>3, FS_CardinalityType
  <2> QED BY <1>3, <1>4, <1>6, <1>7, <1>8, <2>1
<1> QED BY <1>7, <1>9 DEF Indexes

\* What a request does to its own rows and point, when it leaves those of the others
\* alone, keeps the invariant if it keeps its part of it.
LEMMA RequestEffectOnThread ==
  ASSUME RecordedInv, ThreadInv, NEW o \in Repliers, NEW x \in [pc : ReplyPoints, index : Indexes],
         replier' = [replier EXCEPT ![o] = x],
         asked' \in [Repliers -> 0..MaxAsks],
         \A p \in Repliers \ {o} : asked'[p] = asked[p],
         \A p \in Repliers \ {o} : RepliesOf(p)' = RepliesOf(p),
         thread' \subseteq Outbound,
         \A r \in thread' : r.text \notin Repliers => r \in thread,
         Cardinality(RepliesOf(o)') + Underway(o)' <= asked'[o],
         x.pc = "link" => ReplyRow(o, FALSE)' \in thread',
         chatCase' \in CaseStatuses \cup {"none"},
         UNCHANGED <<owed, shown>>
  PROVE  ThreadInv'
<1>1. /\ replier \in [Repliers -> [pc : ReplyPoints, index : Nat]]
      /\ \A p \in Repliers : replier[p].index \in Indexes
  BY DEF RecordedInv, ThreadInv
<1>2. /\ replier'[o] = x
      /\ \A p \in Repliers \ {o} : replier'[p] = replier[p]
  BY <1>1
<1>3. \A p \in Repliers : replier'[p].index \in Indexes
  BY <1>1, <1>2
<1>4. ASSUME NEW p \in Repliers PROVE Cardinality(RepliesOf(p)') + Underway(p)' <= asked'[p]
  <2>1. CASE p = o
    BY <2>1
  <2>2. CASE p # o
    <3>1. Underway(p)' = Underway(p) /\ RepliesOf(p)' = RepliesOf(p) /\ asked'[p] = asked[p]
      BY <1>2, <2>2 DEF Underway
    <3> QED BY <3>1 DEF ThreadInv
  <2> QED BY <2>1, <2>2
<1>5. ASSUME NEW p \in Repliers, replier'[p].pc = "link" PROVE ReplyRow(p, FALSE)' \in thread'
  <2>1. CASE p = o
    BY <1>2, <1>5, <2>1
  <2>2. CASE p # o
    <3>1. ReplyRow(p, FALSE) \in thread /\ ReplyRow(p, FALSE)' = ReplyRow(p, FALSE)
      BY <1>2, <1>5, <2>2 DEF ThreadInv, ReplyRow
    <3>2. ReplyRow(p, FALSE).text = p
      BY DEF ReplyRow
    <3>3. ReplyRow(p, FALSE) \in RepliesOf(p)'
      BY <2>2, <3>1, <3>2 DEF RepliesOf
    <3> QED BY <3>1, <3>3 DEF RepliesOf
  <2> QED BY <2>1, <2>2
<1>6. \A r \in thread' : r.text \notin Repliers => r = PipelineRow
  BY DEF ThreadInv
<1> QED BY <1>3, <1>4, <1>5, <1>6 DEF ThreadInv

\* A row of an operator is a row of the thread.
LEMMA RowType ==
  ASSUME RecordedInv, ThreadInv, NEW o \in Repliers, NEW linked \in BOOLEAN
  PROVE  ReplyRow(o, linked) \in Outbound
BY DEF ThreadInv, ReplyRow, Outbound, ChatMessages

\* A step of an operator's request stores a text at most once for each time it was sent.
LEMMA RequestsKeepThread ==
  ASSUME RecordedInv, ThreadInv, NEW o \in Repliers,
         \/ PublishReply(o) \/ CountReplies(o) \/ InsertReply(o) \/ LinkReply(o)
         \/ TakeOver(o) \/ AuditReply(o) \/ ReplyFails(o)
  PROVE  ThreadInv'
<1> DEFINE n == Cardinality(RepliesOf(o))
<1>0. /\ replier \in [Repliers -> [pc : ReplyPoints, index : Nat]]
      /\ replier[o].index \in Indexes
      /\ asked \in [Repliers -> 0..MaxAsks]
      /\ chatCase \in CaseStatuses \cup {"none"}
      /\ thread \subseteq Outbound
      /\ n + Underway(o) <= asked[o]
  BY DEF RecordedInv, ThreadInv
<1>1. IsFiniteSet(RepliesOf(o)) /\ n \in Nat
  <2>1. RepliesOf(o) \in SUBSET thread
    BY DEF RepliesOf
  <2> QED BY <2>1, FS_Subset, FS_CardinalityType DEF RecordedInv
<1> HIDE DEF n
<1>2. ASSUME NEW point \in ReplyPoints, ReplyTo(o, point), UNCHANGED <<thread, owed, shown>>,
             asked' \in [Repliers -> 0..MaxAsks],
             \A p \in Repliers \ {o} : asked'[p] = asked[p],
             n + (IF point \in {"count", "insert"} THEN 1 ELSE 0) <= asked'[o],
             point # "link", chatCase' \in CaseStatuses \cup {"none"}
      PROVE  ThreadInv'
  <2> DEFINE x == [replier[o] EXCEPT !.pc = point]
  <2>1. x \in [pc : ReplyPoints, index : Indexes] /\ x.pc = point
    BY <1>0, <1>2
  <2>2. replier' = [replier EXCEPT ![o] = x]
    BY <1>0, <1>2 DEF ReplyTo
  <2> HIDE DEF x
  <2>3. replier'[o].pc = point
    BY <1>0, <2>1, <2>2
  <2>4. Cardinality(RepliesOf(o)') + Underway(o)' <= asked'[o]
    BY <1>2, <2>3 DEF RepliesOf, Underway, n
  <2>5. \A p \in Repliers : RepliesOf(p)' = RepliesOf(p)
    BY <1>2 DEF RepliesOf
  <2>6. thread' \subseteq Outbound /\ thread' = thread
    BY <1>0, <1>2
  <2> QED BY <1>2, <2>1, <2>2, <2>4, <2>5, <2>6, RequestEffectOnThread
<1>3. CASE PublishReply(o)
  <2>1. /\ asked[o] < MaxAsks /\ asked' = [asked EXCEPT ![o] = @ + 1]
        /\ ReplyTo(o, "count") /\ UNCHANGED <<thread, owed, shown, chatCase>>
        /\ Underway(o) = 0
    BY <1>3 DEF PublishReply, caseVars, ReplyAt, Underway
  <2>2. asked' \in [Repliers -> 0..MaxAsks] /\ asked'[o] = asked[o] + 1
        /\ \A p \in Repliers \ {o} : asked'[p] = asked[p]
    BY <1>0, <2>1, ChatAssumption
  <2>3. n + 1 <= asked'[o]
    <3>1. asked[o] \in 0..MaxAsks
      BY <1>0
    <3> QED BY <1>0, <1>1, <2>1, <2>2, <3>1, ChatAssumption
  <2> QED BY <1>0, <1>2, <2>1, <2>2, <2>3 DEF ReplyPoints
<1>4. CASE CountReplies(o)
  <2> DEFINE linked == {r \in thread : r.linked}
             x == [pc |-> "insert", index |-> Cardinality(linked)]
  <2>1. Cardinality(linked) \in Indexes
    BY ThreadIsBounded
  <2>2. replier' = [replier EXCEPT ![o] = x] /\ UNCHANGED <<thread, asked, owed, shown, chatCase>>
    BY <1>4 DEF CountReplies, streamVars, caseVars
  <2>3. Underway(o) = 1
    BY <1>4 DEF CountReplies, ReplyAt, Underway
  <2> HIDE DEF linked
  <2>4. x \in [pc : ReplyPoints, index : Indexes] /\ x.pc = "insert"
    BY <2>1 DEF ReplyPoints
  <2> HIDE DEF x
  <2>5. replier'[o].pc = "insert"
    BY <1>0, <2>2, <2>4
  <2>6. Cardinality(RepliesOf(o)') + Underway(o)' <= asked'[o]
    BY <1>0, <2>2, <2>3, <2>5 DEF RepliesOf, Underway, n
  <2>7. \A p \in Repliers : RepliesOf(p)' = RepliesOf(p)
    BY <2>2 DEF RepliesOf
  <2>8. thread' = thread /\ asked' = asked /\ chatCase' = chatCase
    BY <2>2
  <2> QED BY <1>0, <2>2, <2>4, <2>6, <2>7, <2>8, RequestEffectOnThread
<1>5. CASE InsertReply(o)
  <2>1. Underway(o) = 1 /\ UNCHANGED <<asked, owed, shown, chatCase>>
    BY <1>5 DEF InsertReply, ReplyAt, Underway, streamVars, caseVars
  <2>2. asked[o] \in 0..MaxAsks
    BY <1>0
  <2>3. CASE NumberIsTaken(o)
    <3>1. ReplyTo(o, "idle") /\ UNCHANGED thread
      BY <1>5, <2>3 DEF InsertReply
    <3> QED BY <1>0, <1>1, <1>2, <2>1, <2>2, <3>1 DEF ReplyPoints
  <2>4. CASE ~NumberIsTaken(o)
    <3> DEFINE row == ReplyRow(o, FALSE)
               x == [replier[o] EXCEPT !.pc = "link"]
    <3>1. replier' = [replier EXCEPT ![o] = x] /\ thread' = thread \cup {row}
      BY <1>0, <1>5, <2>4 DEF InsertReply, ReplyTo
    <3>2. x \in [pc : ReplyPoints, index : Indexes] /\ x.pc = "link" /\ x.index = replier[o].index
      BY <1>0 DEF ReplyPoints
    <3> HIDE DEF x
    <3>3. replier'[o] = x
      BY <1>0, <3>1
    <3>4. row' = row /\ row \in Outbound /\ row.text = o
      BY <3>2, <3>3, RowType DEF ReplyRow
    <3> HIDE DEF row
    <3>5. RepliesOf(o)' = RepliesOf(o) \cup {row}
          /\ \A p \in Repliers \ {o} : RepliesOf(p)' = RepliesOf(p)
      BY <3>1, <3>4 DEF RepliesOf
    <3>6. Cardinality(RepliesOf(o) \cup {row}) \in {n, n + 1}
      BY <1>1, FS_AddElement DEF n
    <3>7. Underway(o)' = 0
      BY <3>2, <3>3 DEF Underway
    <3>8. Cardinality(RepliesOf(o)') + Underway(o)' <= asked'[o]
      BY <1>0, <1>1, <2>1, <2>2, <3>5, <3>6, <3>7
    <3>9. thread' \subseteq Outbound /\ \A r \in thread' : r.text \notin Repliers => r \in thread
      BY <1>0, <3>1, <3>4
    <3>10. ReplyRow(o, FALSE)' \in thread'
      BY <3>1, <3>4 DEF row
    <3>11. asked' = asked /\ chatCase' = chatCase
      BY <2>1
    <3> QED BY <1>0, <2>1, <3>1, <3>2, <3>5, <3>8, <3>9, <3>10, <3>11, RequestEffectOnThread
  <2> QED BY <2>3, <2>4
<1>6. CASE LinkReply(o)
  <2> DEFINE old == ReplyRow(o, FALSE)
             new == ReplyRow(o, TRUE)
             to == IF replier[o].index = 0 THEN "move" ELSE "audit"
             x == [replier[o] EXCEPT !.pc = to]
  <2>1. /\ replier' = [replier EXCEPT ![o] = x] /\ thread' = (thread \ {old}) \cup {new}
        /\ UNCHANGED <<asked, owed, shown, chatCase>> /\ replier[o].pc = "link"
    BY <1>0, <1>6 DEF LinkReply, ReplyTo, ReplyAt, streamVars, caseVars
  <2>2. to \in {"move", "audit"}
    OBVIOUS
  <2> HIDE DEF to
  <2>3. x \in [pc : ReplyPoints, index : Indexes] /\ x.pc \in {"move", "audit"}
    BY <1>0, <2>2 DEF ReplyPoints
  <2> HIDE DEF x
  <2>4. replier'[o] = x
    BY <1>0, <2>1
  <2>5. old \in thread /\ old.text = o /\ new.text = o /\ new \in Outbound
    BY <2>1, RowType DEF ThreadInv, ReplyRow
  <2> HIDE DEF old, new
  <2>6. RepliesOf(o)' = (RepliesOf(o) \ {old}) \cup {new} /\ old \in RepliesOf(o)
        /\ \A p \in Repliers \ {o} : RepliesOf(p)' = RepliesOf(p)
    BY <2>1, <2>5 DEF RepliesOf
  <2>7. IsFiniteSet(RepliesOf(o) \ {old}) /\ Cardinality(RepliesOf(o) \ {old}) = n - 1
    BY <1>1, <2>6, FS_RemoveElement DEF n
  <2>8. Cardinality(RepliesOf(o)') \in {n - 1, n}
    <3>1. Cardinality((RepliesOf(o) \ {old}) \cup {new}) \in {n - 1, (n - 1) + 1}
      BY <2>7, FS_AddElement
    <3> QED BY <1>1, <2>6, <3>1
  <2>9. Underway(o) = 0 /\ Underway(o)' = 0
    BY <2>1, <2>3, <2>4 DEF Underway
  <2>10. Cardinality(RepliesOf(o)') + Underway(o)' <= asked'[o]
    <3>1. asked[o] \in 0..MaxAsks
      BY <1>0
    <3> QED BY <1>0, <1>1, <2>1, <2>8, <2>9, <3>1
  <2>11. thread' \subseteq Outbound /\ \A r \in thread' : r.text \notin Repliers => r \in thread
    BY <1>0, <2>1, <2>5
  <2>12. asked' = asked /\ chatCase' = chatCase
    BY <2>1
  <2> QED BY <1>0, <2>1, <2>3, <2>6, <2>10, <2>11, <2>12, RequestEffectOnThread
<1>7. CASE TakeOver(o) \/ AuditReply(o) \/ ReplyFails(o)
  <2>1. PICK point \in {"audit", "idle"} : ReplyTo(o, point)
    BY <1>7 DEF TakeOver, AuditReply, ReplyFails
  <2>2. UNCHANGED <<thread, asked, owed, shown>>
    BY <1>7 DEF TakeOver, AuditReply, ReplyFails, streamVars
  <2>3. chatCase' \in CaseStatuses \cup {"none"}
    BY <1>0, <1>7 DEF TakeOver, AuditReply, ReplyFails, caseVars, CaseStatuses, CASE_TRANSITIONS
  <2>4. n <= asked[o] /\ asked[o] \in Nat
    BY <1>0, <1>1, ChatAssumption DEF Underway
  <2> QED BY <1>0, <1>1, <1>2, <2>1, <2>2, <2>3, <2>4 DEF ReplyPoints
<1> QED BY <1>3, <1>4, <1>5, <1>6, <1>7

\* A step that leaves the thread and the requests alone.
LEMMA ThreadUntouched ==
  ASSUME ThreadInv, UNCHANGED <<thread, replier, asked>>, owed' \subseteq Streams,
         chatCase' \in CaseStatuses \cup {"none"},
         \A m \in {"answer", "ack"} : shown'[m] = 0
  PROVE  ThreadInv'
BY DEF ThreadInv, RepliesOf, Underway, ReplyRow

\* The widget neither writes the thread nor displays what the pipeline publishes.
LEMMA WidgetKeepsThread ==
  ASSUME ShownInv, ThreadInv, WidgetNext
  PROVE  ThreadInv'
<1>1. UNCHANGED <<thread, replier, asked>>
  BY DEF WidgetNext, StartChat, OpenWindow, CloseWindow, LoadPage, Reconnect, StreamOpens,
         Unsubscribe, StreamFails, DeliverEvent, TypeMessage, SessionClosed, TakeMessage,
         RefuseMessage, MessageFails, replyVars
<1>2. owed' \subseteq Streams
  BY DEF ThreadInv, WidgetNext, StartChat, OpenWindow, CloseWindow, LoadPage, Reconnect,
         StreamOpens, Unsubscribe, StreamFails, DeliverEvent, TypeMessage, SessionClosed,
         TakeMessage, RefuseMessage, MessageFails, SwitchStreams, streamVars
<1>3. chatCase' \in CaseStatuses \cup {"none"}
  BY DEF ThreadInv, WidgetNext, StartChat, OpenWindow, CloseWindow, LoadPage, Reconnect,
         StreamOpens, Unsubscribe, StreamFails, DeliverEvent, TypeMessage, SessionClosed,
         TakeMessage, RefuseMessage, MessageFails, caseVars, CaseStatuses, CASE_TRANSITIONS
<1>4. ASSUME NEW m \in {"answer", "ack"} PROVE shown'[m] = 0
  <2>1. shown \in [ChatMessages -> Nat] /\ shown[m] = 0 /\ m \in ChatMessages
        /\ m \notin Repliers /\ m \notin VisitorTexts
    BY ChatAssumption DEF ShownInv, PageTypes, ThreadInv, ChatMessages
  <2>2. CASE LoadPage
    BY <2>1, <2>2 DEF LoadPage
  <2>3. CASE \E s \in Streams : DeliverEvent(s)
    <3>1. PICK s \in Streams : DeliverEvent(s)
      BY <2>3
    <3>2. CASE Displays(Head(wire[s]))
      <4>1. Head(wire[s]) # m
        BY <2>1, <3>2 DEF Displays, Role
      <4>2. shown' = [shown EXCEPT ![Head(wire[s])] = @ + 1]
        BY <3>1, <3>2 DEF DeliverEvent
      <4> QED BY <2>1, <4>1, <4>2
    <3>3. CASE ~Displays(Head(wire[s]))
      BY <2>1, <3>1, <3>3 DEF DeliverEvent
    <3> QED BY <3>2, <3>3
  <2>4. CASE \E t \in VisitorTexts : TypeMessage(t)
    BY <2>1, <2>4 DEF TypeMessage
  <2>5. CASE ~(LoadPage \/ (\E s \in Streams : DeliverEvent(s))
                 \/ (\E t \in VisitorTexts : TypeMessage(t)))
    <3>1. shown' = shown
      BY <2>5 DEF WidgetNext, StartChat, OpenWindow, CloseWindow, Reconnect, StreamOpens,
             Unsubscribe, StreamFails, SessionClosed, TakeMessage, RefuseMessage, MessageFails,
             streamVars
    <3> QED BY <2>1, <3>1
  <2> QED BY <2>2, <2>3, <2>4, <2>5
<1> QED BY <1>1, <1>2, <1>3, <1>4, ThreadUntouched

\* The pipeline adds one row at most, its answer.
LEMMA PipelineKeepsThread ==
  ASSUME ThreadInv, PipelineNext \/ ServerRestarts, RecordedInv
  PROVE  ThreadInv'
<1>1. \A m \in {"answer", "ack"} : shown'[m] = 0
  BY DEF ThreadInv, PipelineNext, ChatTriaged, ChatRouted, ChatAnswered, PushAnswer,
         RecordAnswer, ChatJobFails, ResolveChat, ServerRestarts, streamVars
<1>2. owed' \subseteq Streams
  BY DEF ThreadInv, PipelineNext, ChatTriaged, ChatRouted, ChatAnswered, PushAnswer,
         RecordAnswer, ChatJobFails, ResolveChat, ServerRestarts, streamVars
<1>3. chatCase' \in CaseStatuses \cup {"none"}
  BY DEF ThreadInv, PipelineNext, ChatTriaged, ChatRouted, ChatAnswered, PushAnswer,
         RecordAnswer, ChatJobFails, ResolveChat, ServerRestarts, CaseStatuses, CASE_TRANSITIONS
<1>4. CASE RecordAnswer
  <2>1. thread' \in {thread, thread \cup {PipelineRow}} /\ UNCHANGED <<replier, asked>>
    BY <1>4 DEF RecordAnswer, PipelineRow
  <2>2. PipelineRow.text = "answer" /\ "answer" \notin Repliers /\ PipelineRow \in Outbound
    BY ChatAssumption DEF PipelineRow, Outbound, ChatMessages
  <2> DEFINE row == PipelineRow
  <2> HIDE DEF row
  <2>3. \A o \in Repliers : RepliesOf(o)' = RepliesOf(o) /\ Underway(o)' = Underway(o)
    BY <2>1, <2>2 DEF RepliesOf, Underway
  <2>4. thread' \subseteq Outbound /\ \A r \in thread' : r.text \notin Repliers => r = PipelineRow
    BY <2>1, <2>2 DEF ThreadInv
  <2>5. \A o \in Repliers : replier'[o].pc = "link" => ReplyRow(o, FALSE)' \in thread'
    BY <2>1 DEF ThreadInv, ReplyRow
  <2> QED BY <1>1, <1>2, <1>3, <2>1, <2>3, <2>4, <2>5 DEF ThreadInv
<1>5. CASE PipelineNext /\ ~RecordAnswer
  <2>1. UNCHANGED <<thread, replier, asked>>
    BY <1>5 DEF PipelineNext, ChatTriaged, ChatRouted, ChatAnswered, PushAnswer, ChatJobFails,
           ResolveChat, replyVars
  <2> QED BY <1>1, <1>2, <1>3, <2>1, ThreadUntouched
<1>6. CASE ServerRestarts
  <2>1. replier' = [o \in Repliers |-> [replier[o] EXCEPT !.pc = "idle"]]
        /\ UNCHANGED <<thread, asked>>
    BY <1>6 DEF ServerRestarts
  <2>2. \A o \in Repliers : replier'[o].pc = "idle" /\ replier'[o].index = replier[o].index
    BY <2>1 DEF RecordedInv
  <2>3. ASSUME NEW o \in Repliers PROVE Cardinality(RepliesOf(o)') + Underway(o)' <= asked'[o]
    <3>1. Cardinality(RepliesOf(o)) + Underway(o) <= asked[o] /\ asked[o] \in 0..MaxAsks
      BY DEF ThreadInv
    <3>2. RepliesOf(o)' = RepliesOf(o) /\ Underway(o)' = 0 /\ Underway(o) \in {0, 1}
      BY <2>1, <2>2 DEF RepliesOf, Underway
    <3>3. Cardinality(RepliesOf(o)) \in Nat
      <4>1. RepliesOf(o) \in SUBSET thread
        BY DEF RepliesOf
      <4> QED BY <4>1, FS_Subset, FS_CardinalityType DEF RecordedInv
    <3> QED BY <2>1, <3>1, <3>2, <3>3, ChatAssumption
  <2> QED BY <1>1, <1>2, <1>3, <2>1, <2>2, <2>3 DEF ThreadInv
<1> QED BY <1>4, <1>5, <1>6

\* The session, the thread and the requests have their types, for any operators,
\* streams and texts.  The number under which a reply is stored never exceeds the
\* tries of the operators and one: it is a count of rows (POST chat/reply,
\* api/v1/chat.ts), and each try stores one at most.
THEOREM ChatTypeCorrect == ChatSpec => []ChatTypeOK
<1>1. ChatInit => ThreadInv
  <2> SUFFICES ASSUME ChatInit PROVE ThreadInv
    OBVIOUS
  <2>1. 0 \in Indexes /\ 0 \in 0..MaxAsks
    <3>1. Cardinality(Repliers) * MaxAsks + 1 \in Nat
      BY ChatAssumption, FS_CardinalityType
    <3> QED BY <3>1, ChatAssumption DEF Indexes
  <2>2. \A o \in Repliers : RepliesOf(o) = {} /\ Underway(o) = 0
    BY DEF ChatInit, RepliesOf, Underway
  <2>3. \A o \in Repliers : Cardinality(RepliesOf(o)) = 0
    BY <2>2, FS_EmptySet
  <2> QED BY <2>1, <2>2, <2>3 DEF ChatInit, ThreadInv, ChatMessages
<1>2. RecordedInv /\ ShownInv /\ ThreadInv /\ ChatNext => ThreadInv'
  BY RequestsKeepThread, WidgetKeepsThread, PipelineKeepsThread DEF ChatNext, ReplyNext
<1>3. ThreadInv /\ UNCHANGED chatVars => ThreadInv'
  <2> SUFFICES ASSUME ThreadInv, UNCHANGED chatVars PROVE ThreadInv'
    OBVIOUS
  <2>1. UNCHANGED <<thread, replier, asked, owed, chatCase, shown>>
    BY DEF chatVars, streamVars, replyVars, caseVars
  <2> QED BY <2>1, ThreadUntouched DEF ThreadInv
<1>4. RecordedInv /\ ShownInv /\ ThreadInv => ChatTypeOK
  <2> SUFFICES ASSUME RecordedInv, ShownInv, ThreadInv PROVE ChatTypeOK
    OBVIOUS
  <2>1. replier \in [Repliers -> [pc : ReplyPoints, index : Indexes]]
    <3>1. \A o \in Repliers : replier[o] \in [pc : ReplyPoints, index : Indexes]
      BY DEF RecordedInv, ThreadInv
    <3> QED BY <3>1 DEF RecordedInv
  <2>2. ASSUME NEW m \in ChatMessages PROVE shown[m] \in 0..(MaxAsks + 1)
    <3>1. shown[m] \in Nat
      BY DEF ShownInv, PageTypes
    <3>2. CASE m \in VisitorTexts
      <4>1. shown[m] <= 1
        BY <3>1, <3>2 DEF ShownInv, NoneTooMany
      <4> QED BY <3>1, <4>1, ChatAssumption
    <3>3. CASE m \in Repliers
      <4>1. shown[m] <= asked[m] /\ asked[m] \in 0..MaxAsks
        BY <3>3 DEF ShownInv, NoneTooMany, ThreadInv
      <4> QED BY <3>1, <4>1, ChatAssumption
    <3>4. CASE m \in {"answer", "ack"}
      BY <3>1, <3>4, ChatAssumption DEF ThreadInv
    <3> QED BY <3>2, <3>3, <3>4 DEF ChatMessages
  <2>3. shown \in [ChatMessages -> 0..(MaxAsks + 1)]
    BY <2>2 DEF ShownInv, PageTypes
  <2> QED BY <2>1, <2>3 DEF ChatTypeOK, RecordedInv, ShownInv, PageTypes, ThreadInv
<1> QED BY <1>1, <1>2, <1>3, <1>4, RecordedInvHolds, ShownInvHolds, PTL DEF ChatSpec

-----------------------------------------------------------------------------
(* Notifications.  A notifier works on copies; the invariant that makes an *)
(* acknowledgement final is that a row leaves the statuses that runners    *)
(* and digests look for, or has acked_at set, before the last copy of it   *)
(* is dropped.                                                             *)

\* Notifier x works on a copy of row r.
Pursues(x, r) ==
  \/ \E y \in x.loaded : y.row = r
  \/ x.row = r /\ x.pc \in {"deliver", "markSent", "markFailed"}

AckedHasLeft == \A r \in NotifRows : notif[r].acked => notif[r].status \notin {"none", "pending"}

NotificationsInv == NotificationsTypeOK /\ AckedHasLeft

\* What AckedIsSettled says of a step.
StaysSettled ==
  \A r \in NotifRows :
    notif[r].acked /\ ~Pursued(r) =>
      /\ ~Pursued(r)' /\ notif'[r].level = notif[r].level
      /\ notif'[r].status = "failed" => notif[r].status = "failed"

\* The rows after a step: each has its type, and an acknowledged one that nobody
\* pursues is neither escalated nor failed.
RowsStepSoundly ==
  /\ notif' \in [NotifRows -> Row]
  /\ \A r \in NotifRows :
       /\ notif'[r].level <= MaxLevels[notif'[r].prio]
       /\ notif'[r].acked => notif'[r].status \notin {"none", "pending"}
       /\ notif[r].acked /\ ~Pursued(r) =>
            /\ notif'[r].level = notif[r].level
            /\ notif'[r].status = "failed" => notif[r].status = "failed"

LEMMA PursuedByOne ==
  \A r : Pursued(r) <=> \E p \in Notifiers : Pursues(notifier[p], r)
BY DEF Pursued, Pursues

\* A notifier takes up an acknowledged row only if it is pursued already.
LEMMA NotifierStep ==
  ASSUME NotificationsInv, NEW p \in Notifiers, NEW x \in Notifier,
         notifier' = [notifier EXCEPT ![p] = x],
         \A r \in NotifRows : notif[r].acked /\ Pursues(x, r) => Pursued(r),
         RowsStepSoundly, events' \in 0..MaxEvents
  PROVE  NotificationsInv' /\ StaysSettled
<1>1. /\ notifier' \in [Notifiers -> Notifier]
      /\ \A q \in Notifiers : notifier'[q] = IF q = p THEN x ELSE notifier[q]
  BY DEF NotificationsInv, NotificationsTypeOK
<1>2. NotificationsInv'
  BY <1>1 DEF NotificationsInv, NotificationsTypeOK, AckedHasLeft, RowsStepSoundly
<1>3. ASSUME NEW r \in NotifRows, notif[r].acked, ~Pursued(r)
      PROVE  ~Pursued(r)'
  <2>1. \A q \in Notifiers : ~Pursues(notifier'[q], r)
    BY <1>1, <1>3, PursuedByOne
  <2> QED BY <2>1 DEF Pursued, Pursues
<1> QED BY <1>2, <1>3 DEF StaysSettled, RowsStepSoundly

\* Rows that stay as they are.
LEMMA RowsStay ==
  ASSUME NotificationsInv, UNCHANGED notif
  PROVE  RowsStepSoundly
BY DEF NotificationsInv, NotificationsTypeOK, AckedHasLeft, RowsStepSoundly

\* The status of one row is written: failed, only if somebody pursues it.
LEMMA StatusStep ==
  ASSUME NotificationsInv, NEW r \in NotifRows, NEW s \in {"sent", "failed"},
         WriteStatus(r, s), s = "failed" => Pursued(r)
  PROVE  RowsStepSoundly
<1> DEFINE x == [notif[r] EXCEPT !.status = s]
<1>1. notif[r] \in Row /\ notif[r].level <= MaxLevels[notif[r].prio]
  BY DEF NotificationsInv, NotificationsTypeOK
<1>2. /\ x \in Row /\ x.status = s /\ x.level = notif[r].level /\ x.prio = notif[r].prio
      /\ x.acked = notif[r].acked
  BY <1>1 DEF Row
<1> HIDE DEF x
<1>3. notif' = [notif EXCEPT ![r] = x]
  BY DEF WriteStatus, x
<1> QED BY <1>1, <1>2, <1>3
    DEF NotificationsInv, NotificationsTypeOK, AckedHasLeft, RowsStepSoundly

\* Types of the notifiers' states.
LEMMA IdleNotifierType ==
  /\ IdleNotifier \in Notifier
  /\ \A r : ~Pursues(IdleNotifier, r)
<1>1. FirstRow \in NotifRows
  BY NotificationsAssumption DEF FirstRow
<1> QED BY <1>1, NotificationsAssumption
    DEF IdleNotifier, Notifier, NoEvent, EmitCall, NotifKinds, Priorities, NotifierPoints, Pursues

LEMMA AfterEmitType ==
  ASSUME NEW n \in Notifier
  PROVE  /\ AfterEmit(n) \in Notifier
         /\ \A r : Pursues(AfterEmit(n), r) => Pursues(n, r)
<1>1. CASE n.job = "escalation"
  <2> DEFINE x == [IdleNotifier EXCEPT !.pc = "nextRow", !.job = "escalation", !.loaded = n.loaded]
  <2>1. x \in Notifier /\ x.loaded = n.loaded /\ x.pc = "nextRow"
    BY IdleNotifierType DEF Notifier, NotifierPoints
  <2> HIDE DEF x
  <2>2. AfterEmit(n) = x
    BY <1>1 DEF AfterEmit, x
  <2> QED BY <2>1, <2>2 DEF Pursues
<1>2. CASE n.job # "escalation" /\ n.leads = {}
  BY <1>2, IdleNotifierType DEF AfterEmit
<1>3. CASE n.job # "escalation" /\ n.leads # {}
  <2> DEFINE l == CHOOSE l \in n.leads : TRUE
             x == [n EXCEPT !.pc = "suppress", !.to = l, !.row = FirstRow, !.leads = n.leads \ {l}]
  <2>1. l \in n.leads /\ l \in Leads /\ FirstRow \in NotifRows
    BY <1>3, NotificationsAssumption DEF Notifier, FirstRow
  <2> HIDE DEF l
  <2>2. x \in Notifier /\ x.loaded = n.loaded /\ x.pc = "suppress"
    BY <2>1 DEF Notifier, NotifierPoints
  <2>3. AfterEmit(n) = x
    BY <1>3 DEF AfterEmit, l
  <2> HIDE DEF x
  <2> QED BY <2>2, <2>3 DEF Pursues
<1> QED BY <1>1, <1>2, <1>3

\* A notifier at another point, with the same copies.
LEMMA GoesOnType ==
  ASSUME NEW n \in Notifier, NEW point \in NotifierPoints \ {"deliver"},
         point \in {"markSent", "markFailed"} => n.pc \in {"deliver", "markSent"}
  PROVE  /\ [n EXCEPT !.pc = point] \in Notifier
         /\ \A r : Pursues([n EXCEPT !.pc = point], r) => Pursues(n, r)
<1> DEFINE x == [n EXCEPT !.pc = point]
<1>1. x \in Notifier /\ x.loaded = n.loaded /\ x.row = n.row /\ x.pc = point
  BY DEF Notifier
<1> HIDE DEF x
<1>2. \A r : Pursues(x, r) => Pursues(n, r)
  BY <1>1 DEF Pursues
<1> QED BY <1>1, <1>2 DEF x

\* The statements of emit().
LEMMA EmitKeepsInv ==
  ASSUME NotificationsInv, NEW p \in Notifiers, EmitStep(p)
  PROVE  NotificationsInv' /\ StaysSettled
<1> DEFINE n == notifier[p]
<1>0. /\ n \in Notifier /\ notif \in [NotifRows -> Row] /\ events \in 0..MaxEvents
      /\ \A r : Pursues(n, r) => Pursued(r)
      /\ \A r \in NotifRows : notif[r].level <= MaxLevels[notif[r].prio]
  BY PursuedByOne DEF NotificationsInv, NotificationsTypeOK
<1>1. AfterEmit(n) \in Notifier /\ \A r : Pursues(AfterEmit(n), r) => Pursued(r)
  BY <1>0, AfterEmitType
<1>2. events' = events
  BY DEF EmitStep, Suppress, Insert, InsertDuplicate, SendNow, MarkSent, MarkFailed
<1>3. CASE Suppress(p)
  <2> DEFINE x == [n EXCEPT !.pc = "insert"]
  <2>1. x \in Notifier /\ \A r : Pursues(x, r) => Pursued(r)
    BY <1>0, GoesOnType DEF NotifierPoints
  <2>2. notifier' = [notifier EXCEPT ![p] = x]
    BY <1>3 DEF Suppress, NotifierGoes
  <2>3. PICK gone \in SUBSET NotifRows :
          /\ \A r \in gone : notif[r].status = "pending"
          /\ notif' = [r \in NotifRows |->
               IF r \in gone THEN [notif[r] EXCEPT !.status = "suppressed"] ELSE notif[r]]
    BY <1>3 DEF Suppress
  <2>4. ASSUME NEW r \in NotifRows
        PROVE  /\ notif'[r] \in Row /\ notif'[r].level = notif[r].level
               /\ notif'[r].prio = notif[r].prio /\ notif'[r].acked = notif[r].acked
               /\ notif'[r].status = notif[r].status
                    \/ (notif[r].status = "pending" /\ notif'[r].status = "suppressed")
    <3>1. notif[r] \in Row
      BY <1>0
    <3>2. /\ [notif[r] EXCEPT !.status = "suppressed"] \in Row
          /\ [notif[r] EXCEPT !.status = "suppressed"].status = "suppressed"
          /\ [notif[r] EXCEPT !.status = "suppressed"].level = notif[r].level
          /\ [notif[r] EXCEPT !.status = "suppressed"].prio = notif[r].prio
          /\ [notif[r] EXCEPT !.status = "suppressed"].acked = notif[r].acked
      BY <3>1 DEF Row
    <3> QED BY <2>3, <3>1, <3>2
  <2>5. RowsStepSoundly
    BY <1>0, <2>3, <2>4 DEF RowsStepSoundly, NotificationsInv, AckedHasLeft
  <2> QED BY <1>0, <1>2, <2>1, <2>2, <2>5, NotifierStep
<1>4. CASE Insert(p)
  <2> DEFINE r == CHOOSE r \in FreeRows : TRUE
             y == [status |-> "pending", kind |-> n.event.kind, prio |-> n.event.prio,
                   to |-> n.to, ackRequired |-> n.event.ackRequired, acked |-> FALSE,
                   level |-> 0, late |-> FALSE]
             x == [n EXCEPT !.pc = "deliver", !.row = r]
  <2>1. r \in NotifRows /\ notif[r].status = "none"
    <3>1. FreeRows # {}
      BY <1>4 DEF Insert
    <3> QED BY <3>1 DEF FreeRows
  <2>2. /\ notif' = [notif EXCEPT ![r] = y]
        /\ notifier' = [notifier EXCEPT ![p] = x]
    BY <1>4 DEF Insert
  <2> HIDE DEF r
  <2>3. x \in Notifier /\ x.loaded = n.loaded /\ x.row = r
    BY <1>0, <2>1 DEF Notifier, NotifierPoints
  <2>4. ~notif[r].acked
    BY <2>1 DEF NotificationsInv, AckedHasLeft
  <2>5. y \in Row /\ y.level = 0 /\ ~y.acked /\ y.prio \in Priorities
    BY <1>0 DEF Row, Notifier, EmitCall, MaxLevel
  <2>6. 0 <= MaxLevels[y.prio]
    BY <2>5 DEF MaxLevels
  <2> HIDE DEF x, y
  <2>7. RowsStepSoundly
    BY <1>0, <2>2, <2>4, <2>5, <2>6 DEF RowsStepSoundly, NotificationsInv, AckedHasLeft
  <2>8. ASSUME NEW q \in NotifRows, notif[q].acked, Pursues(x, q)
        PROVE  Pursued(q)
    <3>1. Pursues(n, q)
      BY <2>3, <2>4, <2>8 DEF Pursues
    <3> QED BY <1>0, <3>1
  <2> QED BY <1>0, <1>2, <2>2, <2>3, <2>7, <2>8, NotifierStep
<1>5. CASE InsertDuplicate(p)
  BY <1>0, <1>1, <1>2, <1>5, RowsStay, NotifierStep DEF InsertDuplicate, EmitReturns
<1>6. CASE SendNow(p)
  <2> DEFINE x == [n EXCEPT !.pc = "markSent"]
  <2>1. x \in Notifier /\ \A r : Pursues(x, r) => Pursued(r)
    BY <1>0, <1>6, GoesOnType DEF NotifierPoints, SendNow, NotifierAt
  <2>2. notifier' = [notifier EXCEPT ![p] = x] /\ UNCHANGED notif
    BY <1>6 DEF SendNow, NotifierGoes
  <2> HIDE DEF x
  <2> QED BY <1>0, <1>2, <2>1, <2>2, RowsStay, NotifierStep
<1>7. CASE MarkSent(p)
  <2>1. n.row \in NotifRows
    BY <1>0 DEF Notifier
  <2>2. CASE WriteStatus(n.row, "sent") /\ EmitReturns(p)
    <3>1. RowsStepSoundly
      BY <2>1, <2>2, StatusStep
    <3> QED BY <1>0, <1>1, <1>2, <2>2, <3>1, NotifierStep DEF EmitReturns
  <2>3. CASE NotifierGoes(p, "markFailed") /\ UNCHANGED notif
    <3> DEFINE x == [n EXCEPT !.pc = "markFailed"]
    <3>1. x \in Notifier /\ \A r : Pursues(x, r) => Pursued(r)
      BY <1>0, <1>7, GoesOnType DEF NotifierPoints, MarkSent, NotifierAt
    <3>2. notifier' = [notifier EXCEPT ![p] = x]
      BY <2>3 DEF NotifierGoes
    <3> HIDE DEF x
    <3> QED BY <1>0, <1>2, <2>3, <3>1, <3>2, RowsStay, NotifierStep
  <2> QED BY <1>7, <2>2, <2>3 DEF MarkSent
<1>8. CASE MarkFailed(p)
  <2>1. n.row \in NotifRows /\ Pursues(n, n.row)
    BY <1>0, <1>8 DEF Notifier, MarkFailed, NotifierAt, Pursues
  <2>2. RowsStepSoundly
    BY <1>0, <1>8, <2>1, StatusStep DEF MarkFailed
  <2> QED BY <1>0, <1>1, <1>2, <1>8, <2>2, NotifierStep DEF MarkFailed, EmitReturns
<1> QED BY <1>3, <1>4, <1>5, <1>6, <1>7, <1>8 DEF EmitStep

\* A runner or a digest that is called loads rows nobody has acknowledged.
LEMMA CronKeepsInv ==
  ASSUME NotificationsInv, NEW p \in Notifiers, RunEscalations(p) \/ FlushDigest(p)
  PROVE  NotificationsInv' /\ StaysSettled
<1>1. PICK found \in SUBSET NotifRows, point \in {"nextRow", "nextRecipient"},
           task \in {"escalation", "digest"} :
        /\ \A r \in found : ~notif[r].acked
        /\ notifier' = [notifier EXCEPT ![p] =
             [IdleNotifier EXCEPT !.pc = point, !.job = task,
                !.loaded = {[row |-> r, level |-> notif[r].level] : r \in found}]]
  <2>1. CASE RunEscalations(p)
    <3>1. \A r \in {r \in NotifRows : Overdue(r)} : ~notif[r].acked
      BY DEF Overdue
    <3> QED BY <2>1, <3>1 DEF RunEscalations
  <2>2. CASE FlushDigest(p)
    <3>1. \A r \in {r \in NotifRows : notif[r].status = "pending"} : ~notif[r].acked
      BY DEF NotificationsInv, AckedHasLeft
    <3> QED BY <2>2, <3>1 DEF FlushDigest
  <2> QED BY <2>1, <2>2
<1> DEFINE copies == {[row |-> r, level |-> notif[r].level] : r \in found}
           x == [IdleNotifier EXCEPT !.pc = point, !.job = task, !.loaded = copies]
<1>2. copies \in SUBSET Loaded /\ \A y \in copies : y.row \in found
  BY DEF NotificationsInv, NotificationsTypeOK, Row, Loaded
<1> HIDE DEF copies
<1>3. x \in Notifier /\ x.loaded = copies /\ x.pc = point
  BY <1>2, IdleNotifierType DEF Notifier, NotifierPoints
<1>4. notifier' = [notifier EXCEPT ![p] = x]
  BY <1>1 DEF copies
<1> HIDE DEF x
<1>5. \A r \in NotifRows : notif[r].acked /\ Pursues(x, r) => Pursued(r)
  BY <1>1, <1>2, <1>3 DEF Pursues
<1>6. UNCHANGED <<notif, events>> /\ events \in 0..MaxEvents
  BY DEF RunEscalations, FlushDigest, NotificationsInv, NotificationsTypeOK
<1> QED BY <1>3, <1>4, <1>5, <1>6, RowsStay, NotifierStep

\* The loop of the runner: a row in hand is pursued.
LEMMA RunnerKeepsInv ==
  ASSUME NotificationsInv, NEW p \in Notifiers, RunnerStep(p)
  PROVE  NotificationsInv' /\ StaysSettled
<1> DEFINE n == notifier[p]
<1>0. /\ n \in Notifier /\ notif \in [NotifRows -> Row] /\ events \in 0..MaxEvents
      /\ \A r : Pursues(n, r) => Pursued(r)
      /\ \A r \in NotifRows : notif[r].level <= MaxLevels[notif[r].prio]
  BY PursuedByOne DEF NotificationsInv, NotificationsTypeOK
<1>1. events' = events
  BY DEF RunnerStep, EscalateOne, Exhaust, RunEnds
<1>2. ASSUME NEW y \in Loaded, y \in n.loaded, NEW e \in EmitCall, EmitFor(p, y, e),
             RowsStepSoundly
      PROVE  NotificationsInv' /\ StaysSettled
  <2> DEFINE x == [n EXCEPT !.pc = "suppress", !.event = e, !.to = notif[y.row].to,
                            !.loaded = n.loaded \ {y}]
  <2>1. notif[y.row].to \in Leads
    BY <1>0 DEF Loaded, Row
  <2>2. x \in Notifier /\ x.loaded \subseteq n.loaded /\ x.pc = "suppress"
    BY <1>0, <2>1 DEF Notifier, NotifierPoints
  <2>3. notifier' = [notifier EXCEPT ![p] = x]
    BY <1>2 DEF EmitFor
  <2> HIDE DEF x
  <2>4. \A r : Pursues(x, r) => Pursues(n, r)
    BY <2>2 DEF Pursues
  <2> QED BY <1>0, <1>1, <1>2, <2>2, <2>3, <2>4, NotifierStep
<1>3. ASSUME NEW y \in Loaded, EscalateOne(p, y)
      PROVE  NotificationsInv' /\ StaysSettled
  <2> DEFINE r == y.row
             e == [kind |-> "escalation_alert", prio |-> notif[r].prio, ackRequired |-> TRUE]
             z == [notif[r] EXCEPT !.level = y.level + 1, !.late = FALSE]
  <2>1. /\ r \in NotifRows /\ y.level \in 0..MaxLevel /\ notif[r] \in Row
        /\ y \in n.loaded /\ y.level < MaxLevels[notif[r].prio]
        /\ notif' = [notif EXCEPT ![r] = z] /\ EmitFor(p, y, e)
    BY <1>0, <1>3 DEF Loaded, EscalateOne
  <2>2. notif[r].prio \in Priorities
    BY <2>1 DEF Row
  <2>3. MaxLevels[notif[r].prio] \in 0..3
    BY <2>2 DEF MaxLevels
  <2>4. y.level + 1 \in 0..MaxLevel /\ y.level + 1 <= MaxLevels[notif[r].prio]
    BY <2>1, <2>3 DEF MaxLevel
  <2>5. /\ z \in Row /\ z.level = y.level + 1 /\ z.prio = notif[r].prio
        /\ z.acked = notif[r].acked /\ z.status = notif[r].status
    BY <2>1, <2>4 DEF Row
  <2>6. Pursued(r)
    BY <1>0, <2>1 DEF Pursues
  <2>7. e \in EmitCall
    BY <2>2 DEF EmitCall, NotifKinds
  <2> HIDE DEF z, e, r
  <2>8. RowsStepSoundly
    BY <1>0, <2>1, <2>4, <2>5, <2>6 DEF RowsStepSoundly, NotificationsInv, AckedHasLeft
  <2> QED BY <1>2, <2>1, <2>7, <2>8
<1>4. ASSUME NEW y \in Loaded, Exhaust(p, y)
      PROVE  NotificationsInv' /\ StaysSettled
  <2> DEFINE e == [kind |-> "escalation_alert", prio |-> "critical", ackRequired |-> FALSE]
  <2>1. y.row \in NotifRows /\ y \in n.loaded /\ WriteStatus(y.row, "failed") /\ EmitFor(p, y, e)
    BY <1>4 DEF Loaded, Exhaust
  <2>2. Pursued(y.row)
    BY <1>0, <2>1 DEF Pursues
  <2>3. e \in EmitCall
    BY DEF EmitCall, NotifKinds, Priorities
  <2> HIDE DEF e
  <2>4. RowsStepSoundly
    BY <2>1, <2>2, StatusStep
  <2> QED BY <1>2, <2>1, <2>3, <2>4
<1>5. CASE RunEnds(p)
  BY <1>0, <1>1, <1>5, IdleNotifierType, RowsStay, NotifierStep DEF RunEnds, NotifierStops
<1> QED BY <1>3, <1>4, <1>5 DEF RunnerStep

\* The loop of the digest drops copies, and writes sent.
LEMMA DigestKeepsInv ==
  ASSUME NotificationsInv, NEW p \in Notifiers, DigestStep(p)
  PROVE  NotificationsInv' /\ StaysSettled
<1> DEFINE n == notifier[p]
<1>0. /\ n \in Notifier /\ events \in 0..MaxEvents
      /\ \A r : Pursues(n, r) => Pursued(r)
  BY PursuedByOne DEF NotificationsInv, NotificationsTypeOK
<1>1. events' = events
  BY DEF DigestStep, DigestSent, DigestNotSent, MarkFlushed, RecipientDone, FlushEnds
<1>2. ASSUME NEW point \in {"nextRecipient", "markFlushed"}, NEW l \in Leads,
             NEW left \in SUBSET n.loaded, RowsStepSoundly,
             notifier' = [notifier EXCEPT ![p] = [n EXCEPT !.pc = point, !.to = l, !.loaded = left]]
      PROVE  NotificationsInv' /\ StaysSettled
  <2> DEFINE x == [n EXCEPT !.pc = point, !.to = l, !.loaded = left]
  <2>1. x \in Notifier /\ x.loaded \subseteq n.loaded /\ x.pc = point
    BY <1>0 DEF Notifier, NotifierPoints
  <2>2. notifier' = [notifier EXCEPT ![p] = x]
    BY <1>2
  <2> HIDE DEF x
  <2>3. \A r : Pursues(x, r) => Pursues(n, r)
    BY <2>1 DEF Pursues
  <2> QED BY <1>0, <1>1, <1>2, <2>1, <2>2, <2>3, NotifierStep
<1>3. n = [n EXCEPT !.pc = n.pc, !.to = n.to, !.loaded = n.loaded] /\ n.to \in Leads
  BY <1>0 DEF Notifier
<1>4. ASSUME NEW l \in Leads, DigestSent(p, l) \/ DigestNotSent(p, l)
      PROVE  NotificationsInv' /\ StaysSettled
  <2>1. RowsStepSoundly
    BY <1>4, RowsStay DEF DigestSent, DigestNotSent
  <2>2. CASE DigestSent(p, l)
    <3>1. [n EXCEPT !.pc = "markFlushed", !.to = l]
            = [n EXCEPT !.pc = "markFlushed", !.to = l, !.loaded = n.loaded]
      BY <1>0 DEF Notifier
    <3>2. notifier' = [notifier EXCEPT ![p] = [n EXCEPT !.pc = "markFlushed", !.to = l]]
      BY <2>2 DEF DigestSent
    <3> QED BY <1>2, <2>1, <3>1, <3>2
  <2>3. CASE DigestNotSent(p, l)
    <3> DEFINE left == n.loaded \ ItemsOf(p, l)
    <3>1. [n EXCEPT !.loaded = left]
            = [n EXCEPT !.pc = "nextRecipient", !.to = n.to, !.loaded = left]
      BY <1>0, <2>3 DEF Notifier, DigestNotSent, NotifierAt
    <3>2. notifier' = [notifier EXCEPT ![p] = [n EXCEPT !.loaded = left]]
      BY <2>3 DEF DigestNotSent
    <3>3. left \in SUBSET n.loaded
      OBVIOUS
    <3> HIDE DEF left
    <3> QED BY <1>2, <1>3, <2>1, <3>1, <3>2, <3>3
  <2> QED BY <1>4, <2>2, <2>3
<1>5. ASSUME NEW y \in Loaded, MarkFlushed(p, y)
      PROVE  NotificationsInv' /\ StaysSettled
  <2> DEFINE left == n.loaded \ {y}
  <2>1. RowsStepSoundly
    BY <1>5, StatusStep DEF MarkFlushed, Loaded
  <2>2. [n EXCEPT !.loaded = left]
          = [n EXCEPT !.pc = "markFlushed", !.to = n.to, !.loaded = left]
    BY <1>0, <1>5 DEF Notifier, MarkFlushed, NotifierAt
  <2>3. notifier' = [notifier EXCEPT ![p] = [n EXCEPT !.loaded = left]]
    BY <1>5 DEF MarkFlushed
  <2>4. left \in SUBSET n.loaded
    OBVIOUS
  <2> HIDE DEF left
  <2> QED BY <1>2, <1>3, <2>1, <2>2, <2>3, <2>4
<1>6. CASE RecipientDone(p)
  <2>1. RowsStepSoundly
    BY <1>6, RowsStay DEF RecipientDone
  <2>2. [n EXCEPT !.pc = "nextRecipient", !.to = SupportLead]
          = [n EXCEPT !.pc = "nextRecipient", !.to = SupportLead, !.loaded = n.loaded]
    BY <1>0 DEF Notifier
  <2>3. notifier' = [notifier EXCEPT ![p] = [n EXCEPT !.pc = "nextRecipient", !.to = SupportLead]]
    BY <1>6 DEF RecipientDone
  <2> QED BY <1>2, <2>1, <2>2, <2>3, NotificationsAssumption
<1>7. CASE FlushEnds(p)
  BY <1>0, <1>1, <1>7, IdleNotifierType, RowsStay, NotifierStep DEF FlushEnds, NotifierStops
<1> QED BY <1>4, <1>5, <1>6, <1>7 DEF DigestStep

\* What the case pipeline hands to emit().
LEMMA EmitsAreCalls ==
  ASSUME NEW o \in DOMAIN Emits PROVE Emits[o] \subseteq EmitCall
<1>1. o \in {"triaged", "escalated", "outageRouted", "outageNoted", "corrected",
              "autoResolved", "replyReview", "reminder"}
  BY DEF Emits
<1>2. \E kinds \in SUBSET NotifKinds, prios \in SUBSET Priorities, acks \in SUBSET BOOLEAN :
        Emits[o] = [kind : kinds, prio : prios, ackRequired : acks]
  <2>1. /\ "escalation_alert" \in NotifKinds /\ "status_update" \in NotifKinds
        /\ "approval_request" \in NotifKinds /\ "stale_case_alert" \in NotifKinds
        /\ "normal" \in Priorities /\ "high" \in Priorities /\ "critical" \in Priorities
    BY DEF NotifKinds, Priorities
  <2>2. CASE o = "triaged"
    BY <2>1, <2>2 DEF Emits
  <2>3. CASE o = "escalated"
    BY <2>1, <2>3 DEF Emits
  <2>4. CASE o = "outageRouted"
    BY <2>1, <2>4 DEF Emits
  <2>5. CASE o = "corrected"
    BY <2>1, <2>5 DEF Emits
  <2>6. CASE o = "autoResolved"
    BY <2>1, <2>6 DEF Emits
  <2>7. CASE o = "replyReview"
    BY <2>1, <2>7 DEF Emits
  <2>8. CASE o = "reminder"
    BY <2>1, <2>8 DEF Emits
  <2>9. CASE o = "outageNoted"
    BY <2>1, <2>9 DEF Emits
  <2> QED BY <1>1, <2>2, <2>3, <2>4, <2>5, <2>6, <2>7, <2>8, <2>9
<1>3. PICK kinds \in SUBSET NotifKinds, prios \in SUBSET Priorities, acks \in SUBSET BOOLEAN :
        Emits[o] = [kind : kinds, prio : prios, ackRequired : acks]
  BY <1>2
<1> QED BY <1>3 DEF EmitCall

\* Every step keeps the invariant, and what was settled stays so.
LEMMA NotificationsStep ==
  ASSUME NotificationsInv, [NotificationsNext]_notificationsVars
  PROVE  NotificationsInv' /\ StaysSettled
<1>0. /\ notif \in [NotifRows -> Row] /\ events \in 0..MaxEvents
      /\ notifier \in [Notifiers -> Notifier]
      /\ \A r \in NotifRows : notif[r].level <= MaxLevels[notif[r].prio]
  BY DEF NotificationsInv, NotificationsTypeOK
<1>1. ASSUME NEW p \in Emitters, NEW o \in Occasions, Occur(p, o)
      PROVE  NotificationsInv' /\ StaysSettled
  <2>1. \E e \in Emits[o], leads \in Audiences(o) : \E l \in leads :
          notifier' = [notifier EXCEPT ![p] = LeadCall(e, leads, l)]
    BY <1>1 DEF Occur
  <2>2. PICK e \in Emits[o], leads \in SUBSET Leads, l \in Leads :
          notifier' = [notifier EXCEPT ![p] = LeadCall(e, leads, l)]
    <3>1. \A leads \in Audiences(o) : leads \subseteq Leads
      BY NotificationsAssumption DEF Audiences
    <3> QED BY <2>1, <3>1
  <2>3. e \in EmitCall
    <3>1. /\ o \in {"triaged", "escalated", "outageRouted", "outageNoted", "corrected",
                    "autoResolved", "replyReview", "reminder"}
          /\ o \in DOMAIN Emits
      BY NotificationsAssumption DEF Emits
    <3>2. Emits[o] \subseteq EmitCall
      BY <3>1, EmitsAreCalls
    <3> QED BY <3>2
  <2> DEFINE x == LeadCall(e, leads, l)
  <2>4. x \in Notifier /\ x.loaded = {} /\ x.pc = "suppress"
    <3>1. IdleNotifier.loaded = {}
      BY DEF IdleNotifier
    <3> QED BY <2>2, <2>3, <3>1, IdleNotifierType DEF LeadCall, Notifier, NotifierPoints
  <2>5. notifier' = [notifier EXCEPT ![p] = x]
    BY <2>2
  <2> HIDE DEF x
  <2>6. \A r : ~Pursues(x, r)
    BY <2>4 DEF Pursues
  <2>7. p \in Notifiers /\ UNCHANGED notif /\ events' \in 0..MaxEvents
    BY <1>0, <1>1, NotificationsAssumption DEF Notifiers, Occur
  <2> QED BY <2>4, <2>5, <2>6, <2>7, RowsStay, NotifierStep
<1>2. ASSUME NEW p \in Crons, RunEscalations(p) \/ FlushDigest(p)
      PROVE  NotificationsInv' /\ StaysSettled
  BY <1>2, CronKeepsInv DEF Notifiers
<1>3. ASSUME NEW p \in Notifiers, StepThrows(p)
      PROVE  NotificationsInv' /\ StaysSettled
  <2> DEFINE n == notifier[p]
             x == [IdleNotifier EXCEPT !.pc = "nextRow", !.job = "escalation", !.loaded = n.loaded]
  <2>1. n \in Notifier /\ \A r : Pursues(n, r) => Pursued(r)
    BY <1>0, PursuedByOne
  <2>2. x \in Notifier /\ x.loaded = n.loaded /\ x.pc = "nextRow"
    BY <2>1, IdleNotifierType DEF Notifier, NotifierPoints
  <2>3. \/ notifier' = [notifier EXCEPT ![p] = x]
        \/ notifier' = [notifier EXCEPT ![p] = IdleNotifier]
    BY <1>3 DEF StepThrows, NotifierStops
  <2> HIDE DEF x
  <2>4. \A r : Pursues(x, r) => Pursues(n, r)
    BY <2>2 DEF Pursues
  <2>5. UNCHANGED <<notif, events>>
    BY <1>3 DEF StepThrows
  <2>6. RowsStepSoundly
    BY <2>5, RowsStay
  <2> QED BY <1>0, <2>1, <2>2, <2>3, <2>4, <2>5, <2>6, IdleNotifierType, NotifierStep
<1>4. ASSUME NEW r \in NotifRows, Acknowledge(r) \/ DeadlinePasses(r)
      PROVE  NotificationsInv' /\ StaysSettled
  <2>1. PICK y \in Row : /\ notif' = [notif EXCEPT ![r] = y]
                         /\ y.level = notif[r].level /\ y.prio = notif[r].prio
                         /\ \/ y.status = "acked"
                            \/ y.status = notif[r].status /\ y.acked = notif[r].acked
    <3>1. notif[r] \in Row
      BY <1>0
    <3>2. CASE Acknowledge(r)
      <4> DEFINE y == [notif[r] EXCEPT !.status = "acked", !.acked = TRUE]
      <4>1. y \in Row /\ y.level = notif[r].level /\ y.prio = notif[r].prio /\ y.status = "acked"
        BY <3>1 DEF Row
      <4>2. notif' = [notif EXCEPT ![r] = y]
        BY <3>2 DEF Acknowledge
      <4> QED BY <4>1, <4>2
    <3>3. CASE DeadlinePasses(r)
      <4> DEFINE y == [notif[r] EXCEPT !.late = TRUE]
      <4>1. /\ y \in Row /\ y.level = notif[r].level /\ y.prio = notif[r].prio
            /\ y.status = notif[r].status /\ y.acked = notif[r].acked
        BY <3>1 DEF Row
      <4>2. notif' = [notif EXCEPT ![r] = y]
        BY <3>3 DEF DeadlinePasses
      <4> QED BY <4>1, <4>2
    <3> QED BY <1>4, <3>2, <3>3
  <2>2. UNCHANGED <<notifier, events>>
    BY <1>4 DEF Acknowledge, DeadlinePasses
  <2>3. RowsStepSoundly
    BY <1>0, <2>1 DEF RowsStepSoundly, NotificationsInv, AckedHasLeft
  <2>4. NotificationsInv'
    BY <1>0, <2>2, <2>3 DEF RowsStepSoundly, NotificationsInv, NotificationsTypeOK, AckedHasLeft
  <2>5. \A q \in NotifRows : Pursued(q)' <=> Pursued(q)
    BY <2>2 DEF Pursued
  <2> QED BY <2>3, <2>4, <2>5 DEF RowsStepSoundly, StaysSettled
<1>5. CASE NotifierDies \/ UNCHANGED notificationsVars
  <2>1. RowsStepSoundly /\ events' = events
    BY <1>5, RowsStay DEF NotifierDies, notificationsVars
  <2>2. \A p \in Notifiers : notifier'[p] \in {IdleNotifier, notifier[p]}
    BY <1>5 DEF NotifierDies, notificationsVars
  <2>3. notifier' \in [Notifiers -> Notifier]
    BY <1>0, <1>5, IdleNotifierType DEF NotifierDies, notificationsVars
  <2>4. NotificationsInv'
    BY <1>0, <2>1, <2>3 DEF RowsStepSoundly, NotificationsInv, NotificationsTypeOK, AckedHasLeft
  <2>5. ASSUME NEW q \in NotifRows, ~Pursued(q) PROVE ~Pursued(q)'
    <3>1. \A p \in Notifiers : ~Pursues(notifier'[p], q)
      BY <2>2, <2>5, IdleNotifierType, PursuedByOne
    <3> QED BY <3>1 DEF Pursued, Pursues
  <2> QED BY <2>1, <2>4, <2>5 DEF RowsStepSoundly, StaysSettled
<1> QED BY <1>1, <1>2, <1>3, <1>4, <1>5, EmitKeepsInv, RunnerKeepsInv, DigestKeepsInv
    DEF NotificationsNext

\* The invariant holds throughout.
LEMMA NotificationsInvHolds == NotificationsSpec => []NotificationsInv
<1>1. NotificationsInit => NotificationsInv
  <2> SUFFICES ASSUME NotificationsInit PROVE NotificationsInv
    OBVIOUS
  <2>1. NoRow \in Row /\ NoRow.level = 0 /\ ~NoRow.acked /\ NoRow.prio = "normal"
    BY NotificationsAssumption DEF NoRow, NoEvent, Row, NotifKinds, Priorities, MaxLevel
  <2>2. 0 <= MaxLevels["normal"]
    BY DEF MaxLevels, Priorities
  <2>3. events \in 0..MaxEvents
    BY NotificationsAssumption DEF NotificationsInit
  <2> QED BY <2>1, <2>2, <2>3, IdleNotifierType
      DEF NotificationsInit, NotificationsInv, NotificationsTypeOK, AckedHasLeft
<1>2. NotificationsInv /\ [NotificationsNext]_notificationsVars => NotificationsInv'
  BY NotificationsStep
<1> QED BY <1>1, <1>2, PTL DEF NotificationsSpec

\* The rows and the notifiers keep their types, for any notifiers and occasions: no
\* race of runners raises a row above the levels of its policy.
THEOREM NotificationsTypeCorrect == NotificationsSpec => []NotificationsTypeOK
<1>1. NotificationsInv => NotificationsTypeOK
  BY DEF NotificationsInv
<1> QED BY <1>1, NotificationsInvHolds, PTL

\* A row that was acknowledged and that no notifier holds a copy of is never
\* escalated, failed or taken up again, however many runners, digests and emitters
\* there are and whatever they write over its status.
THEOREM AckedIsSettledHolds == NotificationsSpec => AckedIsSettled
<1>1. NotificationsInv /\ [NotificationsNext]_notificationsVars => StaysSettled
  BY NotificationsStep
<1>2. StaysSettled =>
        [\A r \in NotifRows :
           notif[r].acked /\ ~Pursued(r) =>
             /\ ~Pursued(r)' /\ notif'[r].level = notif[r].level
             /\ notif'[r].status = "failed" => notif[r].status = "failed"]_notificationsVars
  BY DEF StaysSettled
<1> QED BY <1>1, <1>2, NotificationsInvHolds, PTL DEF NotificationsSpec, AckedIsSettled

=============================================================================
