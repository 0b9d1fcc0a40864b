------------------------------ MODULE Ingress ------------------------------
(***************************************************************************)
(* The intake of messages: the webhooks and the four ingest functions, on  *)
(* the tables signals, identities, conversations and cases.                *)
(*                                                                         *)
(* A delivery is one HTTP call that carries a message.  Its steps are the  *)
(* database statements of the function that handles its channel, in the    *)
(* order of that function; other deliveries run in between, and a step may *)
(* throw, which answers 500, so that the sender delivers again.            *)
(***************************************************************************)
EXTENDS FiniteSets

CONSTANTS
  Messages,    \* bound: messages that are ever sent
  Envelope,    \* of each message: channel, sender, thread and parent
  Senders, Threads,
  Deliveries,  \* bound: HTTP calls in flight
  CaseIds,     \* bound: cases that are ever opened
  Null         \* SQL NULL

Channels == {"email", "external", "canary", "form", "chat", "followUp"}

\* parent: the message an email answers, or the first message of the session a
\* chat message belongs to.  thread: threadId of the external webhook.
ASSUME IngressAssumption ==
  /\ Messages # {} /\ Null \notin Messages \cup CaseIds \cup Threads
  /\ Envelope \in [Messages -> [channel : Channels, sender : Senders,
                                thread : Threads \cup {Null},
                                parent : Messages \cup {Null}]]

VARIABLES
  signal,        \* the row of a message, found by (source_type, source_ref)
  identities,    \* senders with an identity
  conversations, \* thread keys with a conversation
  intake,        \* cases: status, the message that opened it, its thread key
  triage,        \* cases for which a triage job was dispatched
  delivery,      \* the calls in flight
  answer         \* what the sender of a message was last told

ingressVars == <<signal, identities, conversations, intake, triage, delivery, answer>>
rowVars == <<signal, identities, conversations, intake, triage>>

Channel(m) == Envelope[m].channel

\* deriveThreadKey() and its like: the conversation a message belongs to.
ThreadKey(m) ==
  IF Channel(m) \in {"external", "canary"} THEN <<"external", Envelope[m].thread>>
  ELSE IF Channel(m) = "form" THEN <<"form", Envelope[m].sender>>
  ELSE IF Envelope[m].parent # Null THEN <<"message", Envelope[m].parent>>
  ELSE <<"message", m>>
ThreadKeys == {ThreadKey(m) : m \in Messages}

ASSUME KeyAssumption == Null \notin ThreadKeys

\* signals.channel_thread_id: what a later message of the thread is matched with.
ChannelThread(m) ==
  IF Channel(m) \in {"email", "external", "canary"} THEN ThreadKey(m) ELSE Null

\* An email is only matched when it answers another one.
MayThread(m) == /\ Channel(m) \in {"email", "external", "canary"}
                /\ Channel(m) = "email" => Envelope[m].parent # Null

Signal == [status : {"none", "received", "normalized", "linked"},
           case : CaseIds \cup {Null}]
IntakeCase == [status : {"none", "new", "enriching", "resolved"},
               opener : Messages \cup {Null}, key : ThreadKeys \cup {Null}]

DeliveryPoints == {"idle", "usage", "signal", "identity", "addIdentity", "conversation",
           "addConversation", "session", "thread", "case", "enrich", "link", "dispatch",
           "linked", "openCase", "attach", "close"}

\* limited: getOuStatus() said blocked.
Delivery == [pc : DeliveryPoints, msg : Messages, case : CaseIds \cup {Null},
             limited : BOOLEAN]

-----------------------------------------------------------------------------
(* The order of the statements in each ingest function.                    *)

EmailSteps ==
  [idle |-> "signal", signal |-> "identity", identity |-> "conversation",
   conversation |-> "thread", thread |-> "usage", usage |-> "case",
   case |-> "enrich", enrich |-> "link", link |-> "dispatch", dispatch |-> "linked"]
ExternalSteps ==
  [idle |-> "signal", signal |-> "identity", identity |-> "conversation",
   conversation |-> "thread", thread |-> "usage", usage |-> "case",
   case |-> "enrich", enrich |-> "link", link |-> "dispatch", dispatch |-> "linked"]
FormSteps ==
  [idle |-> "signal", signal |-> "identity", identity |-> "conversation",
   conversation |-> "usage", usage |-> "case",
   case |-> "enrich", enrich |-> "link", link |-> "dispatch", dispatch |-> "linked"]
ChatSteps ==
  [idle |-> "usage", usage |-> "signal", signal |-> "identity",
   identity |-> "addConversation", conversation |-> "case",
   case |-> "enrich", enrich |-> "link", link |-> "dispatch", dispatch |-> "linked"]
FollowUpSteps ==
  [idle |-> "session", session |-> "signal", signal |-> "openCase", openCase |-> "attach"]

StepsOf == [email |-> EmailSteps, external |-> ExternalSteps, canary |-> ExternalSteps,
          form |-> FormSteps, chat |-> ChatSteps, followUp |-> FollowUpSteps]

-----------------------------------------------------------------------------
NoCall == [pc |-> "idle", msg |-> CHOOSE m \in Messages : TRUE, case |-> Null,
         limited |-> FALSE]
CallAt(d, point) == delivery[d].pc = point
Msg(d) == delivery[d].msg
CallGoes(d, point) == delivery' = [delivery EXCEPT ![d] = [@ EXCEPT !.pc = point]]
\* The statement that follows the one at point.
Continue(d, point) == CallGoes(d, StepsOf[Channel(Msg(d))][point])

AnswerCall(d, what) ==
  /\ answer' = [answer EXCEPT ![Msg(d)] = what]
  /\ delivery' = [delivery EXCEPT ![d] = NoCall]

\* A webhook call: the first one, a retry after an error or a lost answer, or
\* a second delivery of what was accepted.  A chat widget does not retry.
Receive(d, m) ==
  /\ CallAt(d, "idle")
  /\ Channel(m) \in {"chat", "followUp"} => answer[m] = "none" /\ signal[m].status = "none"
                                            /\ \A e \in Deliveries : Msg(e) = m => CallAt(e, "idle")
  /\ Channel(m) = "followUp" => answer[Envelope[m].parent] # "none"   \* it needs the session id
  /\ Channel(m) = "email" /\ Envelope[m].parent # Null =>
       answer[Envelope[m].parent] # "none"
  /\ delivery' = [delivery EXCEPT ![d] =
       [NoCall EXCEPT !.pc = StepsOf[Channel(m)].idle, !.msg = m]]
  /\ UNCHANGED <<rowVars, answer>>

\* Mutant of CreateSignal: a row that is already there is used again.
CreateOrReuseSignal(d) ==
  /\ CallAt(d, "signal")
  /\ signal' = [signal EXCEPT ![Msg(d)] = [status |-> "received", case |-> Null]]
  /\ Continue(d, "signal")
  /\ UNCHANGED <<identities, conversations, intake, triage, answer>>

\* createSignal(); the update to "normalizing" is read by nobody.  A chat
\* message has a source_ref of its own.
CreateSignal(d) ==
  /\ CallAt(d, "signal") /\ signal[Msg(d)].status = "none"
  /\ signal' = [signal EXCEPT ![Msg(d)] = [status |-> "received", case |-> Null]]
  /\ Continue(d, "signal")
  /\ UNCHANGED <<identities, conversations, intake, triage, answer>>

\* 23505: "already processed, skipping".
SkipDuplicate(d) ==
  /\ CallAt(d, "signal") /\ signal[Msg(d)].status # "none"
  /\ AnswerCall(d, "duplicate")
  /\ UNCHANGED rowVars

\* findIdentityByEmail(), findIdentityByExternalRef().
FindIdentity(d) ==
  /\ CallAt(d, "identity")
  /\ \/ Envelope[Msg(d)].sender \in identities /\ Continue(d, "identity")
     \/ Envelope[Msg(d)].sender \notin identities /\ CallGoes(d, "addIdentity")
  /\ UNCHANGED <<rowVars, answer>>

\* createIdentity(): identities_dedup_idx refuses a second row for an address,
\* but not for an external sender, who has none.
CreateIdentity(d) ==
  /\ CallAt(d, "addIdentity")
  /\ Envelope[Msg(d)].sender \in identities => Channel(Msg(d)) \in {"external", "canary"}
  /\ identities' = identities \cup {Envelope[Msg(d)].sender}
  /\ Continue(d, "identity")
  /\ UNCHANGED <<signal, conversations, intake, triage, answer>>

\* findConversationByThreadKey(), and the update of the one that is found.
FindConversation(d) ==
  /\ CallAt(d, "conversation")
  /\ \/ ThreadKey(Msg(d)) \in conversations /\ Continue(d, "conversation")
     \/ ThreadKey(Msg(d)) \notin conversations /\ CallGoes(d, "addConversation")
  /\ UNCHANGED <<rowVars, answer>>

\* createConversation(): conversations_dedup_idx refuses a second row.
CreateConversation(d) ==
  /\ CallAt(d, "addConversation") /\ ThreadKey(Msg(d)) \notin conversations
  /\ conversations' = conversations \cup {ThreadKey(Msg(d))}
  /\ Continue(d, "conversation")
  /\ UNCHANGED <<signal, identities, intake, triage, answer>>

\* appendChatMessage() needs the conversation.
FindSession(d) ==
  /\ CallAt(d, "session") /\ ThreadKey(Msg(d)) \in conversations
  /\ Continue(d, "session")
  /\ UNCHANGED <<rowVars, answer>>

IsOpen(c) == intake[c].status \in {"new", "enriching"}

\* Mutant of OpenCasesOfThread: the thread is not compared.
OpenCasesOfProduct(m) ==
  {c \in CaseIds : IsOpen(c) /\ \E s \in Messages : signal[s].case = c}

\* findOpenCaseByChannelThreadId().
OpenCasesOfThread(m) ==
  {c \in CaseIds : IsOpen(c) /\ \E s \in Messages :
     signal[s].case = c /\ ChannelThread(s) = ChannelThread(m)}

\* The message joins an open case of its thread; the next statement links it.
FindThread(d) ==
  LET found == IF MayThread(Msg(d)) THEN OpenCasesOfThread(Msg(d)) ELSE {}
  IN /\ CallAt(d, "thread")
     /\ \/ \E c \in found : delivery' = [delivery EXCEPT ![d] =
                              [@ EXCEPT !.pc = "link", !.case = c]]
        \/ found = {} /\ Continue(d, "thread")
     /\ UNCHANGED <<rowVars, answer>>

\* getOuStatus(): the usage of the month is not part of this module.
CheckUsage(d) ==
  /\ CallAt(d, "usage")
  /\ \E limited \in BOOLEAN : delivery' = [delivery EXCEPT ![d] =
       [@ EXCEPT !.pc = StepsOf[Channel(Msg(d))].usage, !.limited = limited]]
  /\ UNCHANGED <<rowVars, answer>>

\* The monthly limit is reached, or the message is a smoke test: no case.
Withhold(d) ==
  /\ CallAt(d, "case") /\ (delivery[d].limited \/ Channel(Msg(d)) = "canary")
  /\ signal' = [signal EXCEPT ![Msg(d)] = [@ EXCEPT !.status = "linked"]]
  /\ AnswerCall(d, "withheld")
  /\ UNCHANGED <<identities, conversations, intake, triage>>

CreateCase(d) ==
  /\ CallAt(d, "case") /\ ~delivery[d].limited /\ Channel(Msg(d)) # "canary"
  /\ \E c \in CaseIds :
       /\ intake[c].status = "none"
       /\ intake' = [intake EXCEPT ![c] = [status |-> "new", opener |-> Msg(d),
                                           key |-> ThreadKey(Msg(d))]]
       /\ delivery' = [delivery EXCEPT ![d] = [@ EXCEPT !.pc = "enrich", !.case = c]]
  /\ UNCHANGED <<signal, identities, conversations, triage, answer>>

\* transitionCase(new, enriching).
StartEnriching(d) ==
  /\ CallAt(d, "enrich")
  /\ intake' = [intake EXCEPT ![delivery[d].case] = [@ EXCEPT !.status = "enriching"]]
  /\ Continue(d, "enrich")
  /\ UNCHANGED <<signal, identities, conversations, triage, answer>>

\* A message that opened its case goes on to the dispatch, one that joined a
\* case does not.
LinkSignal(d) ==
  /\ CallAt(d, "link")
  /\ signal' = [signal EXCEPT ![Msg(d)] =
                  [status |-> "normalized", case |-> delivery[d].case]]
  /\ \/ intake[delivery[d].case].opener = Msg(d) /\ Continue(d, "link")
     \/ intake[delivery[d].case].opener # Msg(d) /\ CallGoes(d, "linked")
  /\ UNCHANGED <<identities, conversations, intake, triage, answer>>

DispatchTriage(d) ==
  /\ CallAt(d, "dispatch")
  /\ triage' = triage \cup {delivery[d].case}
  /\ Continue(d, "dispatch")
  /\ UNCHANGED <<signal, identities, conversations, intake, answer>>

MarkLinked(d) ==
  /\ CallAt(d, "linked")
  /\ signal' = [signal EXCEPT ![Msg(d)] = [@ EXCEPT !.status = "linked"]]
  /\ AnswerCall(d, "accepted")
  /\ UNCHANGED <<identities, conversations, intake, triage>>

\* appendChatMessage(): the open case of the conversation.
FindOpenCase(d) ==
  LET found == {c \in CaseIds : IsOpen(c) /\ intake[c].key = ThreadKey(Msg(d))}
  IN /\ CallAt(d, "openCase")
     /\ \/ \E c \in found : delivery' = [delivery EXCEPT ![d] =
                              [@ EXCEPT !.pc = "attach", !.case = c]]
        \/ found = {} /\ CallGoes(d, "close")
     /\ UNCHANGED <<rowVars, answer>>

AttachMessage(d) ==
  /\ CallAt(d, "attach")
  /\ signal' = [signal EXCEPT ![Msg(d)] = [status |-> "linked", case |-> delivery[d].case]]
  /\ AnswerCall(d, "accepted")
  /\ UNCHANGED <<identities, conversations, intake, triage>>

\* ChatSessionClosedError, answered 409.
RefuseClosed(d) ==
  /\ CallAt(d, "close")
  /\ signal' = [signal EXCEPT ![Msg(d)] = [@ EXCEPT !.status = "linked"]]
  /\ AnswerCall(d, "closed")
  /\ UNCHANGED <<identities, conversations, intake, triage>>

\* A statement throws: 500 "will retry".  A unique violation is one reason, a
\* lost connection or the end of the process another.
DeliveryFails(d) ==
  /\ ~CallAt(d, "idle") /\ AnswerCall(d, "error")
  /\ UNCHANGED rowVars

\* The pipeline or an operator resolves a case, a person reopens it.
CaseMoves(c) ==
  /\ \/ intake[c].status = "enriching"
        /\ intake' = [intake EXCEPT ![c] = [@ EXCEPT !.status = "resolved"]]
     \/ intake[c].status = "resolved"
        /\ intake' = [intake EXCEPT ![c] = [@ EXCEPT !.status = "enriching"]]
  /\ UNCHANGED <<signal, identities, conversations, triage, delivery, answer>>

-----------------------------------------------------------------------------
IngressInit ==
  /\ signal = [m \in Messages |-> [status |-> "none", case |-> Null]]
  /\ identities = {} /\ conversations = {} /\ triage = {}
  /\ intake = [c \in CaseIds |-> [status |-> "none", opener |-> Null, key |-> Null]]
  /\ delivery = [d \in Deliveries |-> NoCall]
  /\ answer = [m \in Messages |-> "none"]

DeliveryStep(d) ==
  \/ CreateSignal(d) \/ SkipDuplicate(d)
  \/ FindIdentity(d) \/ CreateIdentity(d)
  \/ FindConversation(d) \/ CreateConversation(d) \/ FindSession(d)
  \/ FindThread(d) \/ CheckUsage(d) \/ Withhold(d)
  \/ CreateCase(d) \/ StartEnriching(d) \/ LinkSignal(d)
  \/ DispatchTriage(d) \/ MarkLinked(d)
  \/ FindOpenCase(d) \/ AttachMessage(d) \/ RefuseClosed(d)

IngressNext ==
  \/ \E d \in Deliveries :
       \/ \E m \in Messages : Receive(d, m)
       \/ DeliveryStep(d) \/ DeliveryFails(d)
  \/ \E c \in CaseIds : CaseMoves(c)

IngressSpec == IngressInit /\ [][IngressNext]_ingressVars

-----------------------------------------------------------------------------
(* Properties.                                                             *)

\* The tables and the calls have their types, a call beyond the creation of its
\* case has one, and a row points to a case that exists.
IngressTypeOK ==
  /\ signal \in [Messages -> Signal]
  /\ identities \subseteq Senders /\ conversations \subseteq ThreadKeys
  /\ intake \in [CaseIds -> IntakeCase] /\ triage \subseteq CaseIds
  /\ delivery \in [Deliveries -> Delivery]
  /\ answer \in [Messages -> {"none", "accepted", "duplicate", "withheld", "closed", "error"}]
  /\ \A d \in Deliveries : delivery[d].pc \in {"enrich", "link", "dispatch", "attach"} =>
       delivery[d].case # Null

\* A message opens one case at most, however often and concurrently it is
\* delivered and wherever an earlier delivery broke off.
OneCasePerMessage ==
  \A b, c \in CaseIds : intake[b].opener # Null /\ intake[b].opener = intake[c].opener => b = c

\* A message is only put into the case of its own thread or session.
JoinsItsThread ==
  \A m \in Messages : signal[m].case # Null =>
    LET opener == intake[signal[m].case].opener
    IN \/ opener = m
       \/ ChannelThread(m) # Null /\ ChannelThread(opener) = ChannelThread(m)
       \/ Channel(m) = "followUp" /\ ThreadKey(opener) = ThreadKey(m)

\* A message that is skipped as a duplicate was processed: it has its case, or
\* was withheld, or another delivery is at it.  The code breaks it: two first
\* messages of a sender race for the conversation, the loser is answered 500
\* after its signal is stored, and the retry is skipped.
DuplicateWasProcessed ==
  \A m \in Messages : answer[m] = "duplicate" =>
    \/ signal[m].case # Null \/ signal[m].status = "linked"
    \/ \E d \in Deliveries : Msg(d) = m /\ ~CallAt(d, "idle")
=============================================================================
