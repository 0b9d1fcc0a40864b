-------------------------------- MODULE Chat --------------------------------
(***************************************************************************)
(* A chat session: the widget in a visitor's page, the event streams it    *)
(* opens, the registry in the server's memory that maps the session to     *)
(* them, the operators who answer from the console, and the pipeline that  *)
(* answers by itself.  An event reaches the streams that are open when it  *)
(* is published, and nothing loads earlier messages into the widget.  One  *)
(* session; how its messages become a case is Ingress.                     *)
(***************************************************************************)
EXTENDS Lifecycle, Naturals, FiniteSets, Sequences

CONSTANTS
  Streams,       \* bound: connections of the page alive at the same time
  VisitorTexts,  \* what the visitor types, each once
  Repliers,      \* operators; each has one text to send, named after them
  MaxAsks,       \* bound: how often an operator tries to send it
  NoStream, NoIndex

\* Who has written a message is told from the message.
ASSUME ChatAssumption ==
  /\ NoStream \notin Streams /\ NoIndex \notin Nat /\ MaxAsks \in Nat /\ IsFiniteSet(Repliers)
  /\ Repliers \cap VisitorTexts = {} /\ {"answer", "ack"} \cap (Repliers \cup VisitorTexts) = {}

VARIABLES
  page,     \* the variables of the widget's script
  stream,   \* the connections, as both ends see them
  wire,     \* events on their way
  shown,    \* how often the page shows a message
  typed,    \* the requests of the widget
  chatCase, \* cases.status
  chatJob,  \* the job of the pipeline
  thread,   \* outbound signals of the case
  replier,  \* the requests of the operators
  asked,    \* how often an operator has sent the text
  told,     \* operators whose request was answered with ok
  owed      \* history: streams that were open when the pipeline had answered

streamVars == <<page, stream, wire, shown, owed>>
replyVars == <<thread, replier, asked, told>>
caseVars == <<chatCase, chatJob>>
chatVars == <<streamVars, typed, replyVars, caseVars>>

ChatMessages == VisitorTexts \cup Repliers \cup {"answer", "ack"}

\* The visitor's own message is echoed under the role of the pipeline's answers.
Role(m) == IF m \in Repliers THEN "operator" ELSE "agent"

\* asked: not subscribed yet.  open: both ends.  cut: the page has left, the
\* registry has not noticed.  ended: the server has left, the page has not noticed.
StreamStates == {"free", "asked", "open", "cut", "ended"}

Page == [sessionId : {"none", "held", "ended"}, isOpen : BOOLEAN,
         evtSource : Streams \cup {NoStream}, reconnect : BOOLEAN]
NewPage == [sessionId |-> "none", isOpen |-> FALSE, evtSource |-> NoStream, reconnect |-> FALSE]

ChatJobPoints == {"none", "triage", "route", "reply", "push", "record", "done"}
ChatJob == [pc : ChatJobPoints, payload : SUBSET {"signalText", "signalId", "sessionId"},
            plan : {"none", "answer", "ack"}]
NoChatJob == [pc |-> "none", payload |-> {}, plan |-> "none"]

Indexes == 0..(Cardinality(Repliers) * MaxAsks + 1)
Outbound == [index : Indexes \cup {NoIndex}, text : ChatMessages, linked : BOOLEAN]
ReplyPoints == {"idle", "count", "insert", "link", "move", "audit"}

ChatTypeOK ==
  /\ page \in Page
  /\ stream \in [Streams -> StreamStates]
  /\ \A s \in Streams : wire[s] \in Seq(ChatMessages)
  /\ shown \in [ChatMessages -> 0..(MaxAsks + 1)]
  /\ typed \in [VisitorTexts -> {"unsent", "sent", "left", "closed", "done"}]
  /\ chatCase \in CaseStatuses \cup {"none"}
  /\ chatJob \in ChatJob
  /\ thread \subseteq Outbound
  /\ replier \in [Repliers -> [pc : ReplyPoints, index : Indexes]]
  /\ asked \in [Repliers -> 0..MaxAsks]
  /\ told \subseteq Repliers
  /\ owed \subseteq Streams

ChatInit ==
  /\ page = NewPage
  /\ stream = [s \in Streams |-> "free"] /\ wire = [s \in Streams |-> <<>>]
  /\ shown = [m \in ChatMessages |-> 0]
  /\ typed = [m \in VisitorTexts |-> "unsent"]
  /\ chatCase = "none" /\ chatJob = NoChatJob
  /\ thread = {}
  /\ replier = [o \in Repliers |-> [pc |-> "idle", index |-> 0]]
  /\ asked = [o \in Repliers |-> 0] /\ told = {} /\ owed = {}

-----------------------------------------------------------------------------
(* The session registry.                                                   *)

\* subscribe(): the server takes the connection.
StreamOpens(s) ==
  /\ stream[s] = "asked" /\ stream' = [stream EXCEPT ![s] = "open"]
  /\ UNCHANGED <<page, wire, shown, owed, typed, replyVars, caseVars>>

\* The registry drops a listener: the abort is noticed, a ping fails, or the
\* stream has reached its age.
Unsubscribe(s) ==
  /\ stream[s] \in {"open", "cut"}
  /\ stream' = [stream EXCEPT ![s] = IF @ = "cut" THEN "free" ELSE "ended"]
  /\ UNCHANGED <<page, wire, shown, owed, typed, replyVars, caseVars>>

\* publish(): to a page that has left, the event is lost.
Published(m) ==
  [s \in Streams |-> IF stream[s] = "open" THEN Append(wire[s], m) ELSE wire[s]]

-----------------------------------------------------------------------------
(* The widget.                                                             *)

Sources == {s \in Streams : stream[s] \in {"asked", "open", "ended"}}

\* Mutant of Connected: a second connection beside the first.
ConnectedAgain(p) ==
  IF p.sessionId = "held"
  THEN {[p EXCEPT !.evtSource = s] : s \in {t \in Streams : stream[t] = "free"}}
  ELSE {p}

\* What connectSSE() makes of the page: one EventSource at a time.
Connected(p) ==
  IF p.sessionId = "held" /\ p.evtSource = NoStream
  THEN {[p EXCEPT !.evtSource = s] : s \in {t \in Streams : stream[t] = "free"}}
  ELSE {p}

\* The page closes the connections of a set, and opens that of page'.
SwitchStreams(closed) ==
  /\ stream' = [s \in Streams |->
       IF s \in closed THEN IF stream[s] = "open" THEN "cut" ELSE "free"
       ELSE IF page'.evtSource = s /\ stream[s] = "free" THEN "asked" ELSE stream[s]]
  /\ wire' = [s \in Streams |-> IF s \in closed THEN <<>> ELSE wire[s]]
  /\ owed' = owed \ closed

\* The first message.  Past the monthly limit there is a session and no case.
StartChat ==
  /\ page.sessionId = "none" /\ page.isOpen
  /\ page' \in Connected([page EXCEPT !.sessionId = "held"]) /\ SwitchStreams({})
  /\ \/ /\ chatCase' = "enriching"
        /\ chatJob' = [NoChatJob EXCEPT !.pc = "triage", !.payload = {"signalText", "signalId"}]
     \/ UNCHANGED caseVars
  /\ UNCHANGED <<shown, typed, replyVars>>

OpenWindow ==
  /\ ~page.isOpen
  /\ page' \in Connected([page EXCEPT !.isOpen = TRUE]) /\ SwitchStreams({})
  /\ UNCHANGED <<shown, typed, replyVars, caseVars>>

CloseWindow ==
  /\ page.isOpen /\ page' = [page EXCEPT !.isOpen = FALSE]
  /\ UNCHANGED <<stream, wire, shown, owed, typed, replyVars, caseVars>>

\* A returning visitor: the session is in localStorage, the messages are gone.
LoadPage ==
  /\ page.sessionId = "held"
  /\ page' \in Connected([NewPage EXCEPT !.sessionId = "held"]) /\ SwitchStreams(Sources)
  /\ shown' = [m \in ChatMessages |-> 0]
  /\ typed' = [m \in VisitorTexts |->
       CASE typed[m] = "sent" -> "left" [] typed[m] = "closed" -> "done" [] OTHER -> typed[m]]
  /\ UNCHANGED <<replyVars, caseVars>>

\* onerror: closes the connection and sets a timer ...
StreamFails(s) ==
  /\ s \in Sources
  /\ page' = [page EXCEPT !.evtSource = NoStream, !.reconnect = TRUE]
  /\ SwitchStreams({s} \cup ({page.evtSource} \ {NoStream}))
  /\ UNCHANGED <<shown, typed, replyVars, caseVars>>

\* ... which connects again if the window is open by then.
Reconnect ==
  /\ page.reconnect
  /\ page' \in LET rested == [page EXCEPT !.reconnect = FALSE]
               IN IF page.isOpen THEN Connected(rested) ELSE {rested}
  /\ SwitchStreams({})
  /\ UNCHANGED <<shown, typed, replyVars, caseVars>>

\* The handler of a message event leaves out what the page has added itself.
Displays(m) == Role(m) # "agent"

DeliverEvent(s) ==
  /\ s \in Sources /\ wire[s] # <<>>
  /\ wire' = [wire EXCEPT ![s] = Tail(@)]
  /\ shown' = IF Displays(Head(wire[s])) THEN [shown EXCEPT ![Head(wire[s])] = @ + 1] ELSE shown
  /\ UNCHANGED <<page, stream, owed, typed, replyVars, caseVars>>

\* sendMessage(): the text is shown before the request.
TypeMessage(m) ==
  /\ page.sessionId = "held" /\ typed[m] = "unsent"
  /\ typed' = [typed EXCEPT ![m] = "sent"] /\ shown' = [shown EXCEPT ![m] = @ + 1]
  /\ UNCHANGED <<page, stream, wire, owed, replyVars, caseVars>>

\* The 409: the session is forgotten.
SessionClosed(m) ==
  /\ typed[m] = "closed" /\ typed' = [typed EXCEPT ![m] = "done"]
  /\ page' = [page EXCEPT !.sessionId = "ended", !.evtSource = NoStream]
  /\ SwitchStreams({page.evtSource} \ {NoStream})
  /\ UNCHANGED <<shown, replyVars, caseVars>>

-----------------------------------------------------------------------------
(* The server takes a message of the widget, or fails at it.               *)

TakeMessage(m) ==
  /\ typed[m] \in {"sent", "left"} /\ chatCase \notin {"none", "resolved", "closed"}
  /\ typed' = [typed EXCEPT ![m] = "done"] /\ wire' = Published(m)
  /\ UNCHANGED <<page, stream, shown, owed, replyVars, caseVars>>

RefuseMessage(m) ==
  /\ typed[m] \in {"sent", "left"} /\ chatCase \in {"none", "resolved", "closed"}
  /\ typed' = [typed EXCEPT ![m] = IF @ = "sent" THEN "closed" ELSE "done"]
  /\ UNCHANGED <<streamVars, replyVars, caseVars>>

MessageFails(m) ==
  /\ typed[m] \in {"sent", "left"} /\ typed' = [typed EXCEPT ![m] = "done"]
  /\ UNCHANGED <<streamVars, replyVars, caseVars>>

-----------------------------------------------------------------------------
(* POST chat/reply: the text is published first and recorded afterwards,   *)
(* under a number that is the count of the replies before it.              *)

ReplyAt(o, point) == replier[o].pc = point
ReplyTo(o, point) == replier' = [replier EXCEPT ![o].pc = point]

PublishReply(o) ==
  /\ ReplyAt(o, "idle") /\ o \notin told /\ asked[o] < MaxAsks /\ chatCase # "none"
  /\ asked' = [asked EXCEPT ![o] = @ + 1]
  /\ wire' = Published(o) /\ ReplyTo(o, "count")
  /\ UNCHANGED <<page, stream, shown, owed, typed, thread, told, caseVars>>

CountReplies(o) ==
  /\ ReplyAt(o, "count")
  /\ replier' = [replier EXCEPT ![o] =
       [pc |-> "insert", index |-> Cardinality({r \in thread : r.linked})]]
  /\ UNCHANGED <<streamVars, typed, thread, asked, told, caseVars>>

ReplyRow(o, linked) == [index |-> replier[o].index, text |-> o, linked |-> linked]
NumberIsTaken(o) == \E r \in thread : r.index = replier[o].index

\* Mutant of InsertReply: a record that cannot be written does not fail the reply.
InsertReplyIfFree(o) ==
  /\ ReplyAt(o, "insert")
  /\ IF NumberIsTaken(o) THEN ReplyTo(o, "audit") /\ UNCHANGED thread
     ELSE ReplyTo(o, "link") /\ thread' = thread \cup {ReplyRow(o, FALSE)}
  /\ UNCHANGED <<streamVars, typed, asked, told, caseVars>>

\* createSignal(): source_ref is unique.
InsertReply(o) ==
  /\ ReplyAt(o, "insert")
  /\ IF NumberIsTaken(o) THEN ReplyTo(o, "idle") /\ UNCHANGED thread
     ELSE ReplyTo(o, "link") /\ thread' = thread \cup {ReplyRow(o, FALSE)}
  /\ UNCHANGED <<streamVars, typed, asked, told, caseVars>>

\* updateSignal(): from now on the row is one of the case, and counts.
LinkReply(o) ==
  /\ ReplyAt(o, "link")
  /\ thread' = (thread \ {ReplyRow(o, FALSE)}) \cup {ReplyRow(o, TRUE)}
  /\ ReplyTo(o, IF replier[o].index = 0 THEN "move" ELSE "audit")
  /\ UNCHANGED <<streamVars, typed, asked, told, caseVars>>

\* The first reply takes the case over, whatever its status; an error is ignored.
TakeOver(o) ==
  /\ ReplyAt(o, "move") /\ ReplyTo(o, "audit")
  /\ chatCase' \in {chatCase, "in-resolution"}
  /\ UNCHANGED <<streamVars, typed, thread, asked, told, chatJob>>

AuditReply(o) ==
  /\ ReplyAt(o, "audit") /\ ReplyTo(o, "idle") /\ told' = told \cup {o}
  /\ UNCHANGED <<streamVars, typed, thread, asked, caseVars>>

\* A statement fails: the console keeps the text and shows an error.
ReplyFails(o) ==
  /\ ~ReplyAt(o, "idle") /\ ReplyTo(o, "idle")
  /\ UNCHANGED <<streamVars, typed, thread, asked, told, caseVars>>

-----------------------------------------------------------------------------
(* The pipeline: only what it hands from job to job, and what it publishes.*)

JobAt(point) == chatJob.pc = point

\* What the triage and the Steward worker pass on.
PassedOn(payload) == {"signalText"} \cup (payload \cap {"sessionId"})

ChatTriaged ==
  /\ JobAt("triage") /\ IsCaseTransitionAllowed(chatCase, "triaged")
  /\ chatCase' = "triaged"
  /\ chatJob' = [chatJob EXCEPT !.pc = "route", !.payload = PassedOn(@)]
  /\ UNCHANGED <<streamVars, typed, replyVars>>

ChatRouted ==
  /\ JobAt("route") /\ IsCaseTransitionAllowed(chatCase, "in-resolution")
  /\ chatCase' = "in-resolution"
  /\ chatJob' = [chatJob EXCEPT !.pc = "reply", !.payload = PassedOn(@)]
  /\ UNCHANGED <<streamVars, typed, replyVars>>

\* The auto-reply worker answers and resolves, or leaves a draft to the lead ...
ChatAnswered ==
  /\ JobAt("reply") /\ chatCase = "in-resolution"
  /\ \E plan \in {"answer", "ack"} :
       /\ chatCase' = IF plan = "answer" THEN "resolved" ELSE "awaiting-lead"
       /\ chatJob' = [chatJob EXCEPT !.pc = "push", !.plan = plan]
  /\ UNCHANGED <<streamVars, typed, replyVars>>

\* ... publishes the answer, or a note that somebody will, if it knows the session ...
PushAnswer ==
  /\ JobAt("push")
  /\ wire' = IF "sessionId" \in chatJob.payload THEN Published(chatJob.plan) ELSE wire
  /\ owed' = IF chatJob.plan = "answer" THEN {s \in Streams : stream[s] = "open"} ELSE owed
  /\ chatJob' = [chatJob EXCEPT !.pc = IF chatJob.plan = "answer" THEN "record" ELSE "done"]
  /\ UNCHANGED <<page, stream, shown, typed, replyVars, chatCase>>

\* ... and records an answer as an outbound signal of the case, or fails to.
RecordAnswer ==
  /\ JobAt("record") /\ chatJob' = [chatJob EXCEPT !.pc = "done"]
  /\ thread' \in {thread, thread \cup {[index |-> NoIndex, text |-> "answer", linked |-> TRUE]}}
  /\ UNCHANGED <<streamVars, typed, replier, asked, told, chatCase>>

\* Attempts that fail, or find the case moved on; the last one marks the case.
ChatJobFails ==
  /\ chatJob.pc \notin {"none", "done"} /\ chatJob' = [chatJob EXCEPT !.pc = "done"]
  /\ chatCase' \in {chatCase, "processing-failed"}
  /\ UNCHANGED <<streamVars, typed, replyVars>>

\* A lead resolves the case.
ResolveChat ==
  /\ IsCaseTransitionAllowed(chatCase, "resolved") /\ chatCase' = "resolved"
  /\ UNCHANGED <<streamVars, typed, replyVars, chatJob>>

-----------------------------------------------------------------------------
\* The server restarts: its memory and the requests it was handling are lost.
ServerRestarts ==
  /\ stream' = [s \in Streams |->
       CASE stream[s] \in {"asked", "open"} -> "ended" [] stream[s] = "cut" -> "free"
         [] OTHER -> stream[s]]
  /\ typed' = [m \in VisitorTexts |-> IF typed[m] \in {"sent", "left"} THEN "done" ELSE typed[m]]
  /\ replier' = [o \in Repliers |-> [replier[o] EXCEPT !.pc = "idle"]]
  /\ chatJob' = IF chatJob.pc \in {"push", "record"} THEN [chatJob EXCEPT !.pc = "done"] ELSE chatJob
  /\ UNCHANGED <<page, wire, shown, owed, thread, asked, told, chatCase>>

WidgetNext ==
  \/ StartChat \/ OpenWindow \/ CloseWindow \/ LoadPage \/ Reconnect
  \/ \E s \in Streams : StreamOpens(s) \/ Unsubscribe(s) \/ StreamFails(s) \/ DeliverEvent(s)
  \/ \E m \in VisitorTexts :
       TypeMessage(m) \/ SessionClosed(m) \/ TakeMessage(m) \/ RefuseMessage(m) \/ MessageFails(m)

ReplyNext ==
  \E o \in Repliers :
    \/ PublishReply(o) \/ CountReplies(o) \/ InsertReply(o) \/ LinkReply(o)
    \/ TakeOver(o) \/ AuditReply(o) \/ ReplyFails(o)

PipelineNext ==
  ChatTriaged \/ ChatRouted \/ ChatAnswered \/ PushAnswer \/ RecordAnswer \/ ChatJobFails
    \/ ResolveChat

ChatNext == WidgetNext \/ ReplyNext \/ PipelineNext \/ ServerRestarts

ChatSpec == ChatInit /\ [][ChatNext]_chatVars

-----------------------------------------------------------------------------
\* The page shows what the visitor typed once, and what an operator sent no more
\* often than it was sent, through echoes, reconnections and restarts.
ShownAsOftenAsSent ==
  /\ \A m \in VisitorTexts : shown[m] <= 1
  /\ \A o \in Repliers : shown[o] <= asked[o]

\* A reply whose operator was told that it is sent is in the conversation thread,
\* although the number it is stored under may be taken meanwhile.
ToldIsRecorded ==
  \A o \in told : \E r \in thread : r.text = o /\ r.linked

\* The answer of the pipeline is shown by a page that has been connected since.
AnswerIsShown ==
  \A s \in owed : stream[s] = "open" /\ wire[s] = <<>> => shown["answer"] > 0
=============================================================================
