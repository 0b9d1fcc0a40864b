--------------------------- MODULE Notifications ---------------------------
(***************************************************************************)
(* The notifications about one case: emit(), the escalation runner, the    *)
(* digest and the acknowledgement, on the rows of the notifications table. *)
(*                                                                         *)
(* A notifier is whoever runs code here: a worker or an endpoint that      *)
(* emits, a call of /internal/run-escalations, a digest_flush job.  Its    *)
(* steps are the database statements; in between it works on the rows as   *)
(* it loaded them.                                                         *)
(***************************************************************************)
EXTENDS Naturals, FiniteSets

CONSTANTS
  NotifRows,    \* bound: rows that are ever inserted
  Leads,        \* the leads of the product
  SupportLead,  \* the roles of two of them
  ChangeLead,
  Emitters,     \* bound: workers and endpoints that emit at the same time
  Crons,        \* bound: runs of escalations and digests at the same time
  Occasions,    \* the callers of emit() in an instance
  MaxEvents     \* bound: calls of emit() by workers and endpoints

ASSUME NotificationsAssumption ==
  /\ SupportLead \in Leads /\ ChangeLead \in Leads /\ NotifRows # {}
  /\ Emitters \cap Crons = {} /\ MaxEvents \in Nat
  /\ Occasions \subseteq {"triaged", "escalated", "outageRouted", "outageNoted",
                          "corrected", "autoResolved", "replyReview", "reminder"}

VARIABLES
  notif,     \* the rows of the notifications table
  notifier,  \* what each notifier is doing
  events     \* how many occasions there have been

notificationsVars == <<notif, notifier, events>>

Notifiers == Emitters \cup Crons

NotifKinds == {"escalation_alert", "status_update", "approval_request", "stale_case_alert"}
Priorities == {"normal", "high", "critical"}   \* no caller emits low
MaxLevel == 3

\* ESCALATION_POLICY: how often a row of a priority is escalated.
MaxLevels == [p \in Priorities |->
                IF p = "critical" THEN 3 ELSE IF p = "high" THEN 2 ELSE 1]

\* PRIORITY_RANK.
Lower(p, q) == MaxLevels[p] < MaxLevels[q]

\* late: ack_deadline has passed.  acked: acked_at is set, which no update
\* takes back.  scheduled_for is the time of creation for every audience but
\* end users, for whom no caller emits.
Row == [status : {"none", "pending", "sent", "failed", "suppressed", "acked"},
        kind : NotifKinds, prio : Priorities, to : Leads, ackRequired : BOOLEAN,
        acked : BOOLEAN, level : 0..MaxLevel, late : BOOLEAN]

EmitCall == [kind : NotifKinds, prio : Priorities, ackRequired : BOOLEAN]

\* A row as findOverdueForEscalation() or findPendingNotifications() returned it.
Loaded == [row : NotifRows, level : 0..MaxLevel]

NotifierPoints == {"idle", "suppress", "insert", "deliver", "markSent", "markFailed",
           "nextRow", "nextRecipient", "markFlushed"}

\* job: who called emit(), and so where the notifier goes on afterwards.
Notifier == [pc : NotifierPoints, job : {"event", "escalation", "digest"}, event : EmitCall,
             leads : SUBSET Leads, to : Leads, row : NotifRows,
             loaded : SUBSET Loaded]

FirstRow == CHOOSE r \in NotifRows : TRUE
NoEvent == [kind |-> "status_update", prio |-> "normal", ackRequired |-> FALSE]
IdleNotifier == [pc |-> "idle", job |-> "event", event |-> NoEvent, leads |-> {},
         to |-> SupportLead, row |-> FirstRow, loaded |-> {}]

\* What an occasion emits.  The severity decides the priority of "triaged"; the
\* routing of an outage is "outageRouted" when it is critical or high, and
\* "outageNoted" when it is normal or low.
Emits == [triaged      |-> [kind : {"escalation_alert"}, prio : Priorities, ackRequired : {TRUE}],
          escalated    |-> [kind : {"escalation_alert"}, prio : {"critical"}, ackRequired : {TRUE}],
          outageRouted |-> [kind : {"status_update"}, prio : {"high"}, ackRequired : {TRUE}],
          outageNoted  |-> [kind : {"status_update"}, prio : {"normal"}, ackRequired : {FALSE}],
          corrected    |-> [kind : {"escalation_alert"}, prio : {"high"}, ackRequired : {TRUE}],
          autoResolved |-> [kind : {"status_update"}, prio : {"normal"}, ackRequired : {TRUE}],
          replyReview  |-> [kind : {"approval_request"}, prio : {"high"}, ackRequired : {TRUE}],
          reminder     |-> [kind : {"stale_case_alert"}, prio : {"normal"}, ackRequired : {FALSE}]]

\* To which leads: the loops over leads emit once for each.  The Steward alerts
\* all of them of a critical or high outage, and one of anything else.
Audiences(o) ==
  CASE o = "outageRouted" -> {Leads}
    [] o = "escalated"    -> {Leads, {SupportLead}}
    [] o = "corrected"    -> {{ChangeLead}}
    [] OTHER              -> {{SupportLead}}

-----------------------------------------------------------------------------
(* The table.                                                              *)

Indexed == {"pending", "sent", "acked"}   \* the dedup index leaves out the others

\* notifications_dedup_idx: one indexed row per kind and priority of a source.
Taken(kind, prio) ==
  \E r \in NotifRows : /\ notif[r].status \in Indexed
                       /\ notif[r].kind = kind /\ notif[r].prio = prio

\* A row that left the index cannot come back when another has its key: 23505.
Writable(r, status) ==
  \/ status \notin Indexed
  \/ notif[r].status \in Indexed
  \/ ~Taken(notif[r].kind, notif[r].prio)

WriteStatus(r, status) == notif' = [notif EXCEPT ![r] = [@ EXCEPT !.status = status]]

FreeRows == {r \in NotifRows : notif[r].status = "none"}

\* Mutant of Overdue: acked_at is not looked at.
OverdueByStatus(r) ==
  /\ notif[r].ackRequired /\ notif[r].late
  /\ notif[r].status \in {"pending", "sent"}

\* findOverdueForEscalation().
Overdue(r) ==
  /\ notif[r].ackRequired /\ ~notif[r].acked /\ notif[r].late
  /\ notif[r].status \in {"pending", "sent"}

-----------------------------------------------------------------------------
(* The notifiers.                                                          *)

NotifierAt(p, point) == notifier[p].pc = point
NotifierGoes(p, point) == notifier' = [notifier EXCEPT ![p] = [@ EXCEPT !.pc = point]]

NotifierStops(p) == notifier' = [notifier EXCEPT ![p] = IdleNotifier]

\* Where the caller of emit() goes on: the loop over leads, the loop over
\* overdue rows, or home.
AfterEmit(n) ==
  IF n.job = "escalation"
  THEN [IdleNotifier EXCEPT !.pc = "nextRow", !.job = "escalation", !.loaded = n.loaded]
  ELSE IF n.leads = {} THEN IdleNotifier
  ELSE LET l == CHOOSE l \in n.leads : TRUE
       IN [n EXCEPT !.pc = "suppress", !.to = l, !.row = FirstRow, !.leads = n.leads \ {l}]
EmitReturns(p) == notifier' = [notifier EXCEPT ![p] = AfterEmit(@)]

\* A loop over leads is at l.
LeadCall(e, leads, l) ==
  [IdleNotifier EXCEPT !.pc = "suppress", !.event = e, !.to = l, !.leads = leads \ {l}]

\* A worker or an endpoint emits.
Occur(p, o) ==
  /\ NotifierAt(p, "idle") /\ events < MaxEvents
  /\ \E e \in Emits[o], leads \in Audiences(o) : \E l \in leads :
       notifier' = [notifier EXCEPT ![p] = LeadCall(e, leads, l)]
  /\ events' = events + 1
  /\ UNCHANGED notif

\* suppressLowerPriorityPending().
Suppress(p) ==
  LET e == notifier[p].event
      superseded == {r \in NotifRows : /\ notif[r].status = "pending"
                                       /\ notif[r].kind = e.kind
                                       /\ Lower(notif[r].prio, e.prio)}
  IN /\ NotifierAt(p, "suppress")
     /\ notif' = [r \in NotifRows |->
          IF r \in superseded THEN [notif[r] EXCEPT !.status = "suppressed"] ELSE notif[r]]
     /\ NotifierGoes(p, "insert")
     /\ UNCHANGED events

\* createNotification(), when the key is free.
Insert(p) ==
  LET e == notifier[p].event
      r == CHOOSE r \in FreeRows : TRUE
  IN /\ NotifierAt(p, "insert") /\ ~Taken(e.kind, e.prio) /\ FreeRows # {}
     /\ notif' = [notif EXCEPT ![r] =
          [status |-> "pending", kind |-> e.kind, prio |-> e.prio,
           to |-> notifier[p].to, ackRequired |-> e.ackRequired, acked |-> FALSE,
           level |-> 0, late |-> FALSE]]
     /\ notifier' = [notifier EXCEPT ![p] = [@ EXCEPT !.pc = "deliver", !.row = r]]
     /\ UNCHANGED events

\* createNotification() returns null: nothing is sent to this recipient.
InsertDuplicate(p) ==
  /\ NotifierAt(p, "insert") /\ Taken(notifier[p].event.kind, notifier[p].event.prio)
  /\ EmitReturns(p)
  /\ UNCHANGED <<notif, events>>

\* The transports never throw.  Sent, not configured, failed, or left out by
\* the preferences: for a lead the row is marked as sent in every case.
SendNow(p) ==
  /\ NotifierAt(p, "deliver") /\ NotifierGoes(p, "markSent")
  /\ UNCHANGED <<notif, events>>

MarkSent(p) ==
  LET r == notifier[p].row
  IN /\ NotifierAt(p, "markSent")
     /\ \/ Writable(r, "sent") /\ WriteStatus(r, "sent") /\ EmitReturns(p)
        \/ NotifierGoes(p, "markFailed") /\ UNCHANGED notif       \* the update throws
     /\ UNCHANGED events

MarkFailed(p) ==
  /\ NotifierAt(p, "markFailed")
  /\ WriteStatus(notifier[p].row, "failed") /\ EmitReturns(p)
  /\ UNCHANGED events

-----------------------------------------------------------------------------
(* The escalation runner.                                                  *)

\* runEscalations() loads every overdue row.
RunEscalations(p) ==
  LET overdue == {r \in NotifRows : Overdue(r)}
  IN /\ NotifierAt(p, "idle") /\ overdue # {}
     /\ notifier' = [notifier EXCEPT ![p] =
          [IdleNotifier EXCEPT !.pc = "nextRow", !.job = "escalation",
                       !.loaded = {[row |-> r, level |-> notif[r].level] : r \in overdue}]]
     /\ UNCHANGED <<notif, events>>

\* The notifier goes on to emit e to the recipient of the row.
EmitFor(p, x, e) ==
  notifier' = [notifier EXCEPT ![p] =
    [@ EXCEPT !.pc = "suppress", !.event = e, !.to = notif[x.row].to,
              !.loaded = notifier[p].loaded \ {x}]]

\* Mutant of EscalateOne: the level is written back as it was loaded.
EscalateAgain(p, x) ==
  LET r == x.row
  IN /\ NotifierAt(p, "nextRow") /\ x \in notifier[p].loaded
     /\ x.level < MaxLevels[notif[r].prio]
     /\ notif' = [notif EXCEPT ![r] = [@ EXCEPT !.level = x.level, !.late = FALSE]]
     /\ EmitFor(p, x, [kind |-> "escalation_alert", prio |-> notif[r].prio, ackRequired |-> TRUE])
     /\ UNCHANGED events

\* Mutant of EscalateOne: the maximum is taken to be a level that is still allowed.
EscalateOnceMore(p, x) ==
  LET r == x.row
  IN /\ NotifierAt(p, "nextRow") /\ x \in notifier[p].loaded
     /\ x.level <= MaxLevels[notif[r].prio]
     /\ notif' = [notif EXCEPT ![r] = [@ EXCEPT !.level = x.level + 1, !.late = FALSE]]
     /\ EmitFor(p, x, [kind |-> "escalation_alert", prio |-> notif[r].prio, ackRequired |-> TRUE])
     /\ UNCHANGED events

\* escalateOne() below the maximum: the next level and the next deadline,
\* whatever happened to the row since it was loaded.
EscalateOne(p, x) ==
  LET r == x.row
  IN /\ NotifierAt(p, "nextRow") /\ x \in notifier[p].loaded
     /\ x.level < MaxLevels[notif[r].prio]
     /\ notif' = [notif EXCEPT ![r] = [@ EXCEPT !.level = x.level + 1, !.late = FALSE]]
     /\ EmitFor(p, x, [kind |-> "escalation_alert", prio |-> notif[r].prio, ackRequired |-> TRUE])
     /\ UNCHANGED events

\* escalateOne() at the maximum: failed, and a critical alert that asks for no
\* acknowledgement.
Exhaust(p, x) ==
  LET r == x.row
  IN /\ NotifierAt(p, "nextRow") /\ x \in notifier[p].loaded
     /\ x.level >= MaxLevels[notif[r].prio]
     /\ WriteStatus(r, "failed")
     /\ EmitFor(p, x, [kind |-> "escalation_alert", prio |-> "critical", ackRequired |-> FALSE])
     /\ UNCHANGED events

RunEnds(p) ==
  /\ NotifierAt(p, "nextRow") /\ notifier[p].loaded = {} /\ NotifierStops(p)
  /\ UNCHANGED <<notif, events>>

-----------------------------------------------------------------------------
(* The digest.                                                             *)

FlushDigest(p) ==
  LET pending == {r \in NotifRows : notif[r].status = "pending"}
  IN /\ NotifierAt(p, "idle") /\ pending # {}
     /\ notifier' = [notifier EXCEPT ![p] =
          [IdleNotifier EXCEPT !.pc = "nextRecipient", !.job = "digest",
                       !.loaded = {[row |-> r, level |-> notif[r].level] : r \in pending}]]
     /\ UNCHANGED <<notif, events>>

ItemsOf(p, l) == {x \in notifier[p].loaded : notif[x.row].to = l}

\* Mutant of DigestSent: the rows of the recipient are left as they are.
DigestSentOnly(p, l) ==
  /\ NotifierAt(p, "nextRecipient") /\ ItemsOf(p, l) # {}
  /\ notifier' = [notifier EXCEPT ![p] = [@ EXCEPT !.loaded = notifier[p].loaded \ ItemsOf(p, l)]]
  /\ UNCHANGED <<notif, events>>

\* One message for a recipient.
DigestSent(p, l) ==
  /\ NotifierAt(p, "nextRecipient") /\ ItemsOf(p, l) # {}
  /\ notifier' = [notifier EXCEPT ![p] = [@ EXCEPT !.pc = "markFlushed", !.to = l]]
  /\ UNCHANGED <<notif, events>>

\* No transport is configured or it fails: the rows stay pending.
DigestNotSent(p, l) ==
  /\ NotifierAt(p, "nextRecipient") /\ ItemsOf(p, l) # {}
  /\ notifier' = [notifier EXCEPT ![p] = [@ EXCEPT !.loaded = notifier[p].loaded \ ItemsOf(p, l)]]
  /\ UNCHANGED <<notif, events>>

MarkFlushed(p, x) ==
  /\ NotifierAt(p, "markFlushed") /\ x \in ItemsOf(p, notifier[p].to)
  /\ Writable(x.row, "sent") /\ WriteStatus(x.row, "sent")
  /\ notifier' = [notifier EXCEPT ![p] = [@ EXCEPT !.loaded = notifier[p].loaded \ {x}]]
  /\ UNCHANGED events

RecipientDone(p) ==
  /\ NotifierAt(p, "markFlushed") /\ ItemsOf(p, notifier[p].to) = {}
  /\ notifier' = [notifier EXCEPT ![p] = [@ EXCEPT !.pc = "nextRecipient", !.to = SupportLead]]
  /\ UNCHANGED <<notif, events>>

FlushEnds(p) ==
  /\ NotifierAt(p, "nextRecipient") /\ notifier[p].loaded = {} /\ NotifierStops(p)
  /\ UNCHANGED <<notif, events>>

-----------------------------------------------------------------------------
(* People, time and failures.                                              *)

\* POST .../ack, of any row the console shows.
Acknowledge(r) ==
  /\ notif[r].status # "none" /\ Writable(r, "acked")
  /\ notif' = [notif EXCEPT ![r] = [@ EXCEPT !.status = "acked", !.acked = TRUE]]
  /\ UNCHANGED <<notifier, events>>

\* ackDeadlineForPriority(): a row that asks for it has a deadline, which passes.
DeadlinePasses(r) ==
  /\ notif[r].status \in Indexed /\ notif[r].ackRequired /\ ~notif[r].late
  /\ notif' = [notif EXCEPT ![r] = [@ EXCEPT !.late = TRUE]]
  /\ UNCHANGED <<notifier, events>>

\* An exception: runEscalations() catches it and takes the next row; for the
\* others it is the end of the loop over leads or of the product's flush.
StepThrows(p) ==
  /\ ~NotifierAt(p, "idle")
  /\ \/ notifier[p].job = "escalation"
        /\ notifier' = [notifier EXCEPT ![p] = [IdleNotifier EXCEPT !.pc = "nextRow",
                           !.job = "escalation", !.loaded = notifier[p].loaded]]
     \/ notifier[p].job # "escalation" /\ NotifierStops(p)
  /\ UNCHANGED <<notif, events>>

\* The process ends.
NotifierDies ==
  /\ notifier' = [p \in Notifiers |-> IdleNotifier]
  /\ UNCHANGED <<notif, events>>

-----------------------------------------------------------------------------
NoRow == [status |-> "none", kind |-> NoEvent.kind, prio |-> NoEvent.prio,
          to |-> SupportLead, ackRequired |-> FALSE, acked |-> FALSE, level |-> 0,
          late |-> FALSE]

NotificationsInit ==
  /\ notif = [r \in NotifRows |-> NoRow]
  /\ notifier = [p \in Notifiers |-> IdleNotifier]
  /\ events = 0

EmitStep(p) ==
  \/ Suppress(p) \/ Insert(p) \/ InsertDuplicate(p)
  \/ SendNow(p) \/ MarkSent(p) \/ MarkFailed(p)

RunnerStep(p) ==
  \/ \E x \in Loaded : EscalateOne(p, x) \/ Exhaust(p, x)
  \/ RunEnds(p)

DigestStep(p) ==
  \/ \E l \in Leads : DigestSent(p, l) \/ DigestNotSent(p, l)
  \/ \E x \in Loaded : MarkFlushed(p, x)
  \/ RecipientDone(p) \/ FlushEnds(p)

NotificationsNext ==
  \/ \E p \in Emitters, o \in Occasions : Occur(p, o)
  \/ \E p \in Crons : RunEscalations(p) \/ FlushDigest(p)
  \/ \E p \in Notifiers :
       \/ EmitStep(p) \/ RunnerStep(p) \/ DigestStep(p) \/ StepThrows(p)
  \/ \E r \in NotifRows : Acknowledge(r) \/ DeadlinePasses(r)
  \/ NotifierDies

NotificationsSpec == NotificationsInit /\ [][NotificationsNext]_notificationsVars

\* The statement the notifier is about to run cannot succeed: an insert beyond the
\* bound on rows, or a duplicate key when a flushed row is marked as sent.
Refused(p) ==
  \/ NotifierAt(p, "insert") /\ FreeRows = {}
  \/ NotifierAt(p, "markFlushed")
       /\ \E x \in ItemsOf(p, notifier[p].to) : ~Writable(x.row, "sent")

\* The escalation endpoint and the digest are called again and again by cron,
\* which ends neither the run nor the process every time at the same row; a
\* transport is configured and does not fail for ever.  A statement that is
\* refused throws.  Nobody has to acknowledge anything.
NotificationsFairness ==
  /\ \A p \in Notifiers :
       /\ WF_notificationsVars(EmitStep(p) \/ RunnerStep(p) \/ DigestStep(p))
       /\ WF_notificationsVars(Refused(p) /\ StepThrows(p))
  /\ SF_notificationsVars(\E p \in Crons : RunEscalations(p))
  /\ SF_notificationsVars(\E p \in Crons : FlushDigest(p))
  /\ \A l \in Leads : SF_notificationsVars(\E p \in Notifiers : DigestSent(p, l))
  /\ \A r \in NotifRows :
       /\ WF_notificationsVars(DeadlinePasses(r))
       /\ SF_notificationsVars(\E p \in Notifiers, x \in Loaded :
            x.row = r /\ (EscalateOne(p, x) \/ Exhaust(p, x)))
       /\ SF_notificationsVars(\E p \in Notifiers, x \in Loaded :
            x.row = r /\ MarkFlushed(p, x))

NotificationsLiveSpec == NotificationsSpec /\ NotificationsFairness

-----------------------------------------------------------------------------
(* Properties.                                                             *)

\* The rows and the notifiers have their types: in particular no race raises a
\* row above the number of levels of its policy.
NotificationsTypeOK ==
  /\ notif \in [NotifRows -> Row]
  /\ \A r \in NotifRows : notif[r].level <= MaxLevels[notif[r].prio]
  /\ notifier \in [Notifiers -> Notifier]
  /\ events \in 0..MaxEvents

\* A runner has loaded the row, or emit() has still to settle its status.
Pursued(r) ==
  \E p \in Notifiers :
    \/ \E x \in notifier[p].loaded : x.row = r
    \/ notifier[p].row = r /\ notifier[p].pc \in {"deliver", "markSent", "markFailed"}

\* An acknowledged row is left alone: once no notifier works on a copy from
\* before, none takes it up again, and it is never escalated or failed,
\* although emit() and the digest may have written "sent" over "acked".
AckedIsSettled ==
  [][\A r \in NotifRows :
       notif[r].acked /\ ~Pursued(r) =>
         /\ ~Pursued(r)' /\ notif'[r].level = notif[r].level
         /\ notif'[r].status = "failed" => notif[r].status = "failed"]_notificationsVars

\* A row that is overdue is not escalated for ever: it ends acknowledged,
\* failed or suppressed, whatever races and crashes happen.
EscalationEnds ==
  \A r \in NotifRows :
    Overdue(r) ~> notif[r].acked \/ notif[r].status \in {"failed", "suppressed"}

\* A row that a crash left pending is delivered by a digest, if nothing else
\* settles it.
PendingIsDelivered ==
  \A r \in NotifRows : notif[r].status = "pending" ~> notif[r].status # "pending"

\* The outage notification goes to all leads of a critical or high outage: when
\* the loop is past a lead without an error, there is a row for that lead.
\* The code breaks it: the dedup key has no recipient, so the second lead's row
\* is the duplicate of the first one's.
OutageReachesLeads ==
  \A p \in Notifiers :
    LET n == notifier[p]
    IN n.job = "event" /\ n.event.kind = "status_update" /\ n.event.prio = "high" =>
         \A l \in Leads \ (n.leads \cup {n.to}) :
           \E r \in NotifRows : notif[r].to = l /\ notif[r].kind = "status_update"
                                /\ notif[r].prio = "high"
=============================================================================
