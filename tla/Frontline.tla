----------------------------- MODULE Frontline -----------------------------
(***************************************************************************)
(* The automatic case pipeline: a signal opens a case, the Frontline       *)
(* worker triages it, the Steward worker routes it, the auto-reply worker  *)
(* answers it or leaves a draft for the lead, and the dead-letter handler  *)
(* makes a job that failed for good visible on its case.                   *)
(***************************************************************************)
EXTENDS Platform

VARIABLES
  draft,    \* is cases.draft_reply set?
  replies   \* replies emailed to the reporter of a case (the mail provider)

CONSTANT MaxReplies   \* bound: emails sent per case

ASSUME FrontlineAssumption == MaxReplies \in Nat

frontVars == <<draft, replies>>
frontlineVars == <<platformVars, frontVars>>

-----------------------------------------------------------------------------
(* ingress/signal-ingress.ts                                               *)

\* ingestEmailSignal of a signal that opens a case: the row is created in
\* status new; the guarded move to enriching and dispatch() follow.
IngestCreate(r, c) ==
  /\ caseStatus[c] = "none"
  /\ Accept(r, "ingest", c, None, "enriching", "caseCheck")
  /\ caseStatus' = [caseStatus EXCEPT ![c] = "new"]
  /\ UNCHANGED <<failedJob, crStatus, crCase, job, frontVars>>

-----------------------------------------------------------------------------
(* workers/frontline-worker.ts                                             *)

TriageStart(i) ==
  /\ At(i, "triage", "queued")
  /\ IF caseStatus[job[i].case] = "enriching" THEN Goto(i, "agent") ELSE Finish(i)
  /\ UNCHANGED <<dbVars, req, frontVars>>

\* Mutant of TriageCommit: the transition without its dispatch.
TriageCommitOnly(i) ==
  /\ At(i, "triage", "agent")
  /\ IsCaseTransitionAllowed(caseStatus[job[i].case], "triaged")
  /\ caseStatus' = [caseStatus EXCEPT ![job[i].case] = "triaged"]
  /\ Goto(i, "audit")
  /\ UNCHANGED <<failedJob, crStatus, crCase, req, frontVars>>

\* The agent answered: transitionAndDispatch, one transaction whose guard reads
\* the locked row.
TriageCommit(i) ==
  /\ At(i, "triage", "agent")
  /\ IsCaseTransitionAllowed(caseStatus[job[i].case], "triaged")
  /\ caseStatus' = [caseStatus EXCEPT ![job[i].case] = "triaged"]
  /\ \E n \in Jobs :
       GotoAndEnqueue(i, "audit", n,
                      NewJob("known_issue_match", job[i].case, None, FALSE))
  /\ UNCHANGED <<failedJob, crStatus, crCase, req, frontVars>>

-----------------------------------------------------------------------------
(* workers/steward-worker.ts                                               *)

StewardStart(i) ==
  /\ At(i, "known_issue_match", "queued")
  /\ IF caseStatus[job[i].case] = "triaged" THEN Goto(i, "agent") ELSE Finish(i)
  /\ UNCHANGED <<dbVars, req, frontVars>>

\* decideRouting(); type and severity come from an agent, so any route is
\* possible.  Outages and critical cases go to the lead, and may first dispatch
\* outage_routing (a failure of that dispatch is swallowed).
StewardRoute(i) ==
  /\ At(i, "known_issue_match", "agent")
  /\ \E plan \in {"in-change", "in-resolution", "awaiting-lead"} :
       LET routed == [job EXCEPT ![i].plan = plan,
                        ![i].pc = IF plan = "in-change" THEN "createCr" ELSE "commit"]
       IN \/ job' = routed
          \/ /\ plan = "awaiting-lead"
             /\ \E n \in Jobs :
                  /\ Free(n)
                  /\ job' = [routed EXCEPT ![n] =
                               NewJob("outage_routing", job[i].case, None, FALSE)]
  /\ UNCHANGED <<dbVars, req, frontVars>>

StewardCreateCr(i) ==
  /\ At(i, "known_issue_match", "createCr")
  /\ \E k \in ChangeRequests :
       /\ CreateChangeRequest(k, job[i].case)
       /\ job' = [job EXCEPT ![i].cr = k, ![i].pc = "commit"]
  /\ UNCHANGED <<caseStatus, failedJob, req, frontVars>>

\* Mutant of RoutedJob: every reply is a forced draft.
RoutedAsDraft(i) ==
  IF job[i].plan = "in-change"
  THEN NewJob("change_prep", job[i].case, job[i].cr, FALSE)
  ELSE NewJob("auto_reply", job[i].case, None, TRUE)

\* Mutant of RoutedJob: the change is drafted without waiting for its approval.
RoutedPastApproval(i) ==
  IF job[i].plan = "in-change"
  THEN NewJob("pr_draft_prep", job[i].case, job[i].cr, FALSE)
  ELSE NewJob("auto_reply", job[i].case, None, job[i].plan = "awaiting-lead")

\* The job dispatched with each route.
RoutedJob(i) ==
  CASE job[i].plan = "in-change"     -> NewJob("change_prep", job[i].case, job[i].cr, FALSE)
    [] job[i].plan = "in-resolution" -> NewJob("auto_reply", job[i].case, None, FALSE)
    [] job[i].plan = "awaiting-lead" -> NewJob("auto_reply", job[i].case, None, TRUE)

StewardCommit(i) ==
  /\ At(i, "known_issue_match", "commit")
  /\ IsCaseTransitionAllowed(caseStatus[job[i].case], job[i].plan)
  /\ caseStatus' = [caseStatus EXCEPT ![job[i].case] = job[i].plan]
  /\ \E n \in Jobs :
       GotoAndEnqueue(i, IF job[i].plan = "in-resolution" THEN "sidecar" ELSE "audit",
                      n, RoutedJob(i))
  /\ UNCHANGED <<failedJob, crStatus, crCase, req, frontVars>>

\* A bug resolved by a known issue may leave an infra-debt change request
\* behind; neither its creation nor its dispatch may fail the job.
StewardSidecar(i) ==
  /\ At(i, "known_issue_match", "sidecar")
  /\ \/ Goto(i, "audit") /\ UNCHANGED <<crStatus, crCase>>
     \/ \E k \in ChangeRequests :
          /\ CreateChangeRequest(k, job[i].case)
          /\ job' = [job EXCEPT ![i].cr = k, ![i].pc = "sidecarJob"]
  /\ UNCHANGED <<caseStatus, failedJob, req, frontVars>>

StewardSidecarDispatch(i) ==
  /\ At(i, "known_issue_match", "sidecarJob")
  /\ \/ Goto(i, "audit")
     \/ \E n \in Jobs :
          GotoAndEnqueue(i, "audit", n,
                         NewJob("change_prep", job[i].case, job[i].cr, FALSE))
  /\ UNCHANGED <<dbVars, req, frontVars>>

-----------------------------------------------------------------------------
(* workers/auto-reply-worker.ts                                            *)

ExpectedByReply(i) == IF job[i].forced THEN "awaiting-lead" ELSE "in-resolution"
ReplyTarget(i) == IF job[i].plan = "send" THEN "resolved" ELSE "awaiting-lead"

\* This worker does not abstain in a wrong status: it throws.
AutoReplyStart(i) ==
  /\ At(i, "auto_reply", "queued")
  /\ IF caseStatus[job[i].case] = ExpectedByReply(i) THEN Goto(i, "agent") ELSE Fail(i)
  /\ UNCHANGED <<dbVars, req, frontVars>>

\* The validation envelope: its gates depend on agent output, signal text and
\* tier, except the first, which a forced draft never passes.
AutoReplyGate(i) ==
  /\ At(i, "auto_reply", "agent")
  /\ \E plan \in IF job[i].forced THEN {"draft"} ELSE {"send", "draft"} :
       job' = [job EXCEPT ![i].plan = plan,
                          ![i].pc = IF job[i].forced THEN "save" ELSE "check"]
  /\ UNCHANGED <<dbVars, req, frontVars>>

\* Mutant of AutoReplyCheck: the email leaves before the case is resolved.
AutoReplyEmailFirst(i) ==
  /\ At(i, "auto_reply", "check")
  /\ IsCaseTransitionAllowed(caseStatus[job[i].case], ReplyTarget(i))
  /\ Goto(i, IF job[i].plan = "send" THEN "email" ELSE "write")
  /\ UNCHANGED <<dbVars, req, frontVars>>

AutoReplyCheck(i) ==
  /\ At(i, "auto_reply", "check")
  /\ IsCaseTransitionAllowed(caseStatus[job[i].case], ReplyTarget(i))
  /\ Goto(i, "write")
  /\ UNCHANGED <<dbVars, req, frontVars>>

AutoReplyWrite(i) ==
  /\ At(i, "auto_reply", "write")
  /\ caseStatus' = [caseStatus EXCEPT ![job[i].case] = ReplyTarget(i)]
  /\ Goto(i, IF job[i].plan = "send" THEN "email" ELSE "save")
  /\ UNCHANGED <<failedJob, crStatus, crCase, req, frontVars>>

\* Best effort: the email is sent, or the error is logged and forgotten.
AutoReplyEmail(i) ==
  /\ At(i, "auto_reply", "email")
  /\ \/ /\ replies[job[i].case] < MaxReplies
        /\ replies' = [replies EXCEPT ![job[i].case] = @ + 1]
     \/ UNCHANGED replies
  /\ Goto(i, "audit")
  /\ UNCHANGED <<dbVars, req, draft>>

\* Mutant of AutoReplySave: the draft is lost.
AutoReplyDropsDraft(i) ==
  At(i, "auto_reply", "save") /\ Goto(i, "audit") /\ UNCHANGED <<dbVars, req, frontVars>>

AutoReplySave(i) ==
  /\ At(i, "auto_reply", "save")
  /\ draft' = [draft EXCEPT ![job[i].case] = TRUE]
  /\ Goto(i, "audit")
  /\ UNCHANGED <<dbVars, req, replies>>

-----------------------------------------------------------------------------
(* workers/outage-routing-worker.ts: notifications and audit only.         *)

OutageStart(i) ==
  /\ At(i, "outage_routing", "queued")
  /\ IF caseStatus[job[i].case] \in {"resolved", "closed"} THEN Finish(i) ELSE Goto(i, "agent")
  /\ UNCHANGED <<dbVars, req, frontVars>>

OutageFinish(i) ==
  /\ At(i, "outage_routing", "agent")
  /\ Finish(i)
  /\ UNCHANGED <<dbVars, req, frontVars>>

-----------------------------------------------------------------------------

TriageStep(i) == TriageStart(i) \/ TriageCommit(i)

StewardStep(i) ==
  \/ StewardStart(i) \/ StewardRoute(i) \/ StewardCreateCr(i) \/ StewardCommit(i)
  \/ StewardSidecar(i) \/ StewardSidecarDispatch(i)

AutoReplyStep(i) ==
  \/ AutoReplyStart(i) \/ AutoReplyGate(i) \/ AutoReplyCheck(i)
  \/ AutoReplyWrite(i) \/ AutoReplyEmail(i) \/ AutoReplySave(i)

OutageStep(i) == OutageStart(i) \/ OutageFinish(i)

QueueStep(i) == (WorkerFinish(i) \/ JobFails(i) \/ DeadLetter(i)) /\ UNCHANGED frontVars

FrontlineJobStep(i) ==
  \/ TriageStep(i) \/ StewardStep(i) \/ AutoReplyStep(i) \/ OutageStep(i)
  \/ QueueStep(i)

IngestStep(r) ==
  \/ \E c \in Cases : IngestCreate(r, c)
  \/ (CaseCheck(r) \/ CaseWrite(r) \/ DispatchCaseJob(r) \/ RequestFails(r))
     /\ UNCHANGED frontVars

PlatformInit ==
  /\ caseStatus = [c \in Cases |-> "none"]
  /\ failedJob = [c \in Cases |-> "none"]
  /\ crStatus = [k \in ChangeRequests |-> "none"]
  /\ crCase = [k \in ChangeRequests |-> None]
  /\ job = [i \in Jobs |-> FreeJob]
  /\ req = [r \in Requests |-> FreeRequest]

FrontInit ==
  /\ draft = [c \in Cases |-> FALSE]
  /\ replies = [c \in Cases |-> 0]

FrontlineInit == PlatformInit /\ FrontInit

FrontlineNext ==
  \/ \E i \in Jobs : FrontlineJobStep(i)
  \/ \E r \in Requests : IngestStep(r)

FrontlineSpec == FrontlineInit /\ [][FrontlineNext]_frontlineVars

\* pg-boss keeps fetching jobs, and an attempt ends: it completes, throws or
\* expires.  Nothing is assumed of the requests, of the agents' answers or of
\* the outcome of an attempt.
FrontlineFairness == \A i \in Jobs : WF_frontlineVars(FrontlineJobStep(i))

FrontlineLiveSpec == FrontlineSpec /\ FrontlineFairness

-----------------------------------------------------------------------------
(* Properties.                                                             *)

\* The rows, jobs and requests of the pipeline have their types; in particular no
\* job makes more attempts than pg-boss allows.
FrontlineTypeOK ==
  /\ PlatformTypeOK
  /\ draft \in [Cases -> BOOLEAN]
  /\ replies \in [Cases -> 0..MaxReplies]

Serves(i, action, c) == job[i].action = action /\ job[i].case = c

\* Job i has still to route case c, to answer it, to write its draft.
WillRoute(i, c) ==
  /\ Serves(i, "known_issue_match", c)
  /\ job[i].pc \in {"queued", "agent", "createCr", "commit", "dead"}

WillAnswer(i, c) ==
  /\ Serves(i, "auto_reply", c) /\ ~job[i].forced
  /\ job[i].pc \in {"queued", "agent", "check", "write", "dead"}

WillDraft(i, c) ==
  /\ Serves(i, "auto_reply", c)
  /\ job[i].pc \in {"queued", "agent", "check", "write", "save", "dead"}

\* "Eliminates silent stuck states": a triaged case always has a Steward job
\* that has not routed it yet: queued, running, or in the dead-letter queue.
TriagedHasSteward ==
  \A c \in Cases : caseStatus[c] = "triaged" => \E i \in Jobs : WillRoute(i, c)

\* Likewise a case in resolution always has the job that will answer it.
InResolutionHasReply ==
  \A c \in Cases : caseStatus[c] = "in-resolution" => \E i \in Jobs : WillAnswer(i, c)

\* A case that waits for the lead has a draft to review, or the job that is to
\* write it has not given up: in between the auto-reply worker has moved the
\* case but not saved the draft, and its retry will refuse the moved case.
LeadHasDraft ==
  \A c \in Cases : caseStatus[c] = "awaiting-lead" =>
    draft[c] \/ \E i \in Jobs : WillDraft(i, c)

\* Retries of a job never answer the reporter twice, and no reply leaves before
\* the case is resolved.
AnsweredOnce ==
  \A c \in Cases :
    /\ replies[c] <= 1
    /\ replies[c] = 1 => caseStatus[c] \in {"resolved", "processing-failed"}

\* A case in change has a change request of its own.
InChangeHasRequest ==
  \A c \in Cases : caseStatus[c] = "in-change" =>
    \E k \in ChangeRequests : crCase[k] = c

\* Every case the pipeline has triaged reaches a person or an end: routed to a
\* team, asked back, answered, or shown as failed.
TriagedIsSettled ==
  \A c \in Cases : caseStatus[c] = "triaged" ~>
    caseStatus[c] \in {"in-change", "awaiting-lead", "awaiting-user", "resolved",
                       "processing-failed"}
=============================================================================
