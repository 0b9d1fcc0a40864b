------------------------------ MODULE Platform ------------------------------
(***************************************************************************)
(* What every worker and every endpoint of NestFleet shares: the rows of   *)
(* the cases and change_requests tables, the pg-boss queue with its        *)
(* retries and its dead-letter queue, and the HTTP requests in flight.     *)
(*                                                                         *)
(* One step of the model is one database statement (or one transaction,    *)
(* or one external call): between two awaits of a handler any other        *)
(* handler may run.  A running job and a request in flight are records     *)
(* whose field pc names the await the handler is at.                       *)
(***************************************************************************)
EXTENDS Naturals, FiniteSets, Lifecycle

CONSTANTS
  Cases,           \* case ids; a case that is not in the table has status "none"
  ChangeRequests,  \* change request ids, likewise
  Jobs,            \* bound: pg-boss job rows alive at the same time
  Requests,        \* bound: HTTP requests in flight at the same time
  None,            \* no case, no change request (SQL NULL)
  RetryLimit,      \* QUEUE_CONFIG: retryLimit of every agent queue
  MarkCanFail      \* may the best-effort update of the dead-letter handler fail?

ASSUME PlatformAssumption ==
  /\ None \notin Cases \cup ChangeRequests
  /\ RetryLimit \in Nat
  /\ MarkCanFail \in BOOLEAN

VARIABLES
  caseStatus,  \* cases.status
  failedJob,   \* cases.processing_error.jobName, "none" when NULL
  crStatus,    \* change_requests.status
  crCase,      \* change_requests.case_id
  job,         \* the rows of pgboss.job and, for an active one, its handler
  req          \* the requests in flight

dbVars == <<caseStatus, failedJob, crStatus, crCase>>
platformVars == <<caseStatus, failedJob, crStatus, crCase, job, req>>

-----------------------------------------------------------------------------
(* Jobs.  knowledge_capture is left out: the code dispatches it but        *)
(* registers no worker for it, so such a row changes nothing else.         *)

\* The awaits of each worker's execute().
WorkerPoints ==
  [ triage            |-> {"agent", "audit"},
    known_issue_match |-> {"agent", "createCr", "commit", "sidecar",
                           "sidecarJob", "audit"},
    auto_reply        |-> {"agent", "check", "write", "email", "save", "audit"},
    outage_routing    |-> {"agent"},
    change_prep       |-> {"toAnalysis", "writeAnalysis", "agent",
                           "writePending", "audit"},
    pr_draft_prep     |-> {"agent", "toDrafted", "writeDrafted", "loadCase",
                           "toResolved", "writeResolved", "audit"} ]

ActionTypes == DOMAIN WorkerPoints

JobPoints == {"queued", "dead"} \cup UNION {WorkerPoints[a] : a \in ActionTypes}

Plans == {"none", "in-change", "in-resolution", "awaiting-lead", "send",
          "draft", "linked", "unlinked"}

Job == [ action : ActionTypes, case : Cases, cr : ChangeRequests \cup {None},
         forced : BOOLEAN,      \* payload.forceDraftOnly of auto_reply,
                                \* payload.triage_hint of known_issue_match
         plan : Plans,          \* what the agent of this attempt decided
         attempt : 0..RetryLimit,
         pc : JobPoints ]

FreeJob == [ action |-> "none", case |-> None, cr |-> None, forced |-> FALSE,
             plan |-> "none", attempt |-> 0, pc |-> "free" ]

NewJob(action, c, k, forced) ==
  [ action |-> action, case |-> c, cr |-> k, forced |-> forced,
    plan |-> "none", attempt |-> 0, pc |-> "queued" ]

Free(i) == job[i].pc = "free"
At(i, action, point) == job[i].action = action /\ job[i].pc = point
Running(i) == job[i].pc \notin {"free", "queued", "dead"}

\* Job i moves on to its next await / completes / additionally a job is inserted.
Goto(i, point) == job' = [job EXCEPT ![i].pc = point]
Finish(i) == job' = [job EXCEPT ![i] = FreeJob]
Enqueue(n, new) == Free(n) /\ job' = [job EXCEPT ![n] = new]
GotoAndEnqueue(i, point, n, new) ==
  Free(n) /\ job' = [job EXCEPT ![i].pc = point, ![n] = new]

\* Mutant of Fail: one attempt too many.
FailOnceMore(i) ==
  job' = [job EXCEPT ![i].attempt = @ + 1, ![i].plan = "none",
                     ![i].pc = IF job[i].attempt <= RetryLimit THEN "queued" ELSE "dead"]

\* The attempt ends with an error: pg-boss retries the job (the payload is
\* kept, nothing else is) or, after the last attempt, moves it to the DLQ.
Fail(i) ==
  LET failed == job[i] IN
  job' = [job EXCEPT ![i] =
            IF failed.attempt < RetryLimit
            THEN [failed EXCEPT !.attempt = failed.attempt + 1,
                                !.pc = "queued", !.plan = "none"]
            ELSE [failed EXCEPT !.pc = "dead", !.plan = "none"]]

\* execute() throws at any await (database, agent, token budget, a guard that
\* rejects), or the server dies and pg-boss expires the active job.
JobFails(i) == Running(i) /\ Fail(i) /\ UNCHANGED <<dbVars, req>>

\* The last awaits of a worker: audit events and best-effort notifications.
WorkerFinish(i) ==
  /\ job[i].pc = "audit"
  /\ Finish(i)
  /\ UNCHANGED <<dbVars, req>>

\* Mutant of DeadLetter: the dead letter is logged and consumed, nothing more.
DeadLetterLogged(i) ==
  job[i].pc = "dead" /\ Finish(i) /\ UNCHANGED <<dbVars, req>>

\* Mutant of DeadLetter: the status is written without processing_error.
DeadLetterUnnamed(i) ==
  /\ job[i].pc = "dead"
  /\ caseStatus' = [caseStatus EXCEPT ![job[i].case] = "processing-failed"]
  /\ Finish(i)
  /\ UNCHANGED <<failedJob, crStatus, crCase, req>>

\* registerDeadLetterHandler + _markCaseProcessingFailed: an unguarded write,
\* and the DLQ job is consumed even when that write fails.
DeadLetter(i) ==
  /\ job[i].pc = "dead"
  /\ \/ /\ caseStatus' = [caseStatus EXCEPT ![job[i].case] = "processing-failed"]
        /\ failedJob' = [failedJob EXCEPT ![job[i].case] = job[i].action]
     \/ MarkCanFail /\ UNCHANGED <<caseStatus, failedJob>>
  /\ Finish(i)
  /\ UNCHANGED <<crStatus, crCase, req>>

-----------------------------------------------------------------------------
(* Requests.                                                               *)

\* The operations that end with a guarded transition of their case.
CaseOps == {"ingest", "escalate", "forward", "resolve", "reopen", "clarify",
            "triageManual", "signalReceived", "retry", "reject", "complete",
            "prMerged"}

Ops == CaseOps \cup {"sendToChange", "sendDraftReply", "correctTriage",
                     "approve", "ciPassed"}

RequestPoints ==
  {"caseCheck", "caseWrite", "dispatch", "create", "commit", "send", "clear",
   "load", "cancel", "write", "crCheck", "crWrite", "prepCheck", "prepWrite",
   "loadCase", "record", "complete", "resolve"}

Request ==
  [ op : Ops, case : Cases, cr : ChangeRequests \cup {None},
    to : CaseStatuses \cup {"none"},   \* target of the case transition
    seen : CrStatuses \cup {"none"},   \* status of the change request when loaded
    left : SUBSET ChangeRequests,      \* change requests still to cancel
    pc : RequestPoints ]

FreeRequest == [ op |-> "none", case |-> None, cr |-> None, to |-> "none",
                 seen |-> "none", left |-> {}, pc |-> "idle" ]

Idle(r) == req[r].pc = "idle"
Handling(r, op, point) == req[r].op = op /\ req[r].pc = point
Reply(r) == req' = [req EXCEPT ![r] = FreeRequest]
Proceed(r, point) == req' = [req EXCEPT ![r].pc = point]

\* A request is accepted: its handler goes to its first await.
Accept(r, op, c, k, to, point) ==
  /\ Idle(r)
  /\ req' = [req EXCEPT ![r] = [op |-> op, case |-> c, cr |-> k, to |-> to,
                                seen |-> IF k = None THEN "none" ELSE crStatus[k],
                                left |-> {}, pc |-> point]]

\* The handler throws (caught, 500) or the server dies: what it wrote stays.
RequestFails(r) == ~Idle(r) /\ Reply(r) /\ UNCHANGED <<dbVars, job>>

\* transitionCase(): the row is read and the guard evaluated on it ...
CaseCheck(r) ==
  /\ req[r].pc = "caseCheck"
  /\ IsCaseTransitionAllowed(caseStatus[req[r].case], req[r].to)
  /\ Proceed(r, "caseWrite")
  /\ UNCHANGED <<dbVars, job>>

\* ... and the new status is written by a second statement, whatever the
\* status has become in between.  The retry endpoint clears processing_error in
\* the same update; ingress and retry still have their triage job to dispatch.
CaseWrite(r) ==
  /\ req[r].pc = "caseWrite"
  /\ caseStatus' = [caseStatus EXCEPT ![req[r].case] = req[r].to]
  /\ failedJob' = IF req[r].op = "retry"
                  THEN [failedJob EXCEPT ![req[r].case] = "none"] ELSE failedJob
  /\ IF req[r].op \in {"ingest", "retry"} THEN Proceed(r, "dispatch") ELSE Reply(r)
  /\ UNCHANGED <<crStatus, crCase, job>>

\* dispatch() of the triage job; a retry that found an approved change request
\* would dispatch pr_draft_prep instead.
DispatchCaseJob(r) ==
  /\ req[r].pc = "dispatch" /\ req[r].op \in {"ingest", "retry"}
  /\ \E n \in Jobs :
       Enqueue(n, NewJob(IF req[r].cr = None THEN "triage" ELSE "pr_draft_prep",
                         req[r].case, req[r].cr, FALSE))
  /\ Reply(r)
  /\ UNCHANGED dbVars

\* Mutant of CreateChangeRequest: case_id is not stored.
CreateLooseRequest(k, c) ==
  /\ crStatus[k] = "none"
  /\ crStatus' = [crStatus EXCEPT ![k] = "draft"]
  /\ UNCHANGED crCase

\* createChangeRequest(): a fresh row in status draft.
CreateChangeRequest(k, c) ==
  /\ crStatus[k] = "none"
  /\ crStatus' = [crStatus EXCEPT ![k] = "draft"]
  /\ crCase' = [crCase EXCEPT ![k] = c]

JobTypeOK == job \in [Jobs -> Job \cup {FreeJob}]
RequestTypeOK == req \in [Requests -> Request \cup {FreeRequest}]

PlatformTypeOK ==
  /\ caseStatus \in [Cases -> CaseStatuses \cup {"none"}]
  /\ failedJob \in [Cases -> ActionTypes \cup {"none"}]
  /\ crStatus \in [ChangeRequests -> CrStatuses \cup {"none"}]
  /\ crCase \in [ChangeRequests -> Cases \cup {None}]
  /\ JobTypeOK
  /\ RequestTypeOK
=============================================================================
