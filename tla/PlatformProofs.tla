--------------------------- MODULE PlatformProofs ---------------------------
(***************************************************************************)
(* What the operators of Platform preserve: the lemmas about jobs and      *)
(* requests that the proofs about the components cite.                     *)
(***************************************************************************)
EXTENDS Platform, TLAPS

\* A transition the case table allows leads to a status of the table.
LEMMA CaseTarget ==
  ASSUME NEW from, NEW to, IsCaseTransitionAllowed(from, to)
  PROVE  from \in CaseStatuses /\ to \in CaseStatuses
  BY DEF IsCaseTransitionAllowed, CaseStatuses, CASE_TRANSITIONS

\* Likewise for change requests.
LEMMA CrTransitionTarget ==
  ASSUME NEW from, NEW to, IsCrTransitionAllowed(from, to)
  PROVE  from \in CrStatuses /\ to \in CrStatuses
  BY DEF IsCrTransitionAllowed, CrStatuses, CR_TRANSITIONS

\* The points at which the workers wait are points of a job.
LEMMA PointsOfJobs ==
  {"queued", "dead", "agent", "audit", "createCr", "commit", "sidecar",
   "sidecarJob", "check", "write", "email", "save", "toAnalysis",
   "writeAnalysis", "writePending", "toDrafted", "writeDrafted", "loadCase",
   "toResolved", "writeResolved"} \subseteq JobPoints
  <1>1. {"agent", "audit"} \subseteq JobPoints
    <2>1. "triage" \in ActionTypes /\ WorkerPoints["triage"] = {"agent", "audit"}
      BY DEF ActionTypes, WorkerPoints
    <2> QED BY <2>1 DEF JobPoints
  <1>2. {"createCr", "commit", "sidecar", "sidecarJob"} \subseteq JobPoints
    <2>1. /\ "known_issue_match" \in ActionTypes
          /\ {"createCr", "commit", "sidecar", "sidecarJob"}
               \subseteq WorkerPoints["known_issue_match"]
      BY DEF ActionTypes, WorkerPoints
    <2> QED BY <2>1 DEF JobPoints
  <1>3. {"check", "write", "email", "save"} \subseteq JobPoints
    <2>1. /\ "auto_reply" \in ActionTypes
          /\ {"check", "write", "email", "save"} \subseteq WorkerPoints["auto_reply"]
      BY DEF ActionTypes, WorkerPoints
    <2> QED BY <2>1 DEF JobPoints
  <1>4. {"toAnalysis", "writeAnalysis", "writePending"} \subseteq JobPoints
    <2>1. /\ "change_prep" \in ActionTypes
          /\ {"toAnalysis", "writeAnalysis", "writePending"}
               \subseteq WorkerPoints["change_prep"]
      BY DEF ActionTypes, WorkerPoints
    <2> QED BY <2>1 DEF JobPoints
  <1>5. {"toDrafted", "writeDrafted", "loadCase", "toResolved", "writeResolved"}
          \subseteq JobPoints
    <2>1. /\ "pr_draft_prep" \in ActionTypes
          /\ {"toDrafted", "writeDrafted", "loadCase", "toResolved", "writeResolved"}
               \subseteq WorkerPoints["pr_draft_prep"]
      BY DEF ActionTypes, WorkerPoints
    <2> QED BY <2>1 DEF JobPoints
  <1>6. {"queued", "dead"} \subseteq JobPoints
    BY DEF JobPoints
  <1> QED BY <1>1, <1>2, <1>3, <1>4, <1>5, <1>6

\* "free" is no point of a job.
LEMMA FreeIsNoPoint ==
  "free" \notin JobPoints
  <1>1. \A a \in ActionTypes : "free" \notin WorkerPoints[a]
    BY DEF ActionTypes, WorkerPoints
  <1> QED BY <1>1 DEF JobPoints

\* A slot that is not free holds a job.
LEMMA SlotHoldsJob ==
  ASSUME JobTypeOK, NEW i \in Jobs, job[i].pc # "free"
  PROVE  job[i] \in Job
  BY DEF JobTypeOK, FreeJob

\* A freshly inserted row is a job.
LEMMA NewJobType ==
  ASSUME NEW action \in ActionTypes, NEW c \in Cases,
         NEW k \in ChangeRequests \cup {None}, NEW forced \in BOOLEAN
  PROVE  NewJob(action, c, k, forced) \in Job
  BY PointsOfJobs, PlatformAssumption DEF NewJob, Job, Plans

\* Moving a job to a point of the workers keeps it a job.
LEMMA GotoType ==
  ASSUME JobTypeOK, NEW i \in Jobs, job[i].pc # "free",
         NEW point \in JobPoints, Goto(i, point)
  PROVE  JobTypeOK'
  <1>1. job[i] \in Job
    BY SlotHoldsJob
  <1>2. [job[i] EXCEPT !.pc = point] \in Job
    BY <1>1 DEF Job
  <1> QED BY <1>2 DEF Goto, JobTypeOK

\* Completing a job frees its slot.
LEMMA FinishType ==
  ASSUME JobTypeOK, NEW i \in Jobs, Finish(i)
  PROVE  JobTypeOK'
  BY DEF Finish, JobTypeOK

\* Inserting a job keeps the queue well formed.
LEMMA EnqueueType ==
  ASSUME JobTypeOK, NEW n \in Jobs, NEW new \in Job, Enqueue(n, new)
  PROVE  JobTypeOK'
  BY DEF Enqueue, JobTypeOK

\* So does a step that moves one job on and inserts another.
LEMMA GotoAndEnqueueType ==
  ASSUME JobTypeOK, NEW i \in Jobs, job[i].pc # "free", NEW point \in JobPoints,
         NEW n \in Jobs, NEW new \in Job, GotoAndEnqueue(i, point, n, new)
  PROVE  JobTypeOK'
  <1>1. job[i] \in Job
    BY SlotHoldsJob
  <1>2. [job[i] EXCEPT !.pc = point] \in Job
    BY <1>1 DEF Job
  <1> QED BY <1>2 DEF GotoAndEnqueue, Free, JobTypeOK

\* A failed attempt leaves a job that waits for its retry or is dead.
LEMMA FailType ==
  ASSUME JobTypeOK, NEW i \in Jobs, job[i].pc # "free", Fail(i)
  PROVE  JobTypeOK' /\ job'[i].pc \in {"queued", "dead"}
  <1>1. job[i] \in Job
    BY SlotHoldsJob
  <1>2. {"queued", "dead"} \subseteq JobPoints
    BY PointsOfJobs
  <1>3. CASE job[i].attempt < RetryLimit
    <2>1. job' = [job EXCEPT ![i] = [job[i] EXCEPT !.attempt = job[i].attempt + 1,
                                       !.pc = "queued", !.plan = "none"]]
      BY <1>3 DEF Fail, JobTypeOK
    <2>2. [job[i] EXCEPT !.attempt = job[i].attempt + 1, !.pc = "queued", !.plan = "none"] \in Job
      <3>1. job[i].attempt + 1 \in 0..RetryLimit
        BY <1>1, <1>3, PlatformAssumption DEF Job
      <3>2. "queued" \in JobPoints /\ "none" \in Plans
        BY <1>2 DEF Plans
      <3> QED BY <1>1, <3>1, <3>2 DEF Job
    <2> QED BY <2>1, <2>2 DEF JobTypeOK
  <1>4. CASE ~(job[i].attempt < RetryLimit)
    <2>1. job' = [job EXCEPT ![i] = [job[i] EXCEPT !.pc = "dead", !.plan = "none"]]
      BY <1>4 DEF Fail, JobTypeOK
    <2>2. [job[i] EXCEPT !.pc = "dead", !.plan = "none"] \in Job
      BY <1>1, <1>2 DEF Job, Plans
    <2> QED BY <2>1, <2>2 DEF JobTypeOK
  <1> QED BY <1>3, <1>4

\* A request that is being handled is a request.
LEMMA HandledIsRequest ==
  ASSUME RequestTypeOK, NEW r \in Requests, req[r].pc # "idle"
  PROVE  req[r] \in Request
  BY DEF RequestTypeOK, FreeRequest

\* A handler that goes to its next await keeps the request a request.
LEMMA ProceedType ==
  ASSUME RequestTypeOK, NEW r \in Requests, req[r].pc # "idle",
         NEW point \in RequestPoints, Proceed(r, point)
  PROVE  RequestTypeOK'
  <1>1. req[r] \in Request
    BY HandledIsRequest
  <1>2. [req[r] EXCEPT !.pc = point] \in Request
    BY <1>1 DEF Request
  <1> QED BY <1>2 DEF Proceed, RequestTypeOK

\* A reply ends the request.
LEMMA ReplyType ==
  ASSUME RequestTypeOK, NEW r \in Requests, Reply(r)
  PROVE  RequestTypeOK'
  BY DEF Reply, RequestTypeOK

\* A request is accepted for a known case, change request and target.
LEMMA AcceptType ==
  ASSUME RequestTypeOK, crStatus \in [ChangeRequests -> CrStatuses \cup {"none"}],
         NEW r \in Requests, NEW op \in Ops, NEW c \in Cases,
         NEW k \in ChangeRequests \cup {None}, NEW to \in CaseStatuses \cup {"none"},
         NEW point \in RequestPoints, Accept(r, op, c, k, to, point)
  PROVE  RequestTypeOK'
  <1>1. [op |-> op, case |-> c, cr |-> k, to |-> to,
         seen |-> IF k = None THEN "none" ELSE crStatus[k],
         left |-> {}, pc |-> point] \in Request
    BY DEF Request
  <1> QED BY <1>1 DEF Accept, RequestTypeOK

\* When one job moves on, completes or fails, every slot holds what it held as
\* far as action, case and change request go, or is free.
LEMMA JobMoves ==
  ASSUME JobTypeOK, NEW i \in Jobs, job[i].pc # "free",
         (\E point \in JobPoints : Goto(i, point)) \/ Finish(i) \/ Fail(i)
  PROVE  /\ JobTypeOK'
         /\ \A m \in Jobs : \/ job'[m] = FreeJob
                            \/ /\ job'[m].action = job[m].action
                               /\ job'[m].case = job[m].case
                               /\ job'[m].cr = job[m].cr
  <1>0. job[i] \in Job
    BY SlotHoldsJob
  <1>1. JobTypeOK'
    BY GotoType, FinishType, FailType
  <1>2. CASE \E point \in JobPoints : Goto(i, point)
    BY <1>0, <1>1, <1>2 DEF Goto, JobTypeOK, Job
  <1>3. CASE Finish(i)
    BY <1>1, <1>3 DEF Finish, JobTypeOK
  <1>4. CASE Fail(i)
    BY <1>0, <1>1, <1>4 DEF Fail, JobTypeOK, Job
  <1> QED BY <1>1, <1>2, <1>3, <1>4

\* Likewise for a request that proceeds or is answered.
LEMMA RequestMoves ==
  ASSUME RequestTypeOK, NEW r \in Requests, req[r].pc # "idle",
         NEW point \in RequestPoints, Proceed(r, point) \/ Reply(r)
  PROVE  /\ RequestTypeOK'
         /\ \A q \in Requests : \/ req'[q] = FreeRequest
                                \/ /\ req'[q].op = req[q].op
                                   /\ req'[q].case = req[q].case
                                   /\ req'[q].cr = req[q].cr
                                   /\ req'[q].pc = IF q = r THEN point ELSE req[q].pc
  <1>0. req[r] \in Request
    BY HandledIsRequest
  <1>1. RequestTypeOK'
    BY ProceedType, ReplyType
  <1>2. CASE Proceed(r, point)
    BY <1>0, <1>1, <1>2 DEF Proceed, RequestTypeOK, Request
  <1>3. CASE Reply(r)
    BY <1>1, <1>3 DEF Reply, RequestTypeOK
  <1> QED BY <1>1, <1>2, <1>3

-----------------------------------------------------------------------------
(* The steps every component shares keep the platform well typed.          *)

\* The queue's own steps: a worker ends, an attempt fails, a dead letter.
LEMMA QueueStepType ==
  ASSUME PlatformTypeOK, NEW i \in Jobs,
         WorkerFinish(i) \/ JobFails(i) \/ DeadLetter(i)
  PROVE  PlatformTypeOK'
  <1>1. CASE WorkerFinish(i)
    <2>1. JobTypeOK'
      BY <1>1, FinishType DEF PlatformTypeOK, WorkerFinish
    <2> QED BY <1>1, <2>1 DEF PlatformTypeOK, WorkerFinish, dbVars, RequestTypeOK
  <1>2. CASE JobFails(i)
    <2>1. JobTypeOK'
      BY <1>2, FailType DEF PlatformTypeOK, JobFails, Running
    <2> QED BY <1>2, <2>1 DEF PlatformTypeOK, JobFails, dbVars, RequestTypeOK
  <1>3. CASE DeadLetter(i)
    <2>1. JobTypeOK'
      BY <1>3, FinishType DEF PlatformTypeOK, DeadLetter
    <2>2. job[i].case \in Cases /\ job[i].action \in ActionTypes
      <3>1. job[i] \in Job
        BY <1>3, SlotHoldsJob DEF PlatformTypeOK, DeadLetter
      <3> QED BY <3>1 DEF Job
    <2>3. "processing-failed" \in CaseStatuses
      BY DEF CaseStatuses, CASE_TRANSITIONS
    <2>4. /\ caseStatus' \in [Cases -> CaseStatuses \cup {"none"}]
          /\ failedJob' \in [Cases -> ActionTypes \cup {"none"}]
      BY <1>3, <2>2, <2>3 DEF DeadLetter, PlatformTypeOK
    <2> QED BY <1>3, <2>1, <2>4 DEF PlatformTypeOK, DeadLetter, RequestTypeOK
  <1> QED BY <1>1, <1>2, <1>3

\* The guarded transition of a case at the end of a request, and its failure.
LEMMA CaseRequestStepType ==
  ASSUME PlatformTypeOK, NEW r \in Requests,
         CaseCheck(r) \/ CaseWrite(r) \/ RequestFails(r)
  PROVE  PlatformTypeOK'
  <1>1. CASE CaseCheck(r)
    <2>1. "caseWrite" \in RequestPoints
      BY DEF RequestPoints
    <2>2. RequestTypeOK'
      BY <1>1, <2>1, ProceedType DEF PlatformTypeOK, CaseCheck
    <2> QED BY <1>1, <2>2 DEF PlatformTypeOK, CaseCheck, dbVars, JobTypeOK
  <1>2. CASE CaseWrite(r)
    <2>1. "dispatch" \in RequestPoints
      BY DEF RequestPoints
    <2>2. RequestTypeOK'
      BY <1>2, <2>1, ProceedType, ReplyType DEF PlatformTypeOK, CaseWrite
    <2>3. req[r].case \in Cases /\ req[r].to \in CaseStatuses \cup {"none"}
      <3>1. req[r] \in Request
        BY <1>2, HandledIsRequest DEF PlatformTypeOK, CaseWrite
      <3> QED BY <3>1 DEF Request
    <2>4. /\ caseStatus' \in [Cases -> CaseStatuses \cup {"none"}]
          /\ failedJob' \in [Cases -> ActionTypes \cup {"none"}]
      BY <1>2, <2>3 DEF CaseWrite, PlatformTypeOK
    <2> QED BY <1>2, <2>2, <2>4 DEF PlatformTypeOK, CaseWrite, JobTypeOK
  <1>3. CASE RequestFails(r)
    <2>1. RequestTypeOK'
      BY <1>3, ReplyType DEF PlatformTypeOK, RequestFails
    <2> QED BY <1>3, <2>1 DEF PlatformTypeOK, RequestFails, dbVars, JobTypeOK
  <1> QED BY <1>1, <1>2, <1>3

\* dispatch() after such a transition.
LEMMA DispatchCaseJobType ==
  ASSUME PlatformTypeOK, NEW r \in Requests, DispatchCaseJob(r)
  PROVE  PlatformTypeOK'
  <1>1. req[r] \in Request
    BY HandledIsRequest DEF PlatformTypeOK, DispatchCaseJob
  <1>2. {"triage", "pr_draft_prep"} \subseteq ActionTypes
    BY DEF ActionTypes, WorkerPoints
  <1>3. /\ req[r].case \in Cases /\ req[r].cr \in ChangeRequests \cup {None}
    BY <1>1 DEF Request
  <1>4. NewJob(IF req[r].cr = None THEN "triage" ELSE "pr_draft_prep",
               req[r].case, req[r].cr, FALSE) \in Job
    BY <1>2, <1>3, NewJobType
  <1>5. JobTypeOK'
    BY <1>4, EnqueueType DEF PlatformTypeOK, DispatchCaseJob
  <1>6. RequestTypeOK'
    BY ReplyType DEF PlatformTypeOK, DispatchCaseJob
  <1> QED BY <1>5, <1>6 DEF PlatformTypeOK, DispatchCaseJob, dbVars

\* The rows of a new change request.
LEMMA CreateChangeRequestType ==
  ASSUME PlatformTypeOK, NEW k \in ChangeRequests, NEW c \in Cases,
         CreateChangeRequest(k, c)
  PROVE  /\ crStatus' \in [ChangeRequests -> CrStatuses \cup {"none"}]
         /\ crCase' \in [ChangeRequests -> Cases \cup {None}]
  <1>1. "draft" \in CrStatuses
    BY DEF CrStatuses, CR_TRANSITIONS
  <1> QED BY <1>1 DEF PlatformTypeOK, CreateChangeRequest
=============================================================================
