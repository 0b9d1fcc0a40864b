-------------------------- MODULE FrontlineProofs --------------------------
(***************************************************************************)
(* Theorems about the automatic pipeline and the console that steers it:   *)
(* it is well typed, a case that has been triaged, or that waits for an    *)
(* automatic answer, always has the job that takes it further, nobody is   *)
(* answered twice, a case in change has its change request, and a failed   *)
(* case names the job that failed.                                         *)
(***************************************************************************)
EXTENDS Console, PlatformProofs

\* The routes of decideRouting() are statuses of the case table, the other
\* plans of a job are not.
LEMMA PlansThatAreStatuses ==
  ASSUME NEW plan \in Plans, plan \in CaseStatuses
  PROVE  plan \in {"in-change", "in-resolution", "awaiting-lead"}
  BY DEF Plans, CaseStatuses, CASE_TRANSITIONS

\* The job dispatched with a route is a job.
LEMMA RoutedJobType ==
  ASSUME JobTypeOK, NEW i \in Jobs, job[i].pc # "free",
         job[i].plan \in CaseStatuses
  PROVE  RoutedJob(i) \in Job
  <1>1. job[i] \in Job
    BY SlotHoldsJob
  <1>2. job[i].plan \in {"in-change", "in-resolution", "awaiting-lead"}
    BY <1>1, PlansThatAreStatuses DEF Job
  <1>3. {"change_prep", "auto_reply"} \subseteq ActionTypes
    BY DEF ActionTypes, WorkerPoints
  <1>4. /\ job[i].case \in Cases /\ job[i].cr \in ChangeRequests \cup {None}
    BY <1>1 DEF Job
  <1>5. /\ NewJob("change_prep", job[i].case, job[i].cr, FALSE) \in Job
        /\ NewJob("auto_reply", job[i].case, None, FALSE) \in Job
        /\ NewJob("auto_reply", job[i].case, None, TRUE) \in Job
    BY <1>3, <1>4, NewJobType
  <1> QED BY <1>2, <1>5 DEF RoutedJob

-----------------------------------------------------------------------------
(* Type correctness: one lemma per worker.                                 *)

\* Ingestion creates a case and starts a request.
LEMMA IngestCreateType ==
  ASSUME FrontlineTypeOK, NEW r \in Requests, NEW c \in Cases, IngestCreate(r, c)
  PROVE  FrontlineTypeOK'
  <1>1. /\ {"new", "enriching"} \subseteq CaseStatuses
        /\ "caseCheck" \in RequestPoints /\ "ingest" \in Ops
    BY DEF CaseStatuses, CASE_TRANSITIONS, RequestPoints, Ops, CaseOps
  <1>2. RequestTypeOK'
    BY <1>1, AcceptType DEF IngestCreate, FrontlineTypeOK, PlatformTypeOK
  <1>3. caseStatus' \in [Cases -> CaseStatuses \cup {"none"}]
    BY <1>1 DEF IngestCreate, FrontlineTypeOK, PlatformTypeOK
  <1> QED BY <1>2, <1>3
          DEF IngestCreate, FrontlineTypeOK, PlatformTypeOK, frontVars, JobTypeOK

\* The Frontline worker.
LEMMA TriageType ==
  ASSUME FrontlineTypeOK, NEW i \in Jobs, TriageStep(i)
  PROVE  FrontlineTypeOK'
  <1>1. CASE TriageStart(i)
    <2>1. job[i].pc # "free"
      BY <1>1 DEF TriageStart, At
    <2>2. JobTypeOK'
      BY <1>1, <2>1, PointsOfJobs, GotoType, FinishType
         DEF TriageStart, FrontlineTypeOK, PlatformTypeOK
    <2> QED BY <1>1, <2>2 DEF TriageStart, FrontlineTypeOK, PlatformTypeOK,
                              dbVars, frontVars, RequestTypeOK
  <1>2. CASE TriageCommit(i)
    <2>1. job[i].pc # "free" /\ job[i] \in Job
      BY <1>2, SlotHoldsJob DEF TriageCommit, At, FrontlineTypeOK, PlatformTypeOK
    <2>2. "known_issue_match" \in ActionTypes
      BY DEF ActionTypes, WorkerPoints
    <2>3. NewJob("known_issue_match", job[i].case, None, FALSE) \in Job
      <3>1. job[i].case \in Cases
        BY <2>1 DEF Job
      <3> QED BY <2>2, <3>1, NewJobType
    <2>4. JobTypeOK'
      BY <1>2, <2>1, <2>3, PointsOfJobs, GotoAndEnqueueType
         DEF TriageCommit, FrontlineTypeOK, PlatformTypeOK
    <2>5. caseStatus' \in [Cases -> CaseStatuses \cup {"none"}]
      BY <1>2, CaseTarget DEF TriageCommit, FrontlineTypeOK, PlatformTypeOK
    <2> QED BY <1>2, <2>4, <2>5 DEF TriageCommit, FrontlineTypeOK, PlatformTypeOK,
                                    frontVars, RequestTypeOK
  <1> QED BY <1>1, <1>2 DEF TriageStep

\* The Steward worker.
LEMMA StewardType ==
  ASSUME FrontlineTypeOK, NEW i \in Jobs, StewardStep(i)
  PROVE  FrontlineTypeOK'
  <1>0. /\ job[i].pc # "free" /\ job[i] \in Job
        /\ job[i].case \in Cases /\ job[i].cr \in ChangeRequests \cup {None}
    <2>1. job[i].pc # "free"
      BY DEF StewardStep, StewardStart, StewardRoute, StewardCreateCr,
             StewardCommit, StewardSidecar, StewardSidecarDispatch, At
    <2> QED BY <2>1, SlotHoldsJob DEF FrontlineTypeOK, PlatformTypeOK, Job
  <1>1. CASE StewardStart(i)
    <2>1. JobTypeOK'
      BY <1>0, <1>1, PointsOfJobs, GotoType, FinishType
         DEF StewardStart, FrontlineTypeOK, PlatformTypeOK
    <2> QED BY <1>1, <2>1 DEF StewardStart, FrontlineTypeOK, PlatformTypeOK,
                              dbVars, frontVars, RequestTypeOK
  <1>2. CASE StewardRoute(i)
    <2>1. PICK plan \in {"in-change", "in-resolution", "awaiting-lead"} :
            LET routed == [job EXCEPT ![i].plan = plan,
                             ![i].pc = IF plan = "in-change" THEN "createCr" ELSE "commit"]
            IN \/ job' = routed
               \/ \E n \in Jobs :
                    job' = [routed EXCEPT ![n] =
                              NewJob("outage_routing", job[i].case, None, FALSE)]
      BY <1>2 DEF StewardRoute
    <2> DEFINE point == IF plan = "in-change" THEN "createCr" ELSE "commit"
               moved == [job[i] EXCEPT !.plan = plan, !.pc = point]
               routed == [job EXCEPT ![i] = moved]
    <2>2. point \in JobPoints /\ plan \in Plans
      BY PointsOfJobs DEF Plans
    <2>3. moved \in Job
      <3> HIDE DEF point
      <3> QED BY <1>0, <2>2 DEF Job
    <2>4. "outage_routing" \in ActionTypes
      BY DEF ActionTypes, WorkerPoints
    <2>5. NewJob("outage_routing", job[i].case, None, FALSE) \in Job
      BY <1>0, <2>4, NewJobType
    <2>6. \/ job' = routed
          \/ \E n \in Jobs : job' = [routed EXCEPT ![n] =
                               NewJob("outage_routing", job[i].case, None, FALSE)]
      BY <2>1 DEF FrontlineTypeOK, PlatformTypeOK, JobTypeOK
    <2>7. routed \in [Jobs -> Job \cup {FreeJob}]
      <3> HIDE DEF moved
      <3> QED BY <2>3 DEF FrontlineTypeOK, PlatformTypeOK, JobTypeOK
    <2>8. JobTypeOK'
      <3> HIDE DEF routed
      <3> QED BY <2>5, <2>6, <2>7 DEF JobTypeOK
    <2> QED BY <1>2, <2>8 DEF StewardRoute, FrontlineTypeOK, PlatformTypeOK,
                              dbVars, frontVars, RequestTypeOK
  <1>3. CASE StewardCreateCr(i)
    <2>1. PICK k \in ChangeRequests :
            /\ CreateChangeRequest(k, job[i].case)
            /\ job' = [job EXCEPT ![i].cr = k, ![i].pc = "commit"]
      BY <1>3 DEF StewardCreateCr
    <2>2. JobTypeOK'
      <3>1. [job[i] EXCEPT !.cr = k, !.pc = "commit"] \in Job
        BY <1>0, PointsOfJobs DEF Job
      <3>2. job' = [job EXCEPT ![i] = [job[i] EXCEPT !.cr = k, !.pc = "commit"]]
        BY <2>1 DEF FrontlineTypeOK, PlatformTypeOK, JobTypeOK
      <3> QED BY <3>1, <3>2 DEF FrontlineTypeOK, PlatformTypeOK, JobTypeOK
    <2>3. /\ crStatus' \in [ChangeRequests -> CrStatuses \cup {"none"}]
          /\ crCase' \in [ChangeRequests -> Cases \cup {None}]
      BY <1>0, <2>1, CreateChangeRequestType DEF FrontlineTypeOK
    <2> QED BY <1>3, <2>2, <2>3 DEF StewardCreateCr, FrontlineTypeOK, PlatformTypeOK,
                                    frontVars, RequestTypeOK
  <1>4. CASE StewardCommit(i)
    <2>1. job[i].plan \in CaseStatuses
      BY <1>4, CaseTarget DEF StewardCommit
    <2>2. RoutedJob(i) \in Job
      BY <1>0, <2>1, RoutedJobType DEF FrontlineTypeOK, PlatformTypeOK
    <2>3. JobTypeOK'
      BY <1>0, <1>4, <2>2, PointsOfJobs, GotoAndEnqueueType
         DEF StewardCommit, FrontlineTypeOK, PlatformTypeOK
    <2>4. caseStatus' \in [Cases -> CaseStatuses \cup {"none"}]
      BY <1>4, <2>1 DEF StewardCommit, FrontlineTypeOK, PlatformTypeOK
    <2> QED BY <1>4, <2>3, <2>4 DEF StewardCommit, FrontlineTypeOK, PlatformTypeOK,
                                    frontVars, RequestTypeOK
  <1>5. CASE StewardSidecar(i)
    <2>1. CASE Goto(i, "audit") /\ UNCHANGED <<crStatus, crCase>>
      <3>1. JobTypeOK'
        BY <1>0, <2>1, PointsOfJobs, GotoType DEF FrontlineTypeOK, PlatformTypeOK
      <3> QED BY <1>5, <2>1, <3>1 DEF StewardSidecar, FrontlineTypeOK, PlatformTypeOK,
                                      frontVars, RequestTypeOK
    <2>2. ASSUME NEW k \in ChangeRequests, CreateChangeRequest(k, job[i].case),
                 job' = [job EXCEPT ![i].cr = k, ![i].pc = "sidecarJob"]
          PROVE  FrontlineTypeOK'
      <3>1. [job[i] EXCEPT !.cr = k, !.pc = "sidecarJob"] \in Job
        BY <1>0, PointsOfJobs DEF Job
      <3>2. job' = [job EXCEPT ![i] = [job[i] EXCEPT !.cr = k, !.pc = "sidecarJob"]]
        BY <2>2 DEF FrontlineTypeOK, PlatformTypeOK, JobTypeOK
      <3>3. JobTypeOK'
        BY <3>1, <3>2 DEF FrontlineTypeOK, PlatformTypeOK, JobTypeOK
      <3>4. /\ crStatus' \in [ChangeRequests -> CrStatuses \cup {"none"}]
            /\ crCase' \in [ChangeRequests -> Cases \cup {None}]
        BY <1>0, <2>2, CreateChangeRequestType DEF FrontlineTypeOK
      <3> QED BY <1>5, <3>3, <3>4 DEF StewardSidecar, FrontlineTypeOK, PlatformTypeOK,
                                      frontVars, RequestTypeOK
    <2> QED BY <1>5, <2>1, <2>2 DEF StewardSidecar
  <1>6. CASE StewardSidecarDispatch(i)
    <2>1. "change_prep" \in ActionTypes
      BY DEF ActionTypes, WorkerPoints
    <2>2. NewJob("change_prep", job[i].case, job[i].cr, FALSE) \in Job
      BY <1>0, <2>1, NewJobType
    <2>3. JobTypeOK'
      BY <1>0, <1>6, <2>2, PointsOfJobs, GotoType, GotoAndEnqueueType
         DEF StewardSidecarDispatch, FrontlineTypeOK, PlatformTypeOK
    <2> QED BY <1>6, <2>3 DEF StewardSidecarDispatch, FrontlineTypeOK, PlatformTypeOK,
                              dbVars, frontVars, RequestTypeOK
  <1> QED BY <1>1, <1>2, <1>3, <1>4, <1>5, <1>6 DEF StewardStep


\* The auto-reply worker.
LEMMA AutoReplyType ==
  ASSUME FrontlineTypeOK, NEW i \in Jobs, AutoReplyStep(i)
  PROVE  FrontlineTypeOK'
  <1>0. /\ job[i].pc # "free" /\ job[i] \in Job /\ job[i].case \in Cases
    <2>1. job[i].pc # "free"
      BY DEF AutoReplyStep, AutoReplyStart, AutoReplyGate, AutoReplyCheck,
             AutoReplyWrite, AutoReplyEmail, AutoReplySave, At
    <2> QED BY <2>1, SlotHoldsJob DEF FrontlineTypeOK, PlatformTypeOK, Job
  <1>1. CASE AutoReplyStart(i)
    <2>1. JobTypeOK'
      BY <1>0, <1>1, PointsOfJobs, GotoType, FailType
         DEF AutoReplyStart, FrontlineTypeOK, PlatformTypeOK
    <2> QED BY <1>1, <2>1 DEF AutoReplyStart, FrontlineTypeOK, PlatformTypeOK,
                              dbVars, frontVars, RequestTypeOK
  <1>2. CASE AutoReplyGate(i)
    <2>1. PICK plan \in {"send", "draft"}, point \in {"save", "check"} :
            job' = [job EXCEPT ![i].plan = plan, ![i].pc = point]
      BY <1>2 DEF AutoReplyGate
    <2>2. job' = [job EXCEPT ![i] = [job[i] EXCEPT !.plan = plan, !.pc = point]]
      BY <2>1 DEF FrontlineTypeOK, PlatformTypeOK, JobTypeOK
    <2>3. [job[i] EXCEPT !.plan = plan, !.pc = point] \in Job
      BY <1>0, PointsOfJobs DEF Job, Plans
    <2>4. JobTypeOK'
      BY <2>2, <2>3 DEF FrontlineTypeOK, PlatformTypeOK, JobTypeOK
    <2> QED BY <1>2, <2>4 DEF AutoReplyGate, FrontlineTypeOK, PlatformTypeOK,
                              dbVars, frontVars, RequestTypeOK
  <1>3. CASE AutoReplyCheck(i)
    <2>1. JobTypeOK'
      BY <1>0, <1>3, PointsOfJobs, GotoType
         DEF AutoReplyCheck, FrontlineTypeOK, PlatformTypeOK
    <2> QED BY <1>3, <2>1 DEF AutoReplyCheck, FrontlineTypeOK, PlatformTypeOK,
                              dbVars, frontVars, RequestTypeOK
  <1>4. CASE AutoReplyWrite(i)
    <2>1. JobTypeOK'
      BY <1>0, <1>4, PointsOfJobs, GotoType
         DEF AutoReplyWrite, FrontlineTypeOK, PlatformTypeOK
    <2>2. ReplyTarget(i) \in CaseStatuses
      BY DEF ReplyTarget, CaseStatuses, CASE_TRANSITIONS
    <2>3. caseStatus' \in [Cases -> CaseStatuses \cup {"none"}]
      BY <1>4, <2>2 DEF AutoReplyWrite, FrontlineTypeOK, PlatformTypeOK
    <2> QED BY <1>4, <2>1, <2>3 DEF AutoReplyWrite, FrontlineTypeOK, PlatformTypeOK,
                                    frontVars, RequestTypeOK
  <1>5. CASE AutoReplyEmail(i)
    <2>1. JobTypeOK'
      BY <1>0, <1>5, PointsOfJobs, GotoType
         DEF AutoReplyEmail, FrontlineTypeOK, PlatformTypeOK
    <2>2. replies' \in [Cases -> 0..MaxReplies]
      BY <1>0, <1>5, FrontlineAssumption DEF AutoReplyEmail, FrontlineTypeOK
    <2> QED BY <1>5, <2>1, <2>2 DEF AutoReplyEmail, FrontlineTypeOK, PlatformTypeOK,
                                    dbVars, RequestTypeOK
  <1>6. CASE AutoReplySave(i)
    <2>1. JobTypeOK'
      BY <1>0, <1>6, PointsOfJobs, GotoType
         DEF AutoReplySave, FrontlineTypeOK, PlatformTypeOK
    <2>2. draft' \in [Cases -> BOOLEAN]
      BY <1>6 DEF AutoReplySave, FrontlineTypeOK
    <2> QED BY <1>6, <2>1, <2>2 DEF AutoReplySave, FrontlineTypeOK, PlatformTypeOK,
                                    dbVars, RequestTypeOK
  <1> QED BY <1>1, <1>2, <1>3, <1>4, <1>5, <1>6 DEF AutoReplyStep

\* The outage-routing worker.
LEMMA OutageType ==
  ASSUME FrontlineTypeOK, NEW i \in Jobs, OutageStep(i)
  PROVE  FrontlineTypeOK'
  <1>1. JobTypeOK'
    BY PointsOfJobs, GotoType, FinishType
       DEF OutageStep, OutageStart, OutageFinish, At, FrontlineTypeOK, PlatformTypeOK
  <1> QED BY <1>1 DEF OutageStep, OutageStart, OutageFinish, FrontlineTypeOK,
                      PlatformTypeOK, dbVars, frontVars, RequestTypeOK

\* The state is well typed at the start ...
LEMMA FrontlineInitType ==
  ASSUME FrontlineInit
  PROVE  FrontlineTypeOK
  BY FrontlineAssumption
     DEF FrontlineInit, PlatformInit, FrontInit, FrontlineTypeOK,
         PlatformTypeOK, JobTypeOK, RequestTypeOK

\* ... and every step of the pipeline keeps it so.
LEMMA FrontlineTypeKept ==
  ASSUME FrontlineTypeOK, [FrontlineNext]_frontlineVars
  PROVE  FrontlineTypeOK'
  <1>1. ASSUME NEW i \in Jobs, FrontlineJobStep(i)
        PROVE  FrontlineTypeOK'
    <2>1. CASE QueueStep(i)
      <3>1. PlatformTypeOK'
        BY <2>1, QueueStepType DEF QueueStep, FrontlineTypeOK
      <3> QED BY <2>1, <3>1 DEF QueueStep, frontVars, FrontlineTypeOK
    <2> QED BY <1>1, <2>1, TriageType, StewardType, AutoReplyType, OutageType
            DEF FrontlineJobStep
  <1>2. ASSUME NEW r \in Requests, IngestStep(r)
        PROVE  FrontlineTypeOK'
    <2>1. CASE \E c \in Cases : IngestCreate(r, c)
      BY <2>1, IngestCreateType
    <2>2. CASE /\ CaseCheck(r) \/ CaseWrite(r) \/ DispatchCaseJob(r) \/ RequestFails(r)
               /\ UNCHANGED frontVars
      <3>1. PlatformTypeOK'
        BY <2>2, CaseRequestStepType, DispatchCaseJobType DEF FrontlineTypeOK
      <3> QED BY <2>2, <3>1 DEF frontVars, FrontlineTypeOK
    <2> QED BY <1>2, <2>1, <2>2 DEF IngestStep
  <1>3. CASE UNCHANGED frontlineVars
    BY <1>3 DEF frontlineVars, platformVars, frontVars, FrontlineTypeOK,
                PlatformTypeOK, JobTypeOK, RequestTypeOK
  <1> QED BY <1>1, <1>2, <1>3 DEF FrontlineNext

\* The state is well typed whatever the agents answer, however often the jobs
\* are retried and wherever requests break off.
THEOREM FrontlineTypeCorrect == FrontlineSpec => []FrontlineTypeOK
  <1>1. FrontlineInit => FrontlineTypeOK
    BY FrontlineInitType
  <1>2. FrontlineTypeOK /\ [FrontlineNext]_frontlineVars => FrontlineTypeOK'
    BY FrontlineTypeKept
  <1> QED BY <1>1, <1>2, PTL DEF FrontlineSpec

-----------------------------------------------------------------------------
(* No case is left behind.  As long as the dead-letter handler's write     *)
(* does not fail, a case in one of the three intermediate statuses has the *)
(* job that takes it out of that status.  Each of the three invariants is  *)
(* kept on its own, whatever becomes of the other two: where people may    *)
(* break one of them, the others still hold.                               *)

\* A step keeps what a case in each of the three statuses is owed.
OwesKept ==
  /\ TriagedHasSteward => TriagedHasSteward'
  /\ InResolutionHasReply => InResolutionHasReply'
  /\ LeadHasDraft => LeadHasDraft'

\* The requests of this component are signals on their way to enriching.
OnlyIngestion ==
  \A r \in Requests : ~Idle(r) => req[r].op = "ingest" /\ req[r].to = "enriching"

\* The pipeline's jobs leave the requests alone.
LEMMA JobsLeaveRequests ==
  ASSUME NEW i \in Jobs, FrontlineJobStep(i)
  PROVE  UNCHANGED req
  BY DEF FrontlineJobStep, TriageStep, TriageStart, TriageCommit, StewardStep, StewardStart,
         StewardRoute, StewardCreateCr, StewardCommit, StewardSidecar, StewardSidecarDispatch,
         AutoReplyStep, AutoReplyStart, AutoReplyGate, AutoReplyCheck, AutoReplyWrite,
         AutoReplyEmail, AutoReplySave, OutageStep, OutageStart, OutageFinish, QueueStep,
         WorkerFinish, JobFails, DeadLetter

\* The requests stay signals.
LEMMA OnlyIngestionKept ==
  ASSUME RequestTypeOK, OnlyIngestion, [FrontlineNext]_frontlineVars
  PROVE  OnlyIngestion'
  <1>1. ASSUME NEW r \in Requests, IngestStep(r)
        PROVE  OnlyIngestion'
    <2>1. CASE \E c \in Cases : IngestCreate(r, c)
      BY <2>1 DEF IngestCreate, Accept, Idle, OnlyIngestion, RequestTypeOK
    <2>2. ASSUME NEW point \in RequestPoints, ~Idle(r), Proceed(r, point)
          PROVE  OnlyIngestion'
      BY <2>2 DEF Proceed, Idle, OnlyIngestion, RequestTypeOK
    <2>3. ASSUME Reply(r)
          PROVE  OnlyIngestion'
      BY <2>3 DEF Reply, FreeRequest, Idle, OnlyIngestion, RequestTypeOK
    <2>4. {"caseWrite", "dispatch"} \subseteq RequestPoints
      BY DEF RequestPoints
    <2> QED BY <1>1, <2>1, <2>2, <2>3, <2>4
            DEF IngestStep, CaseCheck, CaseWrite, DispatchCaseJob, RequestFails, Idle
  <1>2. ASSUME NEW i \in Jobs, FrontlineJobStep(i)
        PROVE  UNCHANGED req
    BY <1>2, JobsLeaveRequests
  <1> QED BY <1>1, <1>2 DEF FrontlineNext, frontlineVars, platformVars, OnlyIngestion, Idle

\* A step that changes no status and no draft keeps the invariant when every
\* job that a case depends on still has its work to do afterwards.
LEMMA OwedJobsKept ==
  ASSUME UNCHANGED <<caseStatus, draft>>,
         \A i \in Jobs, c \in Cases :
           /\ caseStatus[c] = "triaged" /\ WillRoute(i, c) => WillRoute(i, c)'
           /\ caseStatus[c] = "in-resolution" /\ WillAnswer(i, c) => WillAnswer(i, c)'
           /\ caseStatus[c] = "awaiting-lead" /\ ~draft[c] /\ WillDraft(i, c)
                => WillDraft(i, c)'
  PROVE  OwesKept
  BY DEF OwesKept, TriagedHasSteward, InResolutionHasReply, LeadHasDraft

\* A status that a step gives to no case.
SetsNobody(s) == \A c \in Cases : caseStatus'[c] = s => caseStatus[c] = s

\* A step that inserts jobs, but touches no job of the Steward and no reply, keeps
\* what a status owes unless it gives that status to a case (or takes a draft away).
LEMMA OwesUnlessSet ==
  ASSUME \A m \in Jobs : \/ job'[m] = job[m]
                         \/ job[m].pc = "free"
                         \/ job[m].action \notin {"known_issue_match", "auto_reply"}
  PROVE  /\ SetsNobody("triaged") /\ TriagedHasSteward => TriagedHasSteward'
         /\ SetsNobody("in-resolution") /\ InResolutionHasReply => InResolutionHasReply'
         /\ SetsNobody("awaiting-lead") /\ (\A c \in Cases : draft[c] => draft'[c])
              /\ LeadHasDraft => LeadHasDraft'
  <1>1. \A m \in Jobs, c \in Cases : /\ WillRoute(m, c) => WillRoute(m, c)'
                                     /\ WillAnswer(m, c) => WillAnswer(m, c)'
                                     /\ WillDraft(m, c) => WillDraft(m, c)'
    BY DEF WillRoute, WillAnswer, WillDraft, Serves
  <1> QED BY <1>1 DEF SetsNobody, TriagedHasSteward, InResolutionHasReply, LeadHasDraft

\* No request in flight is to give its case the status s.
NobodySends(s) == \A r \in Requests : req[r].to # s

\* Ingestion and the shared part of the endpoints: jobs are only inserted, and a
\* status that no request is to set is not set.
LEMMA RequestsSetWhatTheySend ==
  ASSUME FrontlineTypeOK, NEW r \in Requests, IngestStep(r)
  PROVE  /\ \A m \in Jobs : job'[m] = job[m] \/ job[m].pc = "free"
         /\ UNCHANGED draft
         /\ \A s \in {"triaged", "in-resolution", "awaiting-lead"} :
              NobodySends(s) => NobodySends(s)' /\ SetsNobody(s)
  <1>0. /\ caseStatus \in [Cases -> CaseStatuses \cup {"none"}]
        /\ req \in [Requests -> Request \cup {FreeRequest}]
        /\ JobTypeOK
    BY DEF FrontlineTypeOK, PlatformTypeOK, RequestTypeOK
  <1>1. CASE \E c \in Cases : IngestCreate(r, c)
    BY <1>0, <1>1 DEF IngestCreate, Accept, frontVars, NobodySends, SetsNobody
  <1>2. CASE (CaseCheck(r) \/ CaseWrite(r) \/ DispatchCaseJob(r) \/ RequestFails(r))
             /\ UNCHANGED frontVars
    <2>1. req[r] \in Request
      BY <1>2, HandledIsRequest DEF CaseCheck, CaseWrite, DispatchCaseJob, RequestFails, Idle,
                                    FrontlineTypeOK, PlatformTypeOK
    <2>2. \A m \in Jobs : job'[m] = job[m] \/ job[m].pc = "free"
      BY <1>0, <1>2 DEF CaseCheck, CaseWrite, DispatchCaseJob, RequestFails, Enqueue, Free,
                        JobTypeOK
    <2>3. \A q \in Requests : req'[q].to \in {req[q].to, "none"}
      <3>1. CASE Reply(r)
        BY <1>0, <3>1 DEF Reply, FreeRequest
      <3>2. CASE \E point : Proceed(r, point)
        BY <1>0, <2>1, <3>2 DEF Proceed, Request
      <3> QED BY <1>2, <3>1, <3>2 DEF CaseCheck, CaseWrite, DispatchCaseJob, RequestFails
    <2>4. \A c \in Cases : caseStatus'[c] \in {caseStatus[c], req[r].to}
      BY <1>0, <1>2 DEF CaseCheck, CaseWrite, DispatchCaseJob, RequestFails, dbVars
    <2> QED BY <1>2, <2>2, <2>3, <2>4 DEF frontVars, NobodySends, SetsNobody
  <1> QED BY <1>1, <1>2 DEF IngestStep

\* As long as the requests are signals on their way to enriching, they set none
\* of the three statuses.
LEMMA OwedJobsIngest ==
  ASSUME FrontlineTypeOK, OnlyIngestion, NEW r \in Requests, IngestStep(r)
  PROVE  OwesKept
  <1>1. \A s \in {"triaged", "in-resolution", "awaiting-lead"} : NobodySends(s)
    <2>1. \A q \in Requests : req[q].to \in {"enriching", "none"}
      BY DEF OnlyIngestion, Idle, Request, RequestPoints, FreeRequest, FrontlineTypeOK,
             PlatformTypeOK, RequestTypeOK
    <2> QED BY <2>1 DEF NobodySends
  <1> QED BY <1>1, RequestsSetWhatTheySend, OwesUnlessSet DEF OwesKept

\* The Frontline worker: its commit inserts the Steward's job.
LEMMA OwedJobsTriage ==
  ASSUME FrontlineTypeOK, NEW i \in Jobs, TriageStep(i)
  PROVE  OwesKept
  <1>1. job[i].action = "triage" /\ job[i].pc # "free"
    BY DEF TriageStep, TriageStart, TriageCommit, At
  <1>2. CASE TriageStart(i)
    <2>1. \A m \in Jobs : m # i => job'[m] = job[m]
      BY <1>2 DEF TriageStart, Goto, Finish, FrontlineTypeOK, PlatformTypeOK, JobTypeOK
    <2> QED BY <1>1, <1>2, <2>1, OwedJobsKept DEF TriageStart, dbVars, frontVars,
               WillRoute, WillAnswer, WillDraft, Serves
  <1>3. CASE TriageCommit(i)
    <2>1. PICK d \in Cases : d = job[i].case
      BY <1>1, SlotHoldsJob DEF FrontlineTypeOK, PlatformTypeOK, Job
    <2>2. PICK n \in Jobs :
            GotoAndEnqueue(i, "audit", n, NewJob("known_issue_match", d, None, FALSE))
      BY <1>3, <2>1 DEF TriageCommit
    <2>3. /\ n # i /\ job[n].pc = "free"
          /\ job'[n] = NewJob("known_issue_match", d, None, FALSE)
          /\ \A m \in Jobs : m \notin {i, n} => job'[m] = job[m]
      BY <1>1, <2>2 DEF GotoAndEnqueue, Free, FrontlineTypeOK, PlatformTypeOK, JobTypeOK
    <2>4. WillRoute(n, d)'
      BY <2>3 DEF WillRoute, Serves, NewJob
    <2>5. \A c \in Cases : caseStatus'[c] = IF c = d THEN "triaged" ELSE caseStatus[c]
      BY <1>3, <2>1 DEF TriageCommit, FrontlineTypeOK, PlatformTypeOK
    <2>6. \A m \in Jobs, c \in Cases : /\ WillRoute(m, c) => WillRoute(m, c)'
                                       /\ WillAnswer(m, c) => WillAnswer(m, c)'
                                       /\ WillDraft(m, c) => WillDraft(m, c)'
      BY <1>1, <2>3 DEF WillRoute, WillAnswer, WillDraft, Serves
    <2>7. UNCHANGED draft
      BY <1>3 DEF TriageCommit, frontVars
    <2> QED BY <2>4, <2>5, <2>6, <2>7
            DEF OwesKept, TriagedHasSteward, InResolutionHasReply, LeadHasDraft
  <1> QED BY <1>2, <1>3 DEF TriageStep


\* The Steward: it gives a triaged case back only by routing it, and the route
\* comes with its job.
LEMMA OwedJobsSteward ==
  ASSUME FrontlineTypeOK, NEW i \in Jobs, StewardStep(i)
  PROVE  OwesKept
  <1>0. job[i].action = "known_issue_match" /\ job[i].pc # "free"
    BY DEF StewardStep, StewardStart, StewardRoute, StewardCreateCr,
           StewardCommit, StewardSidecar, StewardSidecarDispatch, At
  <1>1. CASE StewardStart(i)
    <2>1. \A m \in Jobs : m # i => job'[m] = job[m]
      BY <1>1 DEF StewardStart, Goto, Finish, FrontlineTypeOK, PlatformTypeOK, JobTypeOK
    <2>2. caseStatus[job[i].case] = "triaged" =>
            /\ job'[i].pc = "agent"
            /\ job'[i].action = job[i].action /\ job'[i].case = job[i].case
      <3>1. job[i] \in Job
        BY <1>0, SlotHoldsJob DEF FrontlineTypeOK, PlatformTypeOK
      <3> QED BY <1>1, <3>1 DEF StewardStart, Goto, FrontlineTypeOK, PlatformTypeOK,
                                JobTypeOK, Job
    <2>3. UNCHANGED <<caseStatus, draft>>
      BY <1>1 DEF StewardStart, dbVars, frontVars
    <2> QED BY <1>0, <2>1, <2>2, <2>3, OwedJobsKept
            DEF WillRoute, WillAnswer, WillDraft, Serves
  <1>2. CASE StewardRoute(i) \/ StewardCreateCr(i)
    <2>1. /\ job'[i].pc \in {"createCr", "commit"}
          /\ job'[i].action = job[i].action /\ job'[i].case = job[i].case
          /\ \A m \in Jobs : m # i => job'[m] = job[m] \/ job[m].pc = "free"
      <3>1. job[i] \in Job
        BY <1>0, SlotHoldsJob DEF FrontlineTypeOK, PlatformTypeOK
      <3>2. CASE StewardCreateCr(i)
        BY <3>1, <3>2 DEF StewardCreateCr, FrontlineTypeOK, PlatformTypeOK, JobTypeOK, Job
      <3>3. CASE StewardRoute(i)
        <4>1. PICK plan \in {"in-change", "in-resolution", "awaiting-lead"} :
                LET routed == [job EXCEPT ![i].plan = plan,
                                 ![i].pc = IF plan = "in-change" THEN "createCr" ELSE "commit"]
                IN \/ job' = routed
                   \/ \E n \in Jobs :
                        /\ Free(n)
                        /\ job' = [routed EXCEPT ![n] =
                                     NewJob("outage_routing", job[i].case, None, FALSE)]
          BY <3>3 DEF StewardRoute
        <4> DEFINE routed == [job EXCEPT ![i].plan = plan,
                                ![i].pc = IF plan = "in-change" THEN "createCr" ELSE "commit"]
        <4>2. /\ routed \in [Jobs -> {routed[m] : m \in Jobs}]
              /\ routed[i].pc \in {"createCr", "commit"}
              /\ routed[i].action = job[i].action /\ routed[i].case = job[i].case
              /\ \A m \in Jobs : m # i => routed[m] = job[m]
          BY <3>1 DEF FrontlineTypeOK, PlatformTypeOK, JobTypeOK, Job
        <4>3. \/ job' = routed
              \/ \E n \in Jobs :
                   /\ Free(n)
                   /\ job' = [routed EXCEPT ![n] =
                                NewJob("outage_routing", job[i].case, None, FALSE)]
          BY <4>1
        <4> HIDE DEF routed
        <4> QED BY <1>0, <4>2, <4>3 DEF Free
      <3> QED BY <1>2, <3>2, <3>3
    <2>2. UNCHANGED <<caseStatus, draft>>
      BY <1>2 DEF StewardRoute, StewardCreateCr, dbVars, frontVars
    <2> QED BY <1>0, <2>1, <2>2, OwedJobsKept DEF WillRoute, WillAnswer, WillDraft, Serves
  <1>3. CASE StewardCommit(i)
    <2>1. PICK d \in Cases : d = job[i].case
      BY <1>0, SlotHoldsJob DEF FrontlineTypeOK, PlatformTypeOK, Job
    <2>2. PICK n \in Jobs, point \in {"sidecar", "audit"} :
            GotoAndEnqueue(i, point, n, RoutedJob(i))
      BY <1>3 DEF StewardCommit
    <2>3. /\ n # i /\ job[n].pc = "free" /\ job'[n] = RoutedJob(i)
          /\ \A m \in Jobs : m \notin {i, n} => job'[m] = job[m]
      BY <1>0, <2>2 DEF GotoAndEnqueue, Free, FrontlineTypeOK, PlatformTypeOK, JobTypeOK
    <2>4. job[i].plan \in {"in-change", "in-resolution", "awaiting-lead"}
      <3>1. job[i] \in Job
        BY <1>0, SlotHoldsJob DEF FrontlineTypeOK, PlatformTypeOK
      <3> QED BY <1>3, <3>1, CaseTarget, PlansThatAreStatuses DEF StewardCommit, Job
    <2>5. /\ job[i].plan = "in-resolution" =>
               job'[n] = NewJob("auto_reply", d, None, FALSE)
          /\ job[i].plan = "awaiting-lead" =>
               job'[n] = NewJob("auto_reply", d, None, TRUE)
      BY <2>1, <2>3 DEF RoutedJob
    <2>6. /\ job[i].plan = "in-resolution" => WillAnswer(n, d)'
          /\ job[i].plan = "awaiting-lead" => WillDraft(n, d)'
      BY <2>5 DEF WillAnswer, WillDraft, Serves, NewJob
    <2>7. \A m \in Jobs, c \in Cases : /\ c # d /\ WillRoute(m, c) => WillRoute(m, c)'
                                       /\ WillAnswer(m, c) => WillAnswer(m, c)'
                                       /\ WillDraft(m, c) => WillDraft(m, c)'
      BY <1>0, <2>1, <2>3 DEF WillRoute, WillAnswer, WillDraft, Serves
    <2>8. \A c \in Cases : caseStatus'[c] = IF c = d THEN job[i].plan ELSE caseStatus[c]
      BY <1>3, <2>1 DEF StewardCommit, FrontlineTypeOK, PlatformTypeOK
    <2>9. UNCHANGED draft
      BY <1>3 DEF StewardCommit, frontVars
    <2> QED BY <2>4, <2>6, <2>7, <2>8, <2>9
            DEF OwesKept, TriagedHasSteward, InResolutionHasReply, LeadHasDraft
  <1>4. CASE StewardSidecar(i) \/ StewardSidecarDispatch(i)
    <2>1. \A m \in Jobs : m # i => job'[m] = job[m] \/ job[m].pc = "free"
      BY <1>4 DEF StewardSidecar, StewardSidecarDispatch, Goto, GotoAndEnqueue, Free,
                  FrontlineTypeOK, PlatformTypeOK, JobTypeOK
    <2>2. job[i].pc \in {"sidecar", "sidecarJob"} /\ UNCHANGED <<caseStatus, draft>>
      BY <1>4 DEF StewardSidecar, StewardSidecarDispatch, At, dbVars, frontVars
    <2> QED BY <1>0, <2>1, <2>2, OwedJobsKept DEF WillRoute, WillAnswer, WillDraft, Serves
  <1> QED BY <1>1, <1>2, <1>3, <1>4 DEF StewardStep


\* The auto-reply worker: a job that starts in the wrong status is retried, one
\* that moved its case to the lead still has the draft to save.
LEMMA OwedJobsReply ==
  ASSUME FrontlineTypeOK, NEW i \in Jobs, AutoReplyStep(i)
  PROVE  OwesKept
  <1>0. job[i].action = "auto_reply" /\ job[i].pc # "free" /\ job[i] \in Job
    <2>1. job[i].action = "auto_reply" /\ job[i].pc # "free"
      BY DEF AutoReplyStep, AutoReplyStart, AutoReplyGate, AutoReplyCheck,
             AutoReplyWrite, AutoReplyEmail, AutoReplySave, At
    <2> QED BY <2>1, SlotHoldsJob DEF FrontlineTypeOK, PlatformTypeOK
  <1>a. PICK d \in Cases : d = job[i].case
    BY <1>0 DEF Job
  <1>b. \A m \in Jobs : m # i => job'[m] = job[m]
    BY DEF AutoReplyStep, AutoReplyStart, AutoReplyGate, AutoReplyCheck,
           AutoReplyWrite, AutoReplyEmail, AutoReplySave, Goto, Fail,
           FrontlineTypeOK, PlatformTypeOK, JobTypeOK
  <1>c. /\ job'[i].action = job[i].action /\ job'[i].case = job[i].case
        /\ job'[i].forced = job[i].forced
    <2>1. CASE Fail(i)
      BY <1>0, <2>1 DEF Fail, FrontlineTypeOK, PlatformTypeOK, JobTypeOK, Job
    <2>2. CASE \E point \in JobPoints : Goto(i, point)
      BY <1>0, <2>2 DEF Goto, FrontlineTypeOK, PlatformTypeOK, JobTypeOK, Job
    <2>3. CASE AutoReplyGate(i)
      BY <1>0, <2>3 DEF AutoReplyGate, FrontlineTypeOK, PlatformTypeOK, JobTypeOK, Job
    <2> QED BY <2>1, <2>2, <2>3, PointsOfJobs
            DEF AutoReplyStep, AutoReplyStart, AutoReplyCheck, AutoReplyWrite,
                AutoReplyEmail, AutoReplySave
  <1>1. CASE AutoReplyStart(i)
    <2>1. job'[i].pc \in {"agent", "queued", "dead"}
      BY <1>0, <1>1, FailType DEF AutoReplyStart, Goto, FrontlineTypeOK,
                                  PlatformTypeOK, JobTypeOK, Job
    <2>2. UNCHANGED <<caseStatus, draft>>
      BY <1>1 DEF AutoReplyStart, dbVars, frontVars
    <2> QED BY <1>0, <1>b, <1>c, <2>1, <2>2, OwedJobsKept
            DEF WillRoute, WillAnswer, WillDraft, Serves
  <1>2. CASE AutoReplyGate(i)
    <2>1. job'[i].pc = IF job[i].forced THEN "save" ELSE "check"
      BY <1>0, <1>2 DEF AutoReplyGate, FrontlineTypeOK, PlatformTypeOK, JobTypeOK, Job
    <2>2. UNCHANGED <<caseStatus, draft>>
      BY <1>2 DEF AutoReplyGate, dbVars, frontVars
    <2> QED BY <1>0, <1>b, <1>c, <2>1, <2>2, OwedJobsKept
            DEF WillRoute, WillAnswer, WillDraft, Serves
  <1>3. CASE AutoReplyCheck(i)
    <2>1. job'[i].pc = "write"
      BY <1>0, <1>3 DEF AutoReplyCheck, Goto, FrontlineTypeOK, PlatformTypeOK, JobTypeOK, Job
    <2>2. UNCHANGED <<caseStatus, draft>>
      BY <1>3 DEF AutoReplyCheck, dbVars, frontVars
    <2> QED BY <1>0, <1>b, <1>c, <2>1, <2>2, OwedJobsKept
            DEF WillRoute, WillAnswer, WillDraft, Serves
  <1>4. CASE AutoReplyWrite(i)
    <2>1. /\ job'[i].pc = IF job[i].plan = "send" THEN "email" ELSE "save"
          /\ \A c \in Cases : caseStatus'[c] = IF c = d THEN ReplyTarget(i) ELSE caseStatus[c]
      BY <1>0, <1>4, <1>a DEF AutoReplyWrite, Goto, FrontlineTypeOK, PlatformTypeOK,
                              JobTypeOK, Job
    <2>2. /\ ReplyTarget(i) \in {"resolved", "awaiting-lead"}
          /\ ReplyTarget(i) = "awaiting-lead" => WillDraft(i, d)'
      BY <1>0, <1>a, <1>c, <2>1 DEF ReplyTarget, WillDraft, Serves
    <2>3. \A m \in Jobs, c \in Cases \ {d} : /\ WillRoute(m, c) => WillRoute(m, c)'
                                             /\ WillAnswer(m, c) => WillAnswer(m, c)'
                                             /\ WillDraft(m, c) => WillDraft(m, c)'
      BY <1>0, <1>a, <1>b, <1>c DEF WillRoute, WillAnswer, WillDraft, Serves
    <2>4. UNCHANGED draft
      BY <1>4 DEF AutoReplyWrite, frontVars
    <2> QED BY <2>1, <2>2, <2>3, <2>4
            DEF OwesKept, TriagedHasSteward, InResolutionHasReply, LeadHasDraft
  <1>5. CASE AutoReplyEmail(i)
    <2>1. job[i].pc = "email" /\ UNCHANGED <<caseStatus, draft>>
      BY <1>5 DEF AutoReplyEmail, At, dbVars
    <2> QED BY <1>0, <1>b, <1>c, <2>1, OwedJobsKept
            DEF WillRoute, WillAnswer, WillDraft, Serves
  <1>6. CASE AutoReplySave(i)
    <2>1. /\ job[i].pc = "save" /\ UNCHANGED caseStatus
          /\ \A c \in Cases : draft'[c] = IF c = d THEN TRUE ELSE draft[c]
      BY <1>6, <1>a DEF AutoReplySave, At, dbVars, FrontlineTypeOK
    <2>2. \A m \in Jobs, c \in Cases : /\ WillRoute(m, c) => WillRoute(m, c)'
                                       /\ WillAnswer(m, c) => WillAnswer(m, c)'
                                       /\ c # d /\ WillDraft(m, c) => WillDraft(m, c)'
      BY <1>0, <1>a, <1>b, <1>c, <2>1 DEF WillRoute, WillAnswer, WillDraft, Serves
    <2> QED BY <2>1, <2>2
            DEF OwesKept, TriagedHasSteward, InResolutionHasReply, LeadHasDraft
  <1> QED BY <1>1, <1>2, <1>3, <1>4, <1>5, <1>6 DEF AutoReplyStep

\* Outage routing touches its own job only.
LEMMA OwedJobsOutage ==
  ASSUME FrontlineTypeOK, NEW i \in Jobs, OutageStep(i)
  PROVE  OwesKept
  <1>1. /\ job[i].action = "outage_routing"
        /\ \A m \in Jobs : m # i => job'[m] = job[m]
        /\ UNCHANGED <<caseStatus, draft>>
    BY DEF OutageStep, OutageStart, OutageFinish, At, Goto, Finish, dbVars, frontVars,
           FrontlineTypeOK, PlatformTypeOK, JobTypeOK
  <1> QED BY <1>1, OwedJobsKept DEF WillRoute, WillAnswer, WillDraft, Serves

\* The queue: a failed attempt is still owed, and a dead one settles its case.
LEMMA OwedJobsQueue ==
  ASSUME ~MarkCanFail, FrontlineTypeOK, NEW i \in Jobs, QueueStep(i)
  PROVE  OwesKept
  <1>0. job[i].pc # "free" /\ job[i] \in Job
    <2>1. job[i].pc # "free"
      BY DEF QueueStep, WorkerFinish, JobFails, DeadLetter, Running
    <2> QED BY <2>1, SlotHoldsJob DEF FrontlineTypeOK, PlatformTypeOK
  <1>1. \A m \in Jobs : m # i => job'[m] = job[m]
    BY DEF QueueStep, WorkerFinish, JobFails, DeadLetter, Finish, Fail,
           FrontlineTypeOK, PlatformTypeOK, JobTypeOK
  <1>2. UNCHANGED draft
    BY DEF QueueStep, frontVars
  <1>3. CASE WorkerFinish(i)
    <2>1. job[i].pc = "audit" /\ UNCHANGED caseStatus
      BY <1>3 DEF WorkerFinish, dbVars
    <2> QED BY <1>1, <1>2, <2>1, OwedJobsKept DEF WillRoute, WillAnswer, WillDraft, Serves
  <1>4. CASE JobFails(i)
    <2>1. /\ job'[i].pc \in {"queued", "dead"}
          /\ job'[i].action = job[i].action /\ job'[i].case = job[i].case
          /\ job'[i].forced = job[i].forced
          /\ UNCHANGED caseStatus
      <3>1. job'[i].pc \in {"queued", "dead"}
        BY <1>0, <1>4, FailType DEF JobFails, FrontlineTypeOK, PlatformTypeOK
      <3> QED BY <1>0, <1>4, <3>1 DEF JobFails, Fail, dbVars, FrontlineTypeOK,
                                      PlatformTypeOK, JobTypeOK, Job
    <2> QED BY <1>1, <1>2, <2>1, OwedJobsKept DEF WillRoute, WillAnswer, WillDraft, Serves
  <1>5. CASE DeadLetter(i)
    <2>1. PICK d \in Cases : d = job[i].case
      BY <1>0 DEF Job
    <2>2. \A c \in Cases : caseStatus'[c] = IF c = d THEN "processing-failed"
                                                     ELSE caseStatus[c]
      BY <1>5, <2>1 DEF DeadLetter, FrontlineTypeOK, PlatformTypeOK
    <2>3. \A m \in Jobs, c \in Cases \ {d} : /\ WillRoute(m, c) => WillRoute(m, c)'
                                             /\ WillAnswer(m, c) => WillAnswer(m, c)'
                                             /\ WillDraft(m, c) => WillDraft(m, c)'
      BY <1>1, <2>1 DEF WillRoute, WillAnswer, WillDraft, Serves
    <2> QED BY <1>2, <2>2, <2>3
            DEF OwesKept, TriagedHasSteward, InResolutionHasReply, LeadHasDraft
  <1> QED BY <1>3, <1>4, <1>5 DEF QueueStep

\* All of the pipeline's jobs, and a step that changes nothing.
LEMMA FrontlineJobsOwe ==
  ASSUME ~MarkCanFail, FrontlineTypeOK, NEW i \in Jobs, FrontlineJobStep(i)
  PROVE  OwesKept
  BY OwedJobsTriage, OwedJobsSteward, OwedJobsReply, OwedJobsOutage, OwedJobsQueue
     DEF FrontlineJobStep

LEMMA OwedJobsIdle ==
  ASSUME UNCHANGED frontlineVars
  PROVE  OwesKept
  BY OwedJobsKept DEF frontlineVars, platformVars, frontVars, WillRoute, WillAnswer,
                      WillDraft, Serves

\* Every interleaving, crash and retry of the pipeline leaves a triaged case
\* with the Steward's job, a case in resolution with the job that answers it and
\* a case at the lead with a draft or the job that writes it.
THEOREM NoCaseLeftBehind ==
  ASSUME ~MarkCanFail
  PROVE  FrontlineSpec => [](TriagedHasSteward /\ InResolutionHasReply /\ LeadHasDraft)
  <1> DEFINE OwedJobs == TriagedHasSteward /\ InResolutionHasReply /\ LeadHasDraft
  <1>1. FrontlineInit => OnlyIngestion /\ OwedJobs
    BY DEF FrontlineInit, PlatformInit, FrontInit, OnlyIngestion, Idle, FreeRequest,
           TriagedHasSteward, InResolutionHasReply, LeadHasDraft
  <1>2. FrontlineTypeOK /\ OnlyIngestion /\ OwedJobs /\ [FrontlineNext]_frontlineVars
          => OnlyIngestion' /\ OwedJobs'
    <2> SUFFICES ASSUME FrontlineTypeOK, OnlyIngestion, OwedJobs,
                        [FrontlineNext]_frontlineVars
                 PROVE  OnlyIngestion' /\ OwedJobs'
      OBVIOUS
    <2>1. OnlyIngestion'
      BY OnlyIngestionKept DEF FrontlineTypeOK, PlatformTypeOK
    <2>2. OwesKept
      BY FrontlineJobsOwe, OwedJobsIngest, OwedJobsIdle DEF FrontlineNext
    <2> QED BY <2>1, <2>2 DEF OwesKept
  <1>3. OwedJobs => TriagedHasSteward /\ InResolutionHasReply /\ LeadHasDraft
    OBVIOUS
  <1> QED BY <1>1, <1>2, <1>3, FrontlineTypeCorrect, PTL DEF FrontlineSpec

-----------------------------------------------------------------------------
(* Nobody is answered twice.  A case walks down a line of three workers,   *)
(* with at most one job of each; the status tells how far the line has     *)
(* got, and an answer is only ever sent by the one auto_reply job, before  *)
(* its case can be answered again.                                         *)

LineActions == {"triage", "known_issue_match", "auto_reply"}

Line(i, c) == job[i].action \in LineActions /\ job[i].case = c

\* A signal in flight is the only thing that is happening to its case.
SignalsAreAlone ==
  \A r \in Requests : ~Idle(r) =>
    /\ caseStatus[req[r].case] = IF req[r].pc = "dispatch" THEN "enriching" ELSE "new"
    /\ \A s \in Requests : ~Idle(s) /\ req[s].case = req[r].case => s = r
    /\ \A i \in Jobs : job[i].case # req[r].case

\* A case has at most one job of each worker of the line.
OneJobPerAction ==
  \A i, j \in Jobs, c \in Cases :
    Line(i, c) /\ Line(j, c) /\ job[i].action = job[j].action => i = j

\* What the jobs of a case, of the line or not, tell of its status.
StatusOfLine ==
  \A i \in Jobs, c \in Cases :
    /\ job[i].case = c => caseStatus[c] \notin {"none", "new"}
    /\ Serves(i, "known_issue_match", c) => caseStatus[c] # "enriching"
    /\ Serves(i, "auto_reply", c) => caseStatus[c] \notin {"enriching", "triaged"}

RoutePoints == {"agent", "createCr", "commit"}
AnswerPoints == {"agent", "check", "write"}

\* A Steward that is about to route has a triaged case and no reply job yet.
RoutesOnce ==
  \A i \in Jobs, c \in Cases :
    Serves(i, "known_issue_match", c) /\ job[i].pc \in RoutePoints =>
      /\ caseStatus[c] \in {"triaged", "processing-failed"}
      /\ \A j \in Jobs : ~Serves(j, "auto_reply", c)

\* A reply job that is about to answer has a case that nobody has answered; one
\* that is about to send has in addition moved its case.
AnswersOnce ==
  \A i \in Jobs, c \in Cases :
    Serves(i, "auto_reply", c) =>
      /\ job[i].pc \in AnswerPoints \cup {"email"} => replies[c] = 0
      /\ job[i].pc = "email" => caseStatus[c] \in {"resolved", "processing-failed"}

LineInv ==
  SignalsAreAlone /\ OneJobPerAction /\ StatusOfLine /\ RoutesOnce /\ AnswersOnce
    /\ AnsweredOnce

\* The bound on emails keeps the counts of replies natural numbers.
LEMMA RepliesAreCounted ==
  ASSUME FrontlineTypeOK
  PROVE  \A c \in Cases : replies[c] \in Nat
  BY FrontlineAssumption DEF FrontlineTypeOK

\* A step of job i that changes no status and no reply count keeps the line in
\* order if the jobs it inserts are not of the line, and the job itself is gone
\* afterwards, or goes on with the same work and only comes to a point where it
\* routes or answers when it was at one already or has just seen the status it
\* waits for.
LEMMA LineKept ==
  ASSUME FrontlineTypeOK, LineInv, UNCHANGED <<caseStatus, replies, req>>, NEW i \in Jobs,
         \A m \in Jobs \ {i} :
           \/ job'[m] = job[m]
           \/ job'[m].action \notin LineActions /\ job'[m].case = job[i].case,
         \/ job'[i] = FreeJob
         \/ /\ job'[i].action = job[i].action /\ job'[i].case = job[i].case
            /\ job[i].action = "known_issue_match" /\ job'[i].pc \in RoutePoints =>
                 job[i].pc \in RoutePoints \/ caseStatus[job[i].case] = "triaged"
            /\ job[i].action = "auto_reply" /\ job'[i].pc \in AnswerPoints =>
                 \/ job[i].pc \in AnswerPoints
                 \/ caseStatus[job[i].case] \in {"in-resolution", "awaiting-lead"}
            /\ job[i].action = "auto_reply" => job'[i].pc # "email"
  PROVE  LineInv'
  <1>0. FreeJob.action \notin LineActions /\ FreeJob.case \notin Cases
    BY PlatformAssumption DEF FreeJob, LineActions
  <1>1. \A m \in Jobs, c \in Cases : Line(m, c)' =>
          Line(m, c) /\ job'[m].action = job[m].action
    BY <1>0 DEF Line
  <1>2. \A m \in Jobs, c \in Cases, a \in LineActions :
          Serves(m, a, c)' => Serves(m, a, c)
    BY <1>0 DEF Serves
  <1>c. \A m \in Jobs, c \in Cases : job'[m].case = c => \E j \in Jobs : job[j].case = c
    BY <1>0
  <1>3. SignalsAreAlone'
    <2> SUFFICES ASSUME NEW r \in Requests, ~Idle(r)
                 PROVE  /\ caseStatus[req[r].case] =
                             IF req[r].pc = "dispatch" THEN "enriching" ELSE "new"
                        /\ \A s \in Requests : ~Idle(s) /\ req[s].case = req[r].case => s = r
                        /\ \A m \in Jobs : job'[m].case # req[r].case
      BY DEF SignalsAreAlone, Idle
    <2>1. req[r].case \in Cases
      BY HandledIsRequest DEF Idle, Request, FrontlineTypeOK, PlatformTypeOK
    <2> QED BY <1>c, <2>1 DEF LineInv, SignalsAreAlone
  <1>4. OneJobPerAction'
    BY <1>1 DEF LineInv, OneJobPerAction
  <1>5. StatusOfLine'
    BY <1>c, <1>2 DEF LineInv, StatusOfLine, LineActions
  <1>6. RoutesOnce'
    <2> SUFFICES ASSUME NEW m \in Jobs, NEW c \in Cases,
                        Serves(m, "known_issue_match", c)', job'[m].pc \in RoutePoints
                 PROVE  /\ caseStatus[c] \in {"triaged", "processing-failed"}
                        /\ \A j \in Jobs : ~Serves(j, "auto_reply", c)'
      BY DEF RoutesOnce
    <2>1. Serves(m, "known_issue_match", c)
      BY <1>2 DEF LineActions
    <2>2. job[m].pc \in RoutePoints \/ caseStatus[c] = "triaged"
      BY <1>0, <2>1 DEF Serves, LineActions
    <2>3. /\ caseStatus[c] \in {"triaged", "processing-failed"}
          /\ \A j \in Jobs : ~Serves(j, "auto_reply", c)
      BY <2>1, <2>2 DEF LineInv, RoutesOnce, StatusOfLine
    <2> QED BY <1>2, <2>3 DEF LineActions
  <1>7. AnswersOnce'
    <2> SUFFICES ASSUME NEW m \in Jobs, NEW c \in Cases, Serves(m, "auto_reply", c)',
                        job'[m].pc \in AnswerPoints \cup {"email"}
                 PROVE  /\ replies[c] = 0
                        /\ job'[m].pc = "email" =>
                             caseStatus[c] \in {"resolved", "processing-failed"}
      BY DEF AnswersOnce
    <2>1. Serves(m, "auto_reply", c)
      BY <1>2 DEF LineActions
    <2>2. CASE job'[m] = job[m]
      BY <2>1, <2>2 DEF LineInv, AnswersOnce
    <2>3. CASE m = i /\ job'[i].pc # "email"
      <3>1. job[i].pc \in AnswerPoints \/ caseStatus[c] \in {"in-resolution", "awaiting-lead"}
        <4>1. job'[i] # FreeJob /\ job'[i].pc \in AnswerPoints
          BY <1>0, <2>3 DEF Serves, LineActions
        <4> QED BY <2>1, <2>3, <4>1 DEF Serves
      <3>2. CASE job[i].pc \in AnswerPoints
        BY <2>1, <2>3, <3>2 DEF LineInv, AnswersOnce
      <3>3. CASE caseStatus[c] \in {"in-resolution", "awaiting-lead"}
        <4>1. replies[c] <= 1 /\ replies[c] # 1 /\ replies[c] \in Nat
          BY <3>3, RepliesAreCounted DEF LineInv, AnsweredOnce
        <4> QED BY <4>1, <2>3
      <3> QED BY <3>1, <3>2, <3>3
    <2> QED BY <1>0, <2>1, <2>2, <2>3 DEF Serves, LineActions
  <1>8. AnsweredOnce'
    BY DEF LineInv, AnsweredOnce
  <1> QED BY <1>3, <1>4, <1>5, <1>6, <1>7, <1>8 DEF LineInv

\* Ingestion: nothing else happens to a case until its triage job is inserted.
LEMMA LineIngest ==
  ASSUME FrontlineTypeOK, OnlyIngestion, LineInv, NEW r \in Requests, IngestStep(r)
  PROVE  LineInv'
  <1>0. UNCHANGED replies
    BY DEF IngestStep, IngestCreate, frontVars
  <1>1. CASE \E c \in Cases : IngestCreate(r, c)
    <2>1. PICK d \in Cases : IngestCreate(r, d)
      BY <1>1
    <2>2. /\ caseStatus[d] = "none"
          /\ \A c \in Cases : caseStatus'[c] = IF c = d THEN "new" ELSE caseStatus[c]
          /\ UNCHANGED job
      BY <2>1 DEF IngestCreate, FrontlineTypeOK, PlatformTypeOK
    <2>3. /\ Idle(r) /\ ~Idle(r)'
          /\ req'[r].case = d /\ req'[r].pc = "caseCheck"
          /\ \A s \in Requests \ {r} : req'[s] = req[s]
      BY <2>1 DEF IngestCreate, Accept, Idle, FrontlineTypeOK, PlatformTypeOK, RequestTypeOK
    <2>4. /\ \A i \in Jobs : job[i].case # d
          /\ \A s \in Requests : ~Idle(s) => req[s].case # d
      BY <2>2 DEF LineInv, StatusOfLine, SignalsAreAlone
    <2>6. SignalsAreAlone'
      <3> SUFFICES ASSUME NEW q \in Requests, ~Idle(q)'
                   PROVE  /\ caseStatus'[req'[q].case] =
                               IF req'[q].pc = "dispatch" THEN "enriching" ELSE "new"
                          /\ \A s \in Requests : ~Idle(s)' /\ req'[s].case = req'[q].case => s = q
                          /\ \A m \in Jobs : job[m].case # req'[q].case
        BY <2>2 DEF SignalsAreAlone
      <3>1. CASE q = r
        BY <2>2, <2>3, <2>4, <3>1 DEF Idle
      <3>2. CASE q # r
        <4>1. ~Idle(q) /\ req'[q] = req[q] /\ req[q] \in Request
          BY <2>3, <3>2, HandledIsRequest DEF Idle, FrontlineTypeOK, PlatformTypeOK
        <4>2. req[q].case # d /\ req[q].case \in Cases
          BY <2>4, <4>1 DEF Request
        <4> QED BY <2>2, <2>3, <4>1, <4>2 DEF LineInv, SignalsAreAlone, Idle
      <3> QED BY <3>1, <3>2
    <2>7. OneJobPerAction'
      BY <2>2 DEF LineInv, OneJobPerAction, Line
    <2>8. \A m \in Jobs, c \in Cases, a \in LineActions :
            Serves(m, a, c)' => Serves(m, a, c) /\ c # d
      BY <2>2, <2>4 DEF Serves, Line
    <2>9. StatusOfLine' /\ RoutesOnce' /\ AnswersOnce'
      <3>1. StatusOfLine'
        BY <2>2, <2>4, <2>8 DEF LineInv, StatusOfLine, LineActions
      <3>2. RoutesOnce'
        BY <2>2, <2>8 DEF LineInv, RoutesOnce, LineActions
      <3>3. AnswersOnce'
        BY <1>0, <2>2, <2>8 DEF LineInv, AnswersOnce, LineActions
      <3> QED BY <3>1, <3>2, <3>3
    <2>10. AnsweredOnce'
      BY <1>0, <2>2 DEF LineInv, AnsweredOnce
    <2> QED BY <2>6, <2>7, <2>9, <2>10 DEF LineInv
  <1>2. ASSUME ~Idle(r), UNCHANGED job, UNCHANGED caseStatus,
               (Proceed(r, "caseWrite") /\ req[r].pc = "caseCheck") \/ Reply(r)
        PROVE  LineInv'
    <2>1. \A q \in Requests : ~Idle(q)' =>
            /\ ~Idle(q) /\ req'[q].case = req[q].case
            /\ req'[q].pc = "dispatch" <=> req[q].pc = "dispatch"
      BY <1>2, HandledIsRequest
         DEF Proceed, Reply, FreeRequest, Idle, FrontlineTypeOK, PlatformTypeOK, RequestTypeOK, Request
    <2>2. SignalsAreAlone'
      BY <1>2, <2>1 DEF LineInv, SignalsAreAlone
    <2> QED BY <1>0, <1>2, <2>2 DEF LineInv, OneJobPerAction, StatusOfLine, RoutesOnce,
                                    AnswersOnce, AnsweredOnce, Line, Serves
  <1>3. CASE CaseWrite(r)
    <2>1. /\ ~Idle(r) /\ req[r].op = "ingest" /\ req[r].to = "enriching"
          /\ req[r].pc = "caseWrite" /\ req[r] \in Request
      BY <1>3, HandledIsRequest
         DEF CaseWrite, Idle, OnlyIngestion, FrontlineTypeOK, PlatformTypeOK
    <2>2. PICK d \in Cases : d = req[r].case
      BY <2>1 DEF Request
    <2>3. /\ \A c \in Cases : caseStatus'[c] = IF c = d THEN "enriching" ELSE caseStatus[c]
          /\ UNCHANGED job /\ Proceed(r, "dispatch")
      BY <1>3, <2>1, <2>2 DEF CaseWrite, FrontlineTypeOK, PlatformTypeOK
    <2>4. /\ req'[r].case = d /\ req'[r].pc = "dispatch"
          /\ \A q \in Requests \ {r} : req'[q] = req[q]
      BY <2>1, <2>2, <2>3 DEF Proceed, FrontlineTypeOK, PlatformTypeOK, RequestTypeOK, Request
    <2>5. /\ caseStatus[d] = "new" /\ \A m \in Jobs : job[m].case # d
          /\ \A q \in Requests \ {r} : ~Idle(q) => req[q].case # d
      BY <2>1, <2>2 DEF LineInv, SignalsAreAlone
    <2>6. SignalsAreAlone'
      <3> SUFFICES ASSUME NEW q \in Requests, ~Idle(q)'
                   PROVE  /\ caseStatus'[req'[q].case] =
                               IF req'[q].pc = "dispatch" THEN "enriching" ELSE "new"
                          /\ \A s \in Requests : ~Idle(s)' /\ req'[s].case = req'[q].case => s = q
                          /\ \A m \in Jobs : job[m].case # req'[q].case
        BY <2>3 DEF SignalsAreAlone
      <3>1. CASE q = r
        BY <2>3, <2>4, <2>5, <3>1 DEF Idle
      <3>2. CASE q # r
        <4>1. ~Idle(q) /\ req'[q] = req[q] /\ req[q] \in Request
          BY <2>4, <3>2, HandledIsRequest DEF Idle, FrontlineTypeOK, PlatformTypeOK
        <4>2. req[q].case # d /\ req[q].case \in Cases
          BY <2>5, <3>2, <4>1 DEF Request
        <4> QED BY <2>3, <2>4, <4>1, <4>2 DEF LineInv, SignalsAreAlone, Idle
      <3> QED BY <3>1, <3>2
    <2>7. \A m \in Jobs, c \in Cases, a \in LineActions :
            Serves(m, a, c)' => Serves(m, a, c) /\ c # d
      BY <2>3, <2>5 DEF Serves, Line
    <2>8. OneJobPerAction'
      BY <2>3 DEF LineInv, OneJobPerAction, Line
    <2>9. StatusOfLine'
      BY <2>3, <2>5, <2>7 DEF LineInv, StatusOfLine, LineActions
    <2>10. RoutesOnce'
      BY <2>3, <2>7 DEF LineInv, RoutesOnce, LineActions
    <2>11. AnswersOnce'
      BY <1>0, <2>3, <2>7 DEF LineInv, AnswersOnce, LineActions
    <2>12. AnsweredOnce'
      BY <1>0, <2>3, <2>5 DEF LineInv, AnsweredOnce
    <2> QED BY <2>6, <2>8, <2>9, <2>10, <2>11, <2>12 DEF LineInv
  <1>4. CASE DispatchCaseJob(r)
    <2>1. /\ ~Idle(r) /\ req[r].pc = "dispatch" /\ req[r] \in Request
      BY <1>4, HandledIsRequest DEF DispatchCaseJob, Idle, FrontlineTypeOK, PlatformTypeOK
    <2>2. PICK d \in Cases : d = req[r].case
      BY <2>1 DEF Request
    <2>3. PICK n \in Jobs, a \in {"triage", "pr_draft_prep"} :
            Enqueue(n, NewJob(a, d, req[r].cr, FALSE))
      BY <1>4, <2>2 DEF DispatchCaseJob
    <2>4. /\ job'[n].action \in {"triage", "pr_draft_prep"} /\ job'[n].case = d
          /\ job[n].pc = "free" /\ job'[n].pc = "queued"
          /\ \A m \in Jobs \ {n} : job'[m] = job[m]
      BY <2>3 DEF Enqueue, Free, NewJob, FrontlineTypeOK, PlatformTypeOK, JobTypeOK
    <2>5. /\ caseStatus[d] = "enriching" /\ \A m \in Jobs : job[m].case # d
          /\ \A q \in Requests \ {r} : ~Idle(q) => req[q].case # d
      BY <2>1, <2>2 DEF LineInv, SignalsAreAlone
    <2>6. UNCHANGED caseStatus
      BY <1>4 DEF DispatchCaseJob, dbVars
    <2>7. \A q \in Requests : ~Idle(q)' => ~Idle(q) /\ q # r /\ req'[q] = req[q]
      BY <1>4 DEF DispatchCaseJob, Reply, FreeRequest, Idle, FrontlineTypeOK,
                  PlatformTypeOK, RequestTypeOK
    <2>8. \A m \in Jobs, c \in Cases : Line(m, c)' =>
            \/ Line(m, c) /\ m # n /\ c # d
            \/ m = n /\ c = d /\ job'[m].action = "triage"
      BY <2>4, <2>5 DEF Line, LineActions
    <2>9. SignalsAreAlone'
      <3> SUFFICES ASSUME NEW q \in Requests, ~Idle(q)'
                   PROVE  /\ caseStatus'[req'[q].case] =
                               IF req'[q].pc = "dispatch" THEN "enriching" ELSE "new"
                          /\ \A s \in Requests : ~Idle(s)' /\ req'[s].case = req'[q].case => s = q
                          /\ \A m \in Jobs : job'[m].case # req'[q].case
        BY DEF SignalsAreAlone
      <3>1. PICK e \in Cases : e = req[q].case /\ ~Idle(q) /\ q # r /\ req'[q] = req[q]
        BY <2>7, HandledIsRequest DEF Idle, Request, FrontlineTypeOK, PlatformTypeOK
      <3>2. e # d
        BY <2>5, <3>1
      <3>3. \A m \in Jobs : job[m].case # e
        BY <3>1 DEF LineInv, SignalsAreAlone
      <3>4. \A m \in Jobs : job'[m].case # e
        BY <2>4, <3>2, <3>3
      <3> QED BY <2>6, <2>7, <3>1, <3>4 DEF LineInv, SignalsAreAlone
    <2>10. OneJobPerAction'
      BY <2>4, <2>8 DEF LineInv, OneJobPerAction
    <2>11. \A m \in Jobs, c \in Cases, a2 \in {"known_issue_match", "auto_reply"} :
             Serves(m, a2, c)' => Serves(m, a2, c) /\ m # n
      BY <2>4 DEF Serves
    <2>12. StatusOfLine'
      BY <2>4, <2>5, <2>6, <2>11 DEF LineInv, StatusOfLine
    <2>13. RoutesOnce'
      BY <2>4, <2>6, <2>11 DEF LineInv, RoutesOnce
    <2>14. AnswersOnce'
      BY <1>0, <2>4, <2>6, <2>11 DEF LineInv, AnswersOnce
    <2>15. AnsweredOnce'
      BY <1>0, <2>6 DEF LineInv, AnsweredOnce
    <2> QED BY <2>9, <2>10, <2>12, <2>13, <2>14, <2>15 DEF LineInv
  <1> QED
    <2>1. CASE CaseCheck(r)
      BY <1>2, <2>1 DEF CaseCheck, Idle, dbVars
    <2>2. CASE RequestFails(r)
      BY <1>2, <2>2 DEF RequestFails, dbVars
    <2> QED BY <1>1, <1>3, <1>4, <2>1, <2>2 DEF IngestStep

\* The requests in flight are not disturbed by a step on a case that has a job.
LEMMA SignalsStayAlone ==
  ASSUME SignalsAreAlone, RequestTypeOK, UNCHANGED req,
         NEW d \in Cases, NEW i \in Jobs, job[i].case = d,
         \A c \in Cases \ {d} : caseStatus'[c] = caseStatus[c],
         \A m \in Jobs, c \in Cases \ {d} : job'[m].case = c => job[m].case = c
  PROVE  SignalsAreAlone'
  <1> SUFFICES ASSUME NEW q \in Requests, ~Idle(q)
               PROVE  /\ caseStatus'[req[q].case] =
                           IF req[q].pc = "dispatch" THEN "enriching" ELSE "new"
                      /\ \A s \in Requests : ~Idle(s) /\ req[s].case = req[q].case => s = q
                      /\ \A m \in Jobs : job'[m].case # req[q].case
    BY DEF SignalsAreAlone, Idle
  <1>1. PICK e \in Cases : e = req[q].case
    BY HandledIsRequest DEF Idle, Request
  <1>2. e # d
    BY <1>1 DEF SignalsAreAlone
  <1> QED BY <1>1, <1>2 DEF SignalsAreAlone

\* The only way to triaged is from enriching, and a triaged or failed case is
\* routed from triaged only.
LEMMA RoadToRoutes ==
  /\ \A s : IsCaseTransitionAllowed(s, "triaged") => s = "enriching"
  /\ \A plan \in {"in-change", "in-resolution", "awaiting-lead"} :
       ~IsCaseTransitionAllowed("processing-failed", plan)
  BY DEF IsCaseTransitionAllowed, CaseStatuses, CASE_TRANSITIONS

\* The Frontline worker starts the one Steward of an enriching case.
LEMMA LineTriage ==
  ASSUME FrontlineTypeOK, LineInv, NEW i \in Jobs, TriageStep(i)
  PROVE  LineInv'
  <1>1. job[i].action = "triage" /\ job[i].pc # "free" /\ job[i] \in Job
    <2>1. job[i].action = "triage" /\ job[i].pc # "free"
      BY DEF TriageStep, TriageStart, TriageCommit, At
    <2> QED BY <2>1, SlotHoldsJob DEF FrontlineTypeOK, PlatformTypeOK
  <1>2. CASE TriageStart(i)
    <2>1. /\ \A m \in Jobs \ {i} : job'[m] = job[m]
          /\ \/ job'[i] = FreeJob
             \/ job'[i].action = "triage" /\ job'[i].case = job[i].case
      BY <1>1, <1>2 DEF TriageStart, Goto, Finish, Job,
                        FrontlineTypeOK, PlatformTypeOK, JobTypeOK
    <2> QED BY <1>1, <1>2, <2>1, LineKept
            DEF TriageStart, dbVars, frontVars
  <1>3. CASE TriageCommit(i)
    <2>1. PICK d \in Cases : d = job[i].case
      BY <1>1 DEF Job
    <2>2. PICK n \in Jobs :
            GotoAndEnqueue(i, "audit", n, NewJob("known_issue_match", d, None, FALSE))
      BY <1>3, <2>1 DEF TriageCommit
    <2>3. /\ n # i /\ job[n].pc = "free"
          /\ job'[n].action = "known_issue_match" /\ job'[n].case = d
          /\ job'[n].pc = "queued"
          /\ job'[i].action = "triage" /\ job'[i].case = d
          /\ \A m \in Jobs \ {i, n} : job'[m] = job[m]
      BY <1>1, <2>1, <2>2 DEF GotoAndEnqueue, Free, NewJob, Job,
                              FrontlineTypeOK, PlatformTypeOK, JobTypeOK
    <2>4. /\ caseStatus[d] = "enriching"
          /\ \A c \in Cases : caseStatus'[c] = IF c = d THEN "triaged" ELSE caseStatus[c]
          /\ UNCHANGED <<req, replies>>
      BY <1>3, <2>1, RoadToRoutes DEF TriageCommit, frontVars, FrontlineTypeOK, PlatformTypeOK
    <2>5. Line(i, d)
      BY <1>1, <2>1 DEF Line, LineActions
    <2>6. \A m \in Jobs : ~Serves(m, "known_issue_match", d) /\ ~Serves(m, "auto_reply", d)
      BY <2>4 DEF LineInv, StatusOfLine
    <2>7. \A m \in Jobs, c \in Cases : Line(m, c)' =>
            \/ m = n /\ c = d
            \/ m # n /\ Line(m, c) /\ job'[m].action = job[m].action
      BY <1>1, <2>1, <2>3, <2>5 DEF Line
    <2>8. \A m \in Jobs, c \in Cases :
            /\ Serves(m, "known_issue_match", c)' =>
                 \/ m = n /\ c = d
                 \/ c # d /\ Serves(m, "known_issue_match", c) /\ job'[m] = job[m]
            /\ Serves(m, "auto_reply", c)' =>
                 c # d /\ Serves(m, "auto_reply", c) /\ job'[m] = job[m]
      BY <1>1, <2>3, <2>6 DEF Serves
    <2>9. SignalsAreAlone'
      BY <2>1, <2>3, <2>4, SignalsStayAlone DEF LineInv, FrontlineTypeOK, PlatformTypeOK
    <2>10. OneJobPerAction'
      BY <2>3, <2>6, <2>7 DEF LineInv, OneJobPerAction, Line, Serves
    <2>11. StatusOfLine'
      BY <2>1, <2>3, <2>4, <2>8 DEF LineInv, StatusOfLine
    <2>12. RoutesOnce'
      BY <2>3, <2>4, <2>8 DEF LineInv, RoutesOnce, RoutePoints
    <2>13. AnswersOnce'
      BY <2>4, <2>8 DEF LineInv, AnswersOnce
    <2>14. AnsweredOnce'
      BY <2>4 DEF LineInv, AnsweredOnce
    <2> QED BY <2>9, <2>10, <2>11, <2>12, <2>13, <2>14 DEF LineInv
  <1> QED BY <1>2, <1>3 DEF TriageStep

\* The Steward starts the one reply job of a triaged case.
LEMMA LineSteward ==
  ASSUME FrontlineTypeOK, LineInv, NEW i \in Jobs, StewardStep(i)
  PROVE  LineInv'
  <1>1. job[i].action = "known_issue_match" /\ job[i].pc # "free" /\ job[i] \in Job
    <2>1. job[i].action = "known_issue_match" /\ job[i].pc # "free"
      BY DEF StewardStep, StewardStart, StewardRoute, StewardCreateCr,
             StewardCommit, StewardSidecar, StewardSidecarDispatch, At
    <2> QED BY <2>1, SlotHoldsJob DEF FrontlineTypeOK, PlatformTypeOK
  <1>2. CASE ~StewardCommit(i)
    <2>1. UNCHANGED <<caseStatus, replies, req>>
      BY <1>2 DEF StewardStep, StewardStart, StewardRoute, StewardCreateCr,
                  StewardSidecar, StewardSidecarDispatch, dbVars, frontVars
    <2>2. \A m \in Jobs \ {i} :
            \/ job'[m] = job[m]
            \/ job'[m].action \notin LineActions /\ job'[m].case = job[i].case
      <3>1. CASE StewardRoute(i)
        BY <3>1 DEF StewardRoute, NewJob, LineActions, FrontlineTypeOK, PlatformTypeOK, JobTypeOK
      <3>2. CASE StewardSidecarDispatch(i)
        BY <3>2 DEF StewardSidecarDispatch, GotoAndEnqueue, Goto, NewJob, LineActions,
                    FrontlineTypeOK, PlatformTypeOK, JobTypeOK
      <3> QED BY <1>2, <3>1, <3>2 DEF StewardStep, StewardStart, StewardCreateCr,
              StewardSidecar, Goto, Finish, FrontlineTypeOK, PlatformTypeOK, JobTypeOK
    <2>3. \/ job'[i] = FreeJob
          \/ /\ job'[i].action = job[i].action /\ job'[i].case = job[i].case
             /\ job'[i].pc \in RoutePoints =>
                  job[i].pc \in RoutePoints \/ caseStatus[job[i].case] = "triaged"
      <3>1. CASE StewardStart(i)
        BY <1>1, <3>1 DEF StewardStart, Goto, Finish, Job,
                          FrontlineTypeOK, PlatformTypeOK, JobTypeOK
      <3>2. CASE StewardRoute(i)
        <4>1. job[i].pc \in RoutePoints
          BY <3>2 DEF StewardRoute, At, RoutePoints
        <4>2. PICK plan \in {"in-change", "in-resolution", "awaiting-lead"} :
                LET routed == [job EXCEPT ![i].plan = plan,
                                 ![i].pc = IF plan = "in-change" THEN "createCr" ELSE "commit"]
                IN \/ job' = routed
                   \/ \E n \in Jobs :
                        /\ Free(n)
                        /\ job' = [routed EXCEPT ![n] =
                                     NewJob("outage_routing", job[i].case, None, FALSE)]
          BY <3>2 DEF StewardRoute
        <4> DEFINE routed == [job EXCEPT ![i].plan = plan,
                                ![i].pc = IF plan = "in-change" THEN "createCr" ELSE "commit"]
        <4>3. /\ routed[i].action = job[i].action /\ routed[i].case = job[i].case
              /\ DOMAIN routed = Jobs /\ routed = [m \in Jobs |-> routed[m]]
          BY <1>1 DEF FrontlineTypeOK, PlatformTypeOK, JobTypeOK, Job
        <4>4. \/ job' = routed
              \/ \E n \in Jobs :
                   /\ Free(n)
                   /\ job' = [routed EXCEPT ![n] =
                                NewJob("outage_routing", job[i].case, None, FALSE)]
          BY <4>2
        <4> HIDE DEF routed
        <4>5. job'[i] = routed[i]
          BY <1>1, <4>3, <4>4 DEF Free
        <4> QED BY <4>1, <4>3, <4>5
      <3>3. CASE StewardCreateCr(i)
        <4>1. job[i].pc \in RoutePoints
          BY <3>3 DEF StewardCreateCr, At, RoutePoints
        <4>2. job'[i].action = job[i].action /\ job'[i].case = job[i].case
          BY <1>1, <3>3 DEF StewardCreateCr, Job, FrontlineTypeOK, PlatformTypeOK, JobTypeOK
        <4> QED BY <4>1, <4>2
      <3>4. CASE StewardSidecar(i)
        <4>1. /\ job'[i].pc \in {"audit", "sidecarJob"}
              /\ job'[i].action = job[i].action /\ job'[i].case = job[i].case
          <5>1. CASE Goto(i, "audit")
            BY <1>1, <5>1 DEF Goto, Job, FrontlineTypeOK, PlatformTypeOK, JobTypeOK
          <5>2. ASSUME NEW k \in ChangeRequests,
                       job' = [job EXCEPT ![i].cr = k, ![i].pc = "sidecarJob"]
                PROVE  /\ job'[i].pc = "sidecarJob"
                       /\ job'[i].action = job[i].action /\ job'[i].case = job[i].case
            BY <1>1, <5>2 DEF Job, FrontlineTypeOK, PlatformTypeOK, JobTypeOK
          <5> QED BY <3>4, <5>1, <5>2 DEF StewardSidecar
        <4> QED BY <4>1 DEF RoutePoints
      <3>5. CASE StewardSidecarDispatch(i)
        <4>1. /\ job'[i].pc = "audit"
              /\ job'[i].action = job[i].action /\ job'[i].case = job[i].case
          <5>1. CASE Goto(i, "audit")
            BY <1>1, <5>1 DEF Goto, Job, FrontlineTypeOK, PlatformTypeOK, JobTypeOK
          <5>2. ASSUME NEW n \in Jobs, NEW new, GotoAndEnqueue(i, "audit", n, new)
                PROVE  /\ job'[i].pc = "audit"
                       /\ job'[i].action = job[i].action /\ job'[i].case = job[i].case
            BY <1>1, <5>2 DEF GotoAndEnqueue, Free, Job, FrontlineTypeOK, PlatformTypeOK, JobTypeOK
          <5> QED BY <3>5, <5>1, <5>2 DEF StewardSidecarDispatch
        <4> QED BY <4>1 DEF RoutePoints
      <3> QED BY <1>2, <3>1, <3>2, <3>3, <3>4, <3>5 DEF StewardStep
    <2> QED BY <1>1, <2>1, <2>2, <2>3, LineKept
  <1>3. CASE StewardCommit(i)
    <2>1. PICK d \in Cases : d = job[i].case
      BY <1>1 DEF Job
    <2>2. PICK n \in Jobs, point \in {"sidecar", "audit"} :
            GotoAndEnqueue(i, point, n, RoutedJob(i))
      BY <1>3 DEF StewardCommit
    <2>3. job[i].plan \in {"in-change", "in-resolution", "awaiting-lead"}
      BY <1>1, <1>3, CaseTarget, PlansThatAreStatuses DEF StewardCommit, Job
    <2>4. /\ RoutedJob(i).action \in {"change_prep", "auto_reply"}
          /\ RoutedJob(i).case = d /\ RoutedJob(i).pc = "queued"
      BY <2>1, <2>3 DEF RoutedJob, NewJob
    <2>5. /\ n # i /\ job[n].pc = "free" /\ job'[n] = RoutedJob(i)
          /\ job'[i].action = "known_issue_match" /\ job'[i].case = d
          /\ job'[i].pc \in {"sidecar", "audit"}
          /\ \A m \in Jobs \ {i, n} : job'[m] = job[m]
      BY <1>1, <2>1, <2>2 DEF GotoAndEnqueue, Free, Job,
                              FrontlineTypeOK, PlatformTypeOK, JobTypeOK
    <2>6. /\ caseStatus[d] = "triaged"
          /\ \A m \in Jobs : ~Serves(m, "auto_reply", d)
      <3>1. job[i].pc = "commit" /\ IsCaseTransitionAllowed(caseStatus[d], job[i].plan)
        BY <1>3, <2>1 DEF StewardCommit, At
      <3>2. Serves(i, "known_issue_match", d) /\ job[i].pc \in RoutePoints
        BY <1>1, <2>1, <3>1 DEF Serves, RoutePoints
      <3> QED BY <2>3, <3>1, <3>2, RoadToRoutes DEF LineInv, RoutesOnce
    <2>7. /\ \A c \in Cases : caseStatus'[c] = IF c = d THEN job[i].plan ELSE caseStatus[c]
          /\ UNCHANGED <<req, replies>>
      BY <1>3, <2>1 DEF StewardCommit, frontVars, FrontlineTypeOK, PlatformTypeOK
    <2>8. Line(i, d)
      BY <1>1, <2>1 DEF Line, LineActions
    <2>9. \A m \in Jobs, c \in Cases : Line(m, c)' =>
            \/ m = n /\ c = d /\ job'[m].action = "auto_reply"
            \/ m # n /\ Line(m, c) /\ job'[m].action = job[m].action
      BY <1>1, <2>1, <2>4, <2>5 DEF Line, LineActions
    <2>10. \A m \in Jobs, c \in Cases :
             /\ Serves(m, "known_issue_match", c)' =>
                  \/ m = i /\ c = d
                  \/ m # i /\ Serves(m, "known_issue_match", c) /\ job'[m] = job[m]
             /\ Serves(m, "auto_reply", c)' =>
                  \/ m = n /\ c = d
                  \/ c # d /\ Serves(m, "auto_reply", c) /\ job'[m] = job[m]
      BY <2>4, <2>5, <2>6 DEF Serves
    <2>11. \A m \in Jobs \ {i} : ~Serves(m, "known_issue_match", d)
      BY <1>1, <2>1, <2>8 DEF LineInv, OneJobPerAction, Line, Serves
    <2>12. SignalsAreAlone'
      BY <2>1, <2>4, <2>5, <2>7, SignalsStayAlone DEF LineInv, FrontlineTypeOK, PlatformTypeOK
    <2>13. OneJobPerAction'
      BY <2>4, <2>5, <2>6, <2>9 DEF LineInv, OneJobPerAction, Line, Serves
    <2>14. StatusOfLine'
      BY <2>1, <2>3, <2>4, <2>5, <2>7, <2>10, <2>11 DEF LineInv, StatusOfLine
    <2>15. RoutesOnce'
      BY <2>5, <2>7, <2>10, <2>11 DEF LineInv, RoutesOnce, RoutePoints
    <2>16. AnswersOnce'
      BY <2>4, <2>5, <2>7, <2>10 DEF LineInv, AnswersOnce, AnswerPoints
    <2>17. AnsweredOnce'
      BY <2>6, <2>7 DEF LineInv, AnsweredOnce
    <2> QED BY <2>12, <2>13, <2>14, <2>15, <2>16, <2>17 DEF LineInv
  <1> QED BY <1>2, <1>3

\* The reply job moves the case before it sends, and sends once.
LEMMA LineReply ==
  ASSUME FrontlineTypeOK, LineInv, NEW i \in Jobs, AutoReplyStep(i)
  PROVE  LineInv'
  <1>0. job[i].action = "auto_reply" /\ job[i].pc # "free" /\ job[i] \in Job
    <2>1. job[i].action = "auto_reply" /\ job[i].pc # "free"
      BY DEF AutoReplyStep, AutoReplyStart, AutoReplyGate, AutoReplyCheck,
             AutoReplyWrite, AutoReplyEmail, AutoReplySave, At
    <2> QED BY <2>1, SlotHoldsJob DEF FrontlineTypeOK, PlatformTypeOK
  <1>a. PICK d \in Cases : d = job[i].case
    BY <1>0 DEF Job
  <1>b. \A m \in Jobs \ {i} : job'[m] = job[m]
    BY DEF AutoReplyStep, AutoReplyStart, AutoReplyGate, AutoReplyCheck,
           AutoReplyWrite, AutoReplyEmail, AutoReplySave, Goto, Fail,
           FrontlineTypeOK, PlatformTypeOK, JobTypeOK
  <1>c. job'[i].action = job[i].action /\ job'[i].case = job[i].case
    <2>1. CASE Fail(i)
      BY <1>0, <2>1 DEF Fail, FrontlineTypeOK, PlatformTypeOK, JobTypeOK, Job
    <2>2. CASE \E point \in JobPoints : Goto(i, point)
      BY <1>0, <2>2 DEF Goto, FrontlineTypeOK, PlatformTypeOK, JobTypeOK, Job
    <2>3. CASE AutoReplyGate(i)
      BY <1>0, <2>3 DEF AutoReplyGate, FrontlineTypeOK, PlatformTypeOK, JobTypeOK, Job
    <2> QED BY <2>1, <2>2, <2>3, PointsOfJobs
            DEF AutoReplyStep, AutoReplyStart, AutoReplyCheck, AutoReplyWrite,
                AutoReplyEmail, AutoReplySave
  <1>d. /\ Line(i, d) /\ Serves(i, "auto_reply", d)
        /\ \A m \in Jobs, c \in Cases : Line(m, c)' => Line(m, c) /\ job'[m].action = job[m].action
        /\ \A m \in Jobs, c \in Cases, a \in LineActions :
             Serves(m, a, c)' => Serves(m, a, c)
        /\ \A m \in Jobs \ {i} : ~Serves(m, "auto_reply", d)
    <2>1. Line(i, d) /\ Serves(i, "auto_reply", d)
      BY <1>0, <1>a DEF Line, Serves, LineActions
    <2>2. \A m \in Jobs, c \in Cases : Line(m, c)' => Line(m, c) /\ job'[m].action = job[m].action
      BY <1>b, <1>c DEF Line
    <2>3. \A m \in Jobs, c \in Cases, a \in LineActions : Serves(m, a, c)' => Serves(m, a, c)
      BY <1>b, <1>c DEF Serves
    <2>4. \A m \in Jobs \ {i} : ~Serves(m, "auto_reply", d)
      BY <2>1 DEF LineInv, OneJobPerAction, Line, Serves, LineActions
    <2> QED BY <2>1, <2>2, <2>3, <2>4
  <1>1. CASE AutoReplyStart(i) \/ AutoReplyGate(i) \/ AutoReplyCheck(i) \/ AutoReplySave(i)
    <2>1. UNCHANGED <<caseStatus, replies, req>>
      BY <1>1 DEF AutoReplyStart, AutoReplyGate, AutoReplyCheck, AutoReplySave, dbVars, frontVars
    <2>2. /\ job'[i].pc # "email"
          /\ job'[i].pc \in AnswerPoints =>
               \/ job[i].pc \in AnswerPoints
               \/ caseStatus[job[i].case] \in {"in-resolution", "awaiting-lead"}
      <3>1. CASE AutoReplyStart(i)
        <4>1. CASE caseStatus[job[i].case] = ExpectedByReply(i)
          <5>1. job'[i].pc = "agent"
            <6>1. Goto(i, "agent")
              BY <3>1, <4>1 DEF AutoReplyStart
            <6> QED BY <1>0, <6>1 DEF Goto, Job, FrontlineTypeOK, PlatformTypeOK, JobTypeOK
          <5> QED BY <4>1, <5>1 DEF ExpectedByReply
        <4>2. CASE caseStatus[job[i].case] # ExpectedByReply(i)
          BY <1>0, <3>1, <4>2, FailType DEF AutoReplyStart, AnswerPoints,
                                            FrontlineTypeOK, PlatformTypeOK
        <4> QED BY <4>1, <4>2
      <3>2. CASE AutoReplyGate(i)
        <4>1. job[i].pc = "agent" /\ job'[i].pc \in {"save", "check"}
          BY <1>0, <3>2 DEF AutoReplyGate, At, FrontlineTypeOK, PlatformTypeOK, JobTypeOK
        <4> QED BY <4>1 DEF AnswerPoints
      <3>3. CASE AutoReplyCheck(i)
        <4>1. job[i].pc = "check" /\ job'[i].pc = "write"
          BY <1>0, <3>3 DEF AutoReplyCheck, At, Goto, FrontlineTypeOK, PlatformTypeOK, JobTypeOK
        <4> QED BY <4>1 DEF AnswerPoints
      <3>4. CASE AutoReplySave(i)
        <4>1. job'[i].pc = "audit"
          BY <1>0, <3>4 DEF AutoReplySave, Goto, FrontlineTypeOK, PlatformTypeOK, JobTypeOK
        <4> QED BY <4>1 DEF AnswerPoints
      <3> QED BY <1>1, <3>1, <3>2, <3>3, <3>4
    <2> QED BY <1>0, <1>b, <1>c, <2>1, <2>2, LineKept
  <1>2. CASE AutoReplyWrite(i)
    <2>1. /\ job[i].pc = "write"
          /\ job'[i].pc = IF job[i].plan = "send" THEN "email" ELSE "save"
          /\ \A c \in Cases : caseStatus'[c] = IF c = d THEN ReplyTarget(i) ELSE caseStatus[c]
          /\ UNCHANGED <<req, replies>>
      BY <1>0, <1>2, <1>a DEF AutoReplyWrite, At, Goto, frontVars, FrontlineTypeOK,
                              PlatformTypeOK, JobTypeOK
    <2>2. ReplyTarget(i) = IF job[i].plan = "send" THEN "resolved" ELSE "awaiting-lead"
      BY DEF ReplyTarget
    <2>3. replies[d] = 0
      BY <1>d, <2>1 DEF LineInv, AnswersOnce, AnswerPoints
    <2>4. \A m \in Jobs :
            ~(Serves(m, "known_issue_match", d) /\ job[m].pc \in RoutePoints)
      BY <1>d DEF LineInv, RoutesOnce
    <2>5. SignalsAreAlone'
      <3>1. \A m \in Jobs, c \in Cases \ {d} :
              job'[m].case = c => job[m].case = c
        BY <1>b, <1>c
      <3> QED BY <1>a, <2>1, <3>1, SignalsStayAlone DEF LineInv, FrontlineTypeOK, PlatformTypeOK
    <2>6. OneJobPerAction'
      BY <1>d DEF LineInv, OneJobPerAction
    <2>7. StatusOfLine'
      BY <1>a, <1>b, <1>c, <1>d, <2>1, <2>2 DEF LineInv, StatusOfLine, LineActions
    <2>8. RoutesOnce'
      BY <1>0, <1>b, <1>c, <1>d, <2>1, <2>4 DEF LineInv, RoutesOnce, LineActions, Serves
    <2>9. AnswersOnce'
      <3> SUFFICES ASSUME NEW m \in Jobs, NEW c \in Cases, Serves(m, "auto_reply", c)'
                   PROVE  /\ job'[m].pc \in AnswerPoints \cup {"email"} => replies[c] = 0
                          /\ job'[m].pc = "email" =>
                               caseStatus'[c] \in {"resolved", "processing-failed"}
        BY <2>1 DEF AnswersOnce
      <3>1. Serves(m, "auto_reply", c)
        BY <1>d DEF LineActions
      <3>2. CASE m = i
        <4>1. c = d
          BY <1>a, <3>1, <3>2 DEF Serves
        <4> QED BY <2>1, <2>2, <2>3, <3>2, <4>1
      <3>3. CASE m # i
        <4>1. c # d
          BY <1>d, <3>1, <3>3
        <4> QED BY <1>b, <2>1, <3>1, <3>3, <4>1 DEF LineInv, AnswersOnce
      <3> QED BY <3>2, <3>3
    <2>10. AnsweredOnce'
      BY <2>1, <2>3 DEF LineInv, AnsweredOnce
    <2> QED BY <2>5, <2>6, <2>7, <2>8, <2>9, <2>10 DEF LineInv
  <1>3. CASE AutoReplyEmail(i)
    <2>1. /\ job[i].pc = "email" /\ job'[i].pc = "audit"
          /\ UNCHANGED <<caseStatus, req>>
      BY <1>0, <1>3 DEF AutoReplyEmail, At, Goto, dbVars, FrontlineTypeOK,
                        PlatformTypeOK, JobTypeOK
    <2>2. replies[d] = 0 /\ caseStatus[d] \in {"resolved", "processing-failed"}
      BY <1>d, <2>1 DEF LineInv, AnswersOnce
    <2>3. \A c \in Cases : replies'[c] = replies[c] \/ (c = d /\ replies'[c] = 1)
      BY <1>3, <1>a, <2>2 DEF AutoReplyEmail, FrontlineTypeOK
    <2>4. SignalsAreAlone'
      BY <1>b, <1>c, <2>1 DEF LineInv, SignalsAreAlone, Idle
    <2>5. OneJobPerAction'
      BY <1>d DEF LineInv, OneJobPerAction
    <2>6. StatusOfLine'
      BY <1>b, <1>c, <1>d, <2>1 DEF LineInv, StatusOfLine, LineActions
    <2>7. RoutesOnce'
      BY <1>0, <1>b, <1>c, <1>d, <2>1 DEF LineInv, RoutesOnce, LineActions, Serves
    <2>8. AnswersOnce'
      <3> SUFFICES ASSUME NEW m \in Jobs, NEW c \in Cases, Serves(m, "auto_reply", c)',
                          job'[m].pc \in AnswerPoints \cup {"email"}
                   PROVE  /\ replies'[c] = 0
                          /\ job'[m].pc = "email" =>
                               caseStatus[c] \in {"resolved", "processing-failed"}
        BY <2>1 DEF AnswersOnce
      <3>1. Serves(m, "auto_reply", c) /\ m # i
        BY <1>d, <2>1 DEF LineActions, AnswerPoints
      <3>2. c # d
        BY <1>d, <3>1
      <3> QED BY <1>b, <2>3, <3>1, <3>2 DEF LineInv, AnswersOnce
    <2>9. AnsweredOnce'
      BY <2>1, <2>2, <2>3 DEF LineInv, AnsweredOnce
    <2> QED BY <2>4, <2>5, <2>6, <2>7, <2>8, <2>9 DEF LineInv
  <1> QED BY <1>1, <1>2, <1>3 DEF AutoReplyStep

\* Outage routing is no part of the line.
LEMMA LineOutage ==
  ASSUME FrontlineTypeOK, LineInv, NEW i \in Jobs, OutageStep(i)
  PROVE  LineInv'
  <1>1. /\ job[i].action = "outage_routing" /\ job[i].pc # "free"
        /\ UNCHANGED <<caseStatus, replies, req>>
        /\ \A m \in Jobs \ {i} : job'[m] = job[m]
    BY DEF OutageStep, OutageStart, OutageFinish, At, Goto, Finish, dbVars, frontVars,
           FrontlineTypeOK, PlatformTypeOK, JobTypeOK
  <1>2. job[i] \in Job
    BY <1>1, SlotHoldsJob DEF FrontlineTypeOK, PlatformTypeOK
  <1>3. job'[i] = FreeJob \/ (job'[i].action = job[i].action /\ job'[i].case = job[i].case)
    BY <1>1, <1>2 DEF OutageStep, OutageStart, OutageFinish, Goto, Finish, Job,
                      FrontlineTypeOK, PlatformTypeOK, JobTypeOK
  <1> QED BY <1>1, <1>3, LineKept

\* The queue: an attempt that ends, fails or dies never brings a job nearer to
\* an answer, and a dead letter settles its case.
LEMMA LineQueue ==
  ASSUME FrontlineTypeOK, LineInv, NEW i \in Jobs, QueueStep(i)
  PROVE  LineInv'
  <1>0. job[i].pc # "free" /\ job[i] \in Job
    <2>1. job[i].pc # "free"
      BY DEF QueueStep, WorkerFinish, JobFails, DeadLetter, Running
    <2> QED BY <2>1, SlotHoldsJob DEF FrontlineTypeOK, PlatformTypeOK
  <1>1. /\ \A m \in Jobs \ {i} : job'[m] = job[m]
        /\ UNCHANGED <<replies, req>>
    BY DEF QueueStep, WorkerFinish, JobFails, DeadLetter, Finish, Fail, frontVars,
           FrontlineTypeOK, PlatformTypeOK, JobTypeOK
  <1>2. CASE JobFails(i)
    <2>1. job'[i].pc \in {"queued", "dead"}
      BY <1>0, <1>2, FailType DEF JobFails, FrontlineTypeOK, PlatformTypeOK
    <2>2. job'[i].action = job[i].action /\ job'[i].case = job[i].case
      BY <1>0, <1>2 DEF JobFails, Fail, FrontlineTypeOK, PlatformTypeOK, JobTypeOK, Job
    <2>3. UNCHANGED caseStatus
      BY <1>2 DEF JobFails, dbVars
    <2>4. job'[i].pc \notin RoutePoints \cup AnswerPoints \cup {"email"}
      BY <2>1 DEF RoutePoints, AnswerPoints
    <2> QED BY <1>1, <2>2, <2>3, <2>4, LineKept
  <1>3. CASE WorkerFinish(i) \/ DeadLetter(i)
    <2>1. /\ job'[i] = FreeJob
          /\ FreeJob.action \notin LineActions /\ FreeJob.case \notin Cases
      BY <1>3, PlatformAssumption DEF WorkerFinish, DeadLetter, Finish, FreeJob, LineActions,
                  FrontlineTypeOK, PlatformTypeOK, JobTypeOK
    <2>2. CASE UNCHANGED caseStatus
      BY <1>1, <2>1, <2>2, LineKept
    <2>3. CASE /\ DeadLetter(i)
               /\ caseStatus' = [caseStatus EXCEPT ![job[i].case] = "processing-failed"]
      <3>1. PICK d \in Cases : d = job[i].case
        BY <1>0 DEF Job
      <3>2. \A c \in Cases : caseStatus'[c] = IF c = d THEN "processing-failed"
                                                       ELSE caseStatus[c]
        BY <2>3, <3>1 DEF FrontlineTypeOK, PlatformTypeOK
      <3>3. \A m \in Jobs, c \in Cases : Line(m, c)' => Line(m, c) /\ job'[m] = job[m]
        BY <1>1, <2>1 DEF Line
      <3>4. \A m \in Jobs, c \in Cases, a \in LineActions :
              Serves(m, a, c)' => Serves(m, a, c) /\ job'[m] = job[m]
        BY <1>1, <2>1 DEF Serves
      <3>5. SignalsAreAlone'
        BY <1>1, <2>1, <3>1, <3>2, SignalsStayAlone
           DEF LineInv, FrontlineTypeOK, PlatformTypeOK
      <3>6. OneJobPerAction'
        BY <3>3 DEF LineInv, OneJobPerAction
      <3>7. StatusOfLine'
        BY <1>1, <2>1, <3>2, <3>4 DEF LineInv, StatusOfLine, LineActions
      <3>8. RoutesOnce'
        BY <3>2, <3>4 DEF LineInv, RoutesOnce, LineActions
      <3>9. AnswersOnce'
        BY <1>1, <3>2, <3>4 DEF LineInv, AnswersOnce, LineActions
      <3>10. AnsweredOnce'
        BY <1>1, <3>2 DEF LineInv, AnsweredOnce
      <3> QED BY <3>5, <3>6, <3>7, <3>8, <3>9, <3>10 DEF LineInv
    <2> QED BY <1>3, <2>2, <2>3 DEF WorkerFinish, DeadLetter, dbVars
  <1> QED BY <1>2, <1>3 DEF QueueStep

\* No interleaving, crash or retry answers the reporter of a case twice, and no
\* answer leaves before its case is resolved, whether or not dead letters can
\* be recorded.
THEOREM AnsweredOnceHolds == FrontlineSpec => []AnsweredOnce
  <1>1. FrontlineInit => OnlyIngestion /\ LineInv
    <2> SUFFICES ASSUME FrontlineInit
                 PROVE  OnlyIngestion /\ LineInv
      OBVIOUS
    <2>1. \A m \in Jobs, c \in Cases :
            ~Line(m, c) /\ job[m].case # c /\ \A action : ~Serves(m, action, c)
      BY PlatformAssumption DEF FrontlineInit, PlatformInit, FreeJob, Line, LineActions, Serves
    <2>2. \A r \in Requests : Idle(r)
      BY DEF FrontlineInit, PlatformInit, FreeRequest, Idle
    <2>3. \A c \in Cases : replies[c] = 0
      BY DEF FrontlineInit, FrontInit
    <2> QED BY <2>1, <2>2, <2>3 DEF OnlyIngestion, LineInv, SignalsAreAlone, OneJobPerAction,
                                    StatusOfLine, RoutesOnce, AnswersOnce, AnsweredOnce
  <1>2. FrontlineTypeOK /\ OnlyIngestion /\ LineInv /\ [FrontlineNext]_frontlineVars
          => OnlyIngestion' /\ LineInv'
    <2> SUFFICES ASSUME FrontlineTypeOK, OnlyIngestion, LineInv,
                        [FrontlineNext]_frontlineVars
                 PROVE  OnlyIngestion' /\ LineInv'
      OBVIOUS
    <2>1. OnlyIngestion'
      BY OnlyIngestionKept DEF FrontlineTypeOK, PlatformTypeOK
    <2>2. ASSUME NEW i \in Jobs, FrontlineJobStep(i)
          PROVE  LineInv'
      BY <2>2, LineTriage, LineSteward, LineReply, LineOutage, LineQueue
         DEF FrontlineJobStep
    <2>3. ASSUME NEW r \in Requests, IngestStep(r)
          PROVE  LineInv'
      BY <2>3, LineIngest
    <2>4. ASSUME UNCHANGED frontlineVars
          PROVE  LineInv'
      BY <2>4 DEF frontlineVars, platformVars, frontVars, LineInv, SignalsAreAlone,
                  OneJobPerAction, StatusOfLine, RoutesOnce, AnswersOnce, AnsweredOnce,
                  Line, Serves, Idle
    <2>5. LineInv'
      BY <2>2, <2>3, <2>4 DEF FrontlineNext
    <2> QED BY <2>1, <2>5
  <1>3. LineInv => AnsweredOnce
    BY DEF LineInv
  <1> QED BY <1>1, <1>2, <1>3, FrontlineTypeCorrect, PTL DEF FrontlineSpec

-----------------------------------------------------------------------------
(* A case in change has its change request.                                *)

\* A change request belongs to a case from its creation on, and a Steward that
\* is about to route to change has created one.
OwnedRequests ==
  /\ \A k \in ChangeRequests : crStatus[k] = "none" => crCase[k] = None
  /\ \A i \in Jobs, c \in Cases :
       Serves(i, "known_issue_match", c) /\ job[i].pc = "commit" /\ job[i].plan = "in-change"
         => \E k \in ChangeRequests : crCase[k] = c

OwnedInv == OwnedRequests /\ InChangeHasRequest

\* What is enough for a step to keep it: no change request changes hands, and
\* who newly depends on one has it.
LEMMA OwnedKept ==
  ASSUME OwnedInv,
         \A k \in ChangeRequests : crStatus'[k] = "none" => crCase'[k] = None,
         \A k \in ChangeRequests : crCase[k] \in Cases => crCase'[k] = crCase[k],
         \A c \in Cases : caseStatus'[c] = "in-change" =>
           caseStatus[c] = "in-change" \/ \E k \in ChangeRequests : crCase[k] = c,
         \A i \in Jobs, c \in Cases :
           Serves(i, "known_issue_match", c)' /\ job'[i].pc = "commit"
             /\ job'[i].plan = "in-change"
           => job'[i] = job[i] \/ \E k \in ChangeRequests : crCase'[k] = c
  PROVE  OwnedInv'
  <1>1. \A c \in Cases :
          (\E k \in ChangeRequests : crCase[k] = c) => \E k \in ChangeRequests : crCase'[k] = c
    OBVIOUS
  <1>2. InChangeHasRequest'
    BY <1>1 DEF OwnedInv, InChangeHasRequest
  <1>3. OwnedRequests'
    BY <1>1 DEF OwnedInv, OwnedRequests, Serves
  <1> QED BY <1>2, <1>3 DEF OwnedInv

\* A step of the queue that brings nobody to the commit of the Steward.
LEMMA NobodyCommits ==
  ASSUME FrontlineTypeOK, NEW i \in Jobs, job[i].pc # "free",
         \/ \E point \in JobPoints \ {"commit"} : Goto(i, point)
         \/ Finish(i)
         \/ Fail(i)
         \/ \E point \in JobPoints \ {"commit"}, n \in Jobs : \E action, c, k, forced :
              GotoAndEnqueue(i, point, n, NewJob(action, c, k, forced))
  PROVE  \A m \in Jobs : job'[m] = job[m] \/ job'[m].pc # "commit"
  <1>0. job[i] \in Job
    BY SlotHoldsJob DEF FrontlineTypeOK, PlatformTypeOK
  <1>1. CASE \E point \in JobPoints \ {"commit"} : Goto(i, point)
    BY <1>0, <1>1 DEF Goto, Job, FrontlineTypeOK, PlatformTypeOK, JobTypeOK
  <1>2. CASE Finish(i)
    BY <1>2 DEF Finish, FreeJob, FrontlineTypeOK, PlatformTypeOK, JobTypeOK
  <1>3. CASE Fail(i)
    <2>1. job'[i].pc \in {"queued", "dead"}
      BY <1>3, FailType DEF FrontlineTypeOK, PlatformTypeOK
    <2>2. \A m \in Jobs \ {i} : job'[m] = job[m]
      BY <1>3 DEF Fail, FrontlineTypeOK, PlatformTypeOK, JobTypeOK
    <2> QED BY <2>1, <2>2
  <1>4. ASSUME NEW point \in JobPoints \ {"commit"}, NEW n \in Jobs,
               NEW action, NEW c, NEW k, NEW forced,
               GotoAndEnqueue(i, point, n, NewJob(action, c, k, forced))
        PROVE  \A m \in Jobs : job'[m] = job[m] \/ job'[m].pc # "commit"
    BY <1>0, <1>4 DEF GotoAndEnqueue, Free, NewJob, Job, FrontlineTypeOK, PlatformTypeOK, JobTypeOK
  <1> QED BY <1>1, <1>2, <1>3, <1>4

\* A new row belongs to the case it was created for, and no other row changes.
LEMMA CreatedIsOwned ==
  ASSUME FrontlineTypeOK, OwnedRequests, NEW k \in ChangeRequests, NEW c \in Cases,
         CreateChangeRequest(k, c)
  PROVE  /\ crCase'[k] = c
         /\ \A l \in ChangeRequests : crStatus'[l] = "none" => crCase'[l] = None
         /\ \A l \in ChangeRequests : crCase[l] \in Cases => crCase'[l] = crCase[l]
  BY PlatformAssumption DEF CreateChangeRequest, OwnedRequests, FrontlineTypeOK, PlatformTypeOK

\* The steps that neither create a change request nor bring a Steward to its
\* commit nor route a case to change.
LEMMA OwnedKeptQuietly ==
  ASSUME OwnedInv, UNCHANGED <<crStatus, crCase>>,
         \A m \in Jobs : job'[m] = job[m] \/ job'[m].pc # "commit",
         \A c \in Cases : caseStatus'[c] = "in-change" => caseStatus[c] = "in-change"
  PROVE  OwnedInv'
  <1>1. \A k \in ChangeRequests : crStatus'[k] = "none" => crCase'[k] = None
    BY DEF OwnedInv, OwnedRequests
  <1> QED BY <1>1, OwnedKept

\* The Steward's steps.
LEMMA OwnedSteward ==
  ASSUME FrontlineTypeOK, OwnedInv, NEW i \in Jobs, StewardStep(i)
  PROVE  OwnedInv'
  <1>1. job[i].action = "known_issue_match" /\ job[i].pc # "free" /\ job[i] \in Job
    <2>1. job[i].action = "known_issue_match" /\ job[i].pc # "free"
      BY DEF StewardStep, StewardStart, StewardRoute, StewardCreateCr,
             StewardCommit, StewardSidecar, StewardSidecarDispatch, At
    <2> QED BY <2>1, SlotHoldsJob DEF FrontlineTypeOK, PlatformTypeOK
  <1>a. PICK d \in Cases : d = job[i].case
    BY <1>1 DEF Job
  <1>b. {"agent", "sidecar", "sidecarJob", "audit"} \subseteq JobPoints \ {"commit"}
    BY PointsOfJobs
  <1>2. CASE StewardStart(i)
    <2>1. \A m \in Jobs : job'[m] = job[m] \/ job'[m].pc # "commit"
      BY <1>1, <1>b, <1>2, NobodyCommits DEF StewardStart
    <2> QED BY <1>2, <2>1, OwnedKeptQuietly DEF StewardStart, dbVars
  <1>3. CASE StewardRoute(i)
    <2>1. PICK plan \in {"in-change", "in-resolution", "awaiting-lead"} :
            LET routed == [job EXCEPT ![i].plan = plan,
                             ![i].pc = IF plan = "in-change" THEN "createCr" ELSE "commit"]
            IN \/ job' = routed
               \/ \E n \in Jobs :
                    /\ Free(n)
                    /\ job' = [routed EXCEPT ![n] =
                                 NewJob("outage_routing", job[i].case, None, FALSE)]
      BY <1>3 DEF StewardRoute
    <2> DEFINE routed == [job EXCEPT ![i].plan = plan,
                            ![i].pc = IF plan = "in-change" THEN "createCr" ELSE "commit"]
    <2>2. /\ DOMAIN routed = Jobs /\ routed = [m \in Jobs |-> routed[m]]
          /\ \A m \in Jobs : \/ routed[m] = job[m]
                             \/ routed[m].pc # "commit"
                             \/ routed[m].plan # "in-change"
      BY <1>1 DEF Job, FrontlineTypeOK, PlatformTypeOK, JobTypeOK
    <2>3. \/ job' = routed
          \/ \E n \in Jobs :
               job' = [routed EXCEPT ![n] = NewJob("outage_routing", job[i].case, None, FALSE)]
      BY <2>1
    <2> HIDE DEF routed
    <2>4. \A m \in Jobs : \/ job'[m] = job[m]
                          \/ job'[m].pc # "commit"
                          \/ job'[m].plan # "in-change"
      BY <2>2, <2>3 DEF NewJob
    <2>5. \A k \in ChangeRequests : crStatus[k] = "none" => crCase[k] = None
      BY DEF OwnedInv, OwnedRequests
    <2> QED BY <1>3, <2>4, <2>5, OwnedKept DEF StewardRoute, dbVars
  <1>4. CASE StewardCreateCr(i)
    <2>1. PICK k \in ChangeRequests :
            /\ CreateChangeRequest(k, d)
            /\ job' = [job EXCEPT ![i].cr = k, ![i].pc = "commit"]
      BY <1>a, <1>4 DEF StewardCreateCr
    <2>2. /\ \A m \in Jobs \ {i} : job'[m] = job[m]
          /\ job'[i].case = d
      BY <1>1, <1>a, <2>1 DEF Job, FrontlineTypeOK, PlatformTypeOK, JobTypeOK
    <2>3. UNCHANGED caseStatus
      BY <1>4 DEF StewardCreateCr
    <2>4. /\ crCase'[k] = d
          /\ \A l \in ChangeRequests : crStatus'[l] = "none" => crCase'[l] = None
          /\ \A l \in ChangeRequests : crCase[l] \in Cases => crCase'[l] = crCase[l]
      BY <2>1, CreatedIsOwned DEF OwnedInv
    <2> QED BY <2>2, <2>3, <2>4, OwnedKept DEF Serves
  <1>5. CASE StewardCommit(i)
    <2>1. PICK n \in Jobs, point \in {"sidecar", "audit"} :
            GotoAndEnqueue(i, point, n, RoutedJob(i))
      BY <1>5 DEF StewardCommit
    <2>2. job[i].plan \in {"in-change", "in-resolution", "awaiting-lead"}
      BY <1>1, <1>5, CaseTarget, PlansThatAreStatuses DEF StewardCommit, Job
    <2>3. RoutedJob(i).pc = "queued"
      BY <2>2 DEF RoutedJob, NewJob
    <2>4. \A m \in Jobs : job'[m] = job[m] \/ job'[m].pc # "commit"
      BY <1>1, <2>1, <2>3 DEF GotoAndEnqueue, Free, Job, FrontlineTypeOK, PlatformTypeOK, JobTypeOK
    <2>5. \A c \in Cases : caseStatus'[c] = IF c = d THEN job[i].plan ELSE caseStatus[c]
      BY <1>5, <1>a DEF StewardCommit, FrontlineTypeOK, PlatformTypeOK
    <2>6. job[i].plan = "in-change" => \E k \in ChangeRequests : crCase[k] = d
      <3>1. Serves(i, "known_issue_match", d) /\ job[i].pc = "commit"
        BY <1>1, <1>5, <1>a DEF StewardCommit, At, Serves
      <3> QED BY <3>1 DEF OwnedInv, OwnedRequests
    <2>7. UNCHANGED <<crStatus, crCase>>
      BY <1>5 DEF StewardCommit
    <2>8. \A k \in ChangeRequests : crStatus'[k] = "none" => crCase'[k] = None
      BY <2>7 DEF OwnedInv, OwnedRequests
    <2> QED BY <2>4, <2>5, <2>6, <2>7, <2>8, OwnedKept
  <1>6. CASE StewardSidecar(i)
    <2>1. CASE Goto(i, "audit") /\ UNCHANGED <<crStatus, crCase>>
      <3>1. \A m \in Jobs : job'[m] = job[m] \/ job'[m].pc # "commit"
        BY <1>1, <1>b, <2>1, NobodyCommits
      <3> QED BY <1>6, <2>1, <3>1, OwnedKeptQuietly DEF StewardSidecar
    <2>2. ASSUME NEW k \in ChangeRequests, CreateChangeRequest(k, d),
                 job' = [job EXCEPT ![i].cr = k, ![i].pc = "sidecarJob"]
          PROVE  OwnedInv'
      <3>1. \A m \in Jobs : job'[m] = job[m] \/ job'[m].pc # "commit"
        BY <1>1, <2>2 DEF Job, FrontlineTypeOK, PlatformTypeOK, JobTypeOK
      <3>2. /\ \A l \in ChangeRequests : crStatus'[l] = "none" => crCase'[l] = None
            /\ \A l \in ChangeRequests : crCase[l] \in Cases => crCase'[l] = crCase[l]
        BY <2>2, CreatedIsOwned DEF OwnedInv
      <3> QED BY <1>6, <3>1, <3>2, OwnedKept DEF StewardSidecar
    <2> QED BY <1>6, <1>a, <2>1, <2>2 DEF StewardSidecar
  <1>7. CASE StewardSidecarDispatch(i)
    <2>1. \A m \in Jobs : job'[m] = job[m] \/ job'[m].pc # "commit"
      BY <1>1, <1>b, <1>7, NobodyCommits DEF StewardSidecarDispatch
    <2> QED BY <1>7, <2>1, OwnedKeptQuietly DEF StewardSidecarDispatch, dbVars
  <1> QED BY <1>2, <1>3, <1>4, <1>5, <1>6, <1>7 DEF StewardStep

\* The other workers and the queue create no change request and route nothing
\* to change.
LEMMA OwnedOthers ==
  ASSUME FrontlineTypeOK, OwnedInv, NEW i \in Jobs,
         TriageStep(i) \/ AutoReplyStep(i) \/ OutageStep(i) \/ QueueStep(i)
  PROVE  OwnedInv'
  <1>1. job[i].pc # "free" /\ job[i] \in Job
    <2>1. job[i].pc # "free"
      BY DEF TriageStep, TriageStart, TriageCommit, AutoReplyStep, AutoReplyStart,
             AutoReplyGate, AutoReplyCheck, AutoReplyWrite, AutoReplyEmail, AutoReplySave,
             OutageStep, OutageStart, OutageFinish, QueueStep, WorkerFinish, JobFails,
             DeadLetter, Running, At
    <2> QED BY <2>1, SlotHoldsJob DEF FrontlineTypeOK, PlatformTypeOK
  <1>2. {"agent", "audit", "write", "email", "save"} \subseteq JobPoints \ {"commit"}
    BY PointsOfJobs
  <1>3. \A m \in Jobs : job'[m] = job[m] \/ job'[m].pc # "commit"
    <2>1. CASE TriageStep(i) \/ OutageStep(i) \/ QueueStep(i)
      BY <1>1, <1>2, <2>1, NobodyCommits
         DEF TriageStep, TriageStart, TriageCommit, OutageStep, OutageStart, OutageFinish,
             QueueStep, WorkerFinish, JobFails, DeadLetter
    <2>2. CASE AutoReplyGate(i)
      BY <1>1, <2>2 DEF AutoReplyGate, Job, FrontlineTypeOK, PlatformTypeOK, JobTypeOK
    <2>3. CASE AutoReplyStep(i) /\ ~AutoReplyGate(i)
      BY <1>1, <1>2, <2>3, NobodyCommits
         DEF AutoReplyStep, AutoReplyStart, AutoReplyCheck, AutoReplyWrite,
             AutoReplyEmail, AutoReplySave
    <2> QED BY <2>1, <2>2, <2>3
  <1>4. UNCHANGED <<crStatus, crCase>>
    BY DEF TriageStep, TriageStart, TriageCommit, AutoReplyStep, AutoReplyStart,
           AutoReplyGate, AutoReplyCheck, AutoReplyWrite, AutoReplyEmail, AutoReplySave,
           OutageStep, OutageStart, OutageFinish, QueueStep, WorkerFinish, JobFails,
           DeadLetter, dbVars
  <1>5. \A c \in Cases : caseStatus'[c] = "in-change" => caseStatus[c] = "in-change"
    <2>1. CASE TriageStep(i)
      BY <2>1 DEF TriageStep, TriageStart, TriageCommit, dbVars, FrontlineTypeOK, PlatformTypeOK
    <2>2. CASE AutoReplyStep(i)
      BY <2>2 DEF AutoReplyStep, AutoReplyStart, AutoReplyGate, AutoReplyCheck, AutoReplyWrite,
                  AutoReplyEmail, AutoReplySave, ReplyTarget, dbVars, FrontlineTypeOK,
                  PlatformTypeOK
    <2>3. CASE OutageStep(i)
      BY <2>3 DEF OutageStep, OutageStart, OutageFinish, dbVars
    <2>4. CASE QueueStep(i)
      BY <2>4 DEF QueueStep, WorkerFinish, JobFails, DeadLetter, dbVars, FrontlineTypeOK,
                  PlatformTypeOK
    <2> QED BY <2>1, <2>2, <2>3, <2>4
  <1> QED BY <1>3, <1>4, <1>5, OwnedKeptQuietly

\* Nor does ingestion.
LEMMA OwnedIngest ==
  ASSUME FrontlineTypeOK, OnlyIngestion, OwnedInv, NEW r \in Requests, IngestStep(r)
  PROVE  OwnedInv'
  <1>1. UNCHANGED <<crStatus, crCase>>
    BY DEF IngestStep, IngestCreate, CaseCheck, CaseWrite, DispatchCaseJob, RequestFails, dbVars
  <1>2. \A m \in Jobs : job'[m] = job[m] \/ job'[m].pc # "commit"
    BY DEF IngestStep, IngestCreate, CaseCheck, CaseWrite, DispatchCaseJob, RequestFails,
           Enqueue, NewJob, FrontlineTypeOK, PlatformTypeOK, JobTypeOK
  <1>3. \A c \in Cases : caseStatus'[c] = "in-change" => caseStatus[c] = "in-change"
    <2>1. CASE CaseWrite(r)
      <3>1. req[r].to = "enriching"
        BY <2>1 DEF CaseWrite, OnlyIngestion, Idle
      <3> QED BY <2>1, <3>1 DEF CaseWrite, FrontlineTypeOK, PlatformTypeOK
    <2>2. CASE ~CaseWrite(r)
      BY <2>2 DEF IngestStep, IngestCreate, CaseCheck, DispatchCaseJob, RequestFails, dbVars,
                  FrontlineTypeOK, PlatformTypeOK
    <2> QED BY <2>1, <2>2
  <1> QED BY <1>1, <1>2, <1>3, OwnedKeptQuietly

\* A case the pipeline hands to change control has a change request of its own,
\* however often the Steward's job failed between creating it and routing.
THEOREM InChangeHasRequestHolds == FrontlineSpec => []InChangeHasRequest
  <1>1. FrontlineInit => OnlyIngestion /\ OwnedInv
    BY PlatformAssumption
       DEF FrontlineInit, PlatformInit, FreeJob, FreeRequest, OnlyIngestion, Idle, OwnedInv,
           OwnedRequests, InChangeHasRequest, Serves
  <1>2. FrontlineTypeOK /\ OnlyIngestion /\ OwnedInv /\ [FrontlineNext]_frontlineVars
          => OnlyIngestion' /\ OwnedInv'
    <2> SUFFICES ASSUME FrontlineTypeOK, OnlyIngestion, OwnedInv,
                        [FrontlineNext]_frontlineVars
                 PROVE  OnlyIngestion' /\ OwnedInv'
      OBVIOUS
    <2>1. OnlyIngestion'
      BY OnlyIngestionKept DEF FrontlineTypeOK, PlatformTypeOK
    <2>2. ASSUME NEW i \in Jobs, FrontlineJobStep(i)
          PROVE  OwnedInv'
      BY <2>2, OwnedSteward, OwnedOthers DEF FrontlineJobStep
    <2>3. ASSUME NEW r \in Requests, IngestStep(r)
          PROVE  OwnedInv'
      BY <2>3, OwnedIngest
    <2>4. ASSUME UNCHANGED frontlineVars
          PROVE  OwnedInv'
      BY <2>4, OwnedKeptQuietly DEF frontlineVars, platformVars
    <2>5. OwnedInv'
      BY <2>2, <2>3, <2>4 DEF FrontlineNext
    <2> QED BY <2>1, <2>5
  <1>3. OwnedInv => InChangeHasRequest
    BY DEF OwnedInv
  <1> QED BY <1>1, <1>2, <1>3, FrontlineTypeCorrect, PTL DEF FrontlineSpec

-----------------------------------------------------------------------------
(* The console: a failed case can always say which job failed.             *)

\* Every endpoint that begins with the guarded transition of a case accepts a
\* well-typed request for a status that is not processing-failed.
LEMMA ConsoleCallKinds ==
  ASSUME FrontlineTypeOK, NEW r \in Requests, NEW c \in Cases,
         \/ Escalate(r, c) \/ Forward(r, c) \/ Resolve(r, c) \/ Reopen(r, c)
         \/ DraftClarification(r, c) \/ TriageManual(r, c) \/ SignalReceived(r, c)
         \/ Retry(r, c) \/ SendDraftReply(r, c) \/ CorrectTriage(r, c)
  PROVE  /\ \E op \in Ops, k \in ChangeRequests \cup {None},
               to \in (CaseStatuses \cup {"none"}) \ {"processing-failed"},
               point \in {"caseCheck", "send", "load"} : Accept(r, op, c, k, to, point)
         /\ UNCHANGED <<dbVars, job, frontVars>>
  <1>1. {"escalate", "forward", "resolve", "reopen", "clarify", "triageManual",
         "signalReceived", "retry", "sendDraftReply", "correctTriage"} \subseteq Ops
    BY DEF Ops, CaseOps
  <1>2. {"awaiting-lead", "in-resolution", "resolved", "awaiting-user", "triaged",
         "enriching", "in-change", "none"}
          \subseteq (CaseStatuses \cup {"none"}) \ {"processing-failed"}
    BY DEF CaseStatuses, CASE_TRANSITIONS
  <1>3. CASE Escalate(r, c)
    BY <1>1, <1>2, <1>3 DEF Escalate, ConsoleCall
  <1>4. CASE Forward(r, c)
    BY <1>1, <1>2, <1>4 DEF Forward, ConsoleCall
  <1>5. CASE Resolve(r, c)
    BY <1>1, <1>2, <1>5 DEF Resolve, ConsoleCall
  <1>6. CASE Reopen(r, c)
    BY <1>1, <1>2, <1>6 DEF Reopen, ConsoleCall
  <1>7. CASE DraftClarification(r, c)
    BY <1>1, <1>2, <1>7 DEF DraftClarification, ConsoleCall
  <1>8. CASE TriageManual(r, c)
    BY <1>1, <1>2, <1>8 DEF TriageManual, ConsoleCall
  <1>9. CASE SignalReceived(r, c)
    BY <1>1, <1>2, <1>9 DEF SignalReceived, ConsoleCall
  <1>10. CASE Retry(r, c)
    BY <1>1, <1>2, <1>10 DEF Retry, PrepToRetry
  <1>11. CASE SendDraftReply(r, c)
    BY <1>1, <1>2, <1>11 DEF SendDraftReply
  <1>12. CASE CorrectTriage(r, c)
    BY <1>1, <1>2, <1>12 DEF CorrectTriage
  <1> QED BY <1>3, <1>4, <1>5, <1>6, <1>7, <1>8, <1>9, <1>10, <1>11, <1>12

\* No request in flight is to set processing-failed.
NobodySetsFailed == \A r \in Requests : req[r].to # "processing-failed"

\* The endpoints keep the state well typed, set no case to processing-failed
\* and forget no name of a failed job.
LEMMA ConsoleStepKeeps ==
  ASSUME FrontlineTypeOK, NobodySetsFailed, NEW r \in Requests, ConsoleStep(r)
  PROVE  /\ FrontlineTypeOK' /\ NobodySetsFailed'
         /\ UNCHANGED failedJob
         /\ \A c \in Cases : caseStatus'[c] = "processing-failed" =>
              caseStatus[c] = "processing-failed"
  <1>1. ASSUME NEW c \in Cases,
               \/ Escalate(r, c) \/ Forward(r, c) \/ Resolve(r, c) \/ Reopen(r, c)
               \/ DraftClarification(r, c) \/ TriageManual(r, c) \/ SignalReceived(r, c)
               \/ Retry(r, c) \/ SendDraftReply(r, c) \/ CorrectTriage(r, c)
        PROVE  /\ RequestTypeOK' /\ NobodySetsFailed'
               /\ UNCHANGED <<dbVars, job, frontVars>>
    <2>1. PICK op \in Ops, k \in ChangeRequests \cup {None},
               to \in (CaseStatuses \cup {"none"}) \ {"processing-failed"},
               point \in {"caseCheck", "send", "load"} : Accept(r, op, c, k, to, point)
      BY <1>1, ConsoleCallKinds
    <2>2. RequestTypeOK'
      <3>1. {"caseCheck", "send", "load"} \subseteq RequestPoints
        BY DEF RequestPoints
      <3> QED BY <2>1, <3>1, AcceptType DEF FrontlineTypeOK, PlatformTypeOK
    <2>3. NobodySetsFailed'
      BY <2>1 DEF Accept, NobodySetsFailed, FrontlineTypeOK, PlatformTypeOK, RequestTypeOK
    <2> QED BY <1>1, <2>2, <2>3, ConsoleCallKinds
  <1>2. ASSUME req[r].pc # "idle",
               Reply(r) \/ \E point \in RequestPoints : Proceed(r, point)
        PROVE  RequestTypeOK' /\ NobodySetsFailed'
    <2>1. req[r] \in Request
      BY <1>2, HandledIsRequest DEF FrontlineTypeOK, PlatformTypeOK
    <2>2. RequestTypeOK'
      BY <1>2, ProceedType, ReplyType DEF FrontlineTypeOK, PlatformTypeOK
    <2>3. NobodySetsFailed'
      BY <1>2, <2>1 DEF Proceed, Reply, FreeRequest, NobodySetsFailed, Request,
                        FrontlineTypeOK, PlatformTypeOK, RequestTypeOK
    <2> QED BY <2>2, <2>3
  <1>3. {"clear", "dispatch", "cancel"} \subseteq RequestPoints
    BY DEF RequestPoints
  <1>4. CASE SendDraftReplyEmail(r)
    <2>1. replies' \in [Cases -> 0..MaxReplies]
      <3>1. req[r].case \in Cases
        BY <1>4, HandledIsRequest DEF SendDraftReplyEmail, Handling, Request,
                                      FrontlineTypeOK, PlatformTypeOK
      <3>2. replies[req[r].case] + 1 \in 0..MaxReplies
        BY <1>4, <3>1, FrontlineAssumption DEF SendDraftReplyEmail, FrontlineTypeOK
      <3> QED BY <1>4, <3>1, <3>2 DEF SendDraftReplyEmail, FrontlineTypeOK
    <2>2. RequestTypeOK' /\ NobodySetsFailed'
      BY <1>2, <1>3, <1>4 DEF SendDraftReplyEmail, Handling
    <2> QED BY <1>4, <2>1, <2>2 DEF SendDraftReplyEmail, dbVars, FrontlineTypeOK,
                                    PlatformTypeOK, JobTypeOK
  <1>5. CASE SendDraftReplyClear(r)
    <2>1. draft' \in [Cases -> BOOLEAN]
      BY <1>5 DEF SendDraftReplyClear, FrontlineTypeOK
    <2>2. RequestTypeOK' /\ NobodySetsFailed'
      BY <1>2, <1>5 DEF SendDraftReplyClear, Handling
    <2> QED BY <1>5, <2>1, <2>2 DEF SendDraftReplyClear, dbVars, FrontlineTypeOK,
                                    PlatformTypeOK, JobTypeOK
  <1>6. ASSUME req'[r] \in Request, req'[r].to = req[r].to,
               req' = [q \in Requests |-> req'[q]],
               \A q \in Requests \ {r} : req'[q] = req[q]
        PROVE  RequestTypeOK' /\ NobodySetsFailed'
    <2>1. RequestTypeOK'
      BY <1>6 DEF FrontlineTypeOK, PlatformTypeOK, RequestTypeOK
    <2>2. NobodySetsFailed'
      BY <1>6 DEF NobodySetsFailed
    <2> QED BY <2>1, <2>2
  <1>7. CASE CorrectTriageLoad(r)
    <2>1. RequestTypeOK' /\ NobodySetsFailed'
      <3>1. req[r] \in Request
        BY <1>7, HandledIsRequest DEF CorrectTriageLoad, Handling, FrontlineTypeOK, PlatformTypeOK
      <3>2. PICK left \in SUBSET ChangeRequests :
              req' = [req EXCEPT ![r].pc = "cancel", ![r].left = left]
        BY <1>7 DEF CorrectTriageLoad
      <3>3. /\ req'[r] \in Request /\ req'[r].to = req[r].to
            /\ req' = [q \in Requests |-> req'[q]]
            /\ \A q \in Requests \ {r} : req'[q] = req[q]
        BY <1>3, <3>1, <3>2 DEF Request, FrontlineTypeOK, PlatformTypeOK, RequestTypeOK
      <3> QED BY <1>6, <3>3
    <2> QED BY <1>7, <2>1 DEF CorrectTriageLoad, dbVars, frontVars, FrontlineTypeOK,
                              PlatformTypeOK, JobTypeOK
  <1>8. CASE CorrectTriageCancel(r)
    <2>1. req[r] \in Request /\ req[r].pc = "cancel"
      BY <1>8, HandledIsRequest DEF CorrectTriageCancel, Handling, FrontlineTypeOK, PlatformTypeOK
    <2>2. PICK k \in req[r].left :
            /\ crStatus' = [crStatus EXCEPT ![k] = "rejected"]
            /\ req' = [req EXCEPT ![r].left = @ \ {k}]
      BY <1>8 DEF CorrectTriageCancel
    <2>3. req[r].left \ {k} \in SUBSET ChangeRequests
      BY <2>1 DEF Request
    <2>4. /\ req'[r] \in Request /\ req'[r].to = req[r].to
          /\ req' = [q \in Requests |-> req'[q]]
          /\ \A q \in Requests \ {r} : req'[q] = req[q]
      BY <2>1, <2>2, <2>3 DEF Request, FrontlineTypeOK, PlatformTypeOK, RequestTypeOK
    <2>5. RequestTypeOK' /\ NobodySetsFailed'
      BY <1>6, <2>4
    <2>6. crStatus' \in [ChangeRequests -> CrStatuses \cup {"none"}]
      <3>1. "rejected" \in CrStatuses
        BY DEF CrStatuses, CR_TRANSITIONS
      <3> QED BY <2>2, <3>1 DEF FrontlineTypeOK, PlatformTypeOK
    <2> QED BY <1>8, <2>5, <2>6 DEF CorrectTriageCancel, frontVars, FrontlineTypeOK,
                                    PlatformTypeOK, JobTypeOK
  <1>9. CASE CorrectTriageWrite(r)
    <2>1. RequestTypeOK' /\ NobodySetsFailed'
      BY <1>2, <1>3, <1>9 DEF CorrectTriageWrite, Handling
    <2>2. "triaged" \in CaseStatuses
      BY DEF CaseStatuses, CASE_TRANSITIONS
    <2> QED BY <1>9, <2>1, <2>2 DEF CorrectTriageWrite, frontVars, FrontlineTypeOK,
                                    PlatformTypeOK, JobTypeOK
  <1>10. CASE CorrectTriageDispatch(r)
    <2>1. RequestTypeOK' /\ NobodySetsFailed'
      BY <1>2, <1>10 DEF CorrectTriageDispatch, Handling
    <2>2. req[r].case \in Cases
      BY <1>10, HandledIsRequest DEF CorrectTriageDispatch, Handling, Request,
                                     FrontlineTypeOK, PlatformTypeOK
    <2>3. NewJob("known_issue_match", req[r].case, None, TRUE) \in Job
      <3>1. "known_issue_match" \in ActionTypes
        BY DEF ActionTypes, WorkerPoints
      <3> QED BY <2>2, <3>1, NewJobType
    <2>4. JobTypeOK'
      BY <1>10, <2>3, EnqueueType DEF CorrectTriageDispatch, FrontlineTypeOK, PlatformTypeOK
    <2> QED BY <1>10, <2>1, <2>4 DEF CorrectTriageDispatch, dbVars, frontVars,
                                     FrontlineTypeOK, PlatformTypeOK
  <1>11. CASE \E c \in Cases :
                \/ Escalate(r, c) \/ Forward(r, c) \/ Resolve(r, c) \/ Reopen(r, c)
                \/ DraftClarification(r, c) \/ TriageManual(r, c) \/ SignalReceived(r, c)
                \/ Retry(r, c) \/ SendDraftReply(r, c) \/ CorrectTriage(r, c)
    <2>1. /\ RequestTypeOK' /\ NobodySetsFailed'
          /\ UNCHANGED <<dbVars, job, frontVars>>
      BY <1>1, <1>11
    <2> QED BY <2>1 DEF dbVars, frontVars, FrontlineTypeOK, PlatformTypeOK, JobTypeOK
  <1> QED BY <1>4, <1>5, <1>7, <1>8, <1>9, <1>10, <1>11
      DEF ConsoleStep, TransitionCall, SendDraftReplyStep, CorrectTriageStep

\* The pipeline sets processing-failed together with the name of the dead job,
\* and a retry forgets the name together with the status.
LEMMA FrontlineNamesJob ==
  ASSUME FrontlineTypeOK, NobodySetsFailed, FailedNamesJob, [FrontlineNext]_frontlineVars
  PROVE  NobodySetsFailed' /\ FailedNamesJob'
  <1>1. ASSUME NEW i \in Jobs, FrontlineJobStep(i)
        PROVE  NobodySetsFailed' /\ FailedNamesJob'
    <2>1. UNCHANGED req
      BY <1>1, JobsLeaveRequests
    <2>2. CASE DeadLetter(i)
      <3>1. job[i].action # "none"
        <4>1. job[i].action \in ActionTypes
          BY <2>2, SlotHoldsJob DEF DeadLetter, Job, FrontlineTypeOK, PlatformTypeOK
        <4> QED BY <4>1 DEF ActionTypes, WorkerPoints
      <3> QED BY <2>1, <2>2, <3>1 DEF DeadLetter, FailedNamesJob, NobodySetsFailed,
                                      FrontlineTypeOK, PlatformTypeOK
    <2>3. CASE ~DeadLetter(i)
      <3>1. UNCHANGED failedJob
        BY <1>1, <2>3
           DEF FrontlineJobStep, TriageStep, TriageStart, TriageCommit, StewardStep,
               StewardStart, StewardRoute, StewardCreateCr, StewardCommit, StewardSidecar,
               StewardSidecarDispatch, AutoReplyStep, AutoReplyStart, AutoReplyGate,
               AutoReplyCheck, AutoReplyWrite, AutoReplyEmail, AutoReplySave, OutageStep,
               OutageStart, OutageFinish, QueueStep, WorkerFinish, JobFails, dbVars
      <3>2. \A c \in Cases : caseStatus'[c] = "processing-failed" =>
              caseStatus[c] = "processing-failed"
        <4>1. CASE TriageCommit(i)
          BY <4>1 DEF TriageCommit, FrontlineTypeOK, PlatformTypeOK
        <4>2. CASE StewardCommit(i)
          <5>1. job[i] \in Job
            BY <4>2, SlotHoldsJob DEF StewardCommit, At, FrontlineTypeOK, PlatformTypeOK
          <5>2. job[i].plan # "processing-failed"
            BY <5>1 DEF Job, Plans
          <5> QED BY <4>2, <5>2 DEF StewardCommit, FrontlineTypeOK, PlatformTypeOK
        <4>3. CASE AutoReplyWrite(i)
          BY <4>3 DEF AutoReplyWrite, ReplyTarget, FrontlineTypeOK, PlatformTypeOK
        <4>4. CASE ~TriageCommit(i) /\ ~StewardCommit(i) /\ ~AutoReplyWrite(i)
          <5>1. UNCHANGED caseStatus
            BY <1>1, <2>3, <4>4
               DEF FrontlineJobStep, TriageStep, TriageStart, StewardStep, StewardStart,
                   StewardRoute, StewardCreateCr, StewardSidecar, StewardSidecarDispatch,
                   AutoReplyStep, AutoReplyStart, AutoReplyGate, AutoReplyCheck,
                   AutoReplyEmail, AutoReplySave, OutageStep, OutageStart, OutageFinish,
                   QueueStep, WorkerFinish, JobFails, dbVars
          <5> QED BY <5>1
        <4> QED BY <4>1, <4>2, <4>3, <4>4
      <3> QED BY <2>1, <3>1, <3>2 DEF FailedNamesJob, NobodySetsFailed
    <2> QED BY <2>2, <2>3
  <1>2. ASSUME NEW r \in Requests, IngestStep(r)
        PROVE  NobodySetsFailed' /\ FailedNamesJob'
    <2>1. CASE \E c \in Cases : IngestCreate(r, c)
      BY <2>1 DEF IngestCreate, Accept, FailedNamesJob, NobodySetsFailed, FrontlineTypeOK,
                  PlatformTypeOK, RequestTypeOK
    <2>2. CASE CaseWrite(r)
      <3>1. req[r] \in Request
        BY <2>2, HandledIsRequest DEF CaseWrite, FrontlineTypeOK, PlatformTypeOK
      <3>2. NobodySetsFailed'
        BY <2>2, <3>1 DEF CaseWrite, Proceed, Reply, FreeRequest, NobodySetsFailed, Request,
                          FrontlineTypeOK, PlatformTypeOK, RequestTypeOK
      <3>3. FailedNamesJob'
        BY <2>2, <3>1 DEF CaseWrite, NobodySetsFailed, FailedNamesJob, Request,
                          FrontlineTypeOK, PlatformTypeOK
      <3> QED BY <3>2, <3>3
    <2>3. CASE CaseCheck(r) \/ DispatchCaseJob(r) \/ RequestFails(r)
      <3>1. req[r] \in Request /\ UNCHANGED dbVars
        BY <2>3, HandledIsRequest DEF CaseCheck, DispatchCaseJob, RequestFails, Idle,
                                      FrontlineTypeOK, PlatformTypeOK
      <3>2. NobodySetsFailed'
        <4>1. CASE Proceed(r, "caseWrite")
          BY <3>1, <4>1 DEF Proceed, NobodySetsFailed, Request, FrontlineTypeOK,
                            PlatformTypeOK, RequestTypeOK
        <4>2. CASE Reply(r)
          BY <4>2 DEF Reply, FreeRequest, NobodySetsFailed, FrontlineTypeOK,
                      PlatformTypeOK, RequestTypeOK
        <4> QED BY <2>3, <4>1, <4>2 DEF CaseCheck, DispatchCaseJob, RequestFails
      <3> QED BY <3>1, <3>2 DEF dbVars, FailedNamesJob
    <2> QED BY <1>2, <2>1, <2>2, <2>3 DEF IngestStep
  <1>3. CASE UNCHANGED frontlineVars
    BY <1>3 DEF frontlineVars, platformVars, FailedNamesJob, NobodySetsFailed
  <1> QED BY <1>1, <1>2, <1>3 DEF FrontlineNext

\* What the pipeline and the console keep together.
ConsoleInv == FrontlineTypeOK /\ NobodySetsFailed /\ FailedNamesJob

LEMMA ConsoleInvHolds == ConsoleSpec => []ConsoleInv
  <1>1. FrontlineInit => ConsoleInv
    <2> SUFFICES ASSUME FrontlineInit
                 PROVE  ConsoleInv
      OBVIOUS
    <2>1. FrontlineTypeOK
      BY FrontlineInitType
    <2>2. NobodySetsFailed /\ FailedNamesJob
      BY DEF FrontlineInit, PlatformInit, FreeRequest, NobodySetsFailed, FailedNamesJob
    <2> QED BY <2>1, <2>2 DEF ConsoleInv
  <1>2. ConsoleInv /\ [ConsoleNext]_frontlineVars => ConsoleInv'
    <2> SUFFICES ASSUME ConsoleInv, [ConsoleNext]_frontlineVars
                 PROVE  ConsoleInv'
      OBVIOUS
    <2>1. CASE [FrontlineNext]_frontlineVars
      BY <2>1, FrontlineTypeKept, FrontlineNamesJob DEF ConsoleInv
    <2>2. ASSUME NEW r \in Requests, ConsoleStep(r)
          PROVE  ConsoleInv'
      BY <2>2, ConsoleStepKeeps DEF ConsoleInv, FailedNamesJob
    <2> QED BY <2>1, <2>2 DEF ConsoleNext
  <1> QED BY <1>1, <1>2, PTL DEF ConsoleSpec

\* Whatever dead letters, retries and other operations come in at once, a case
\* shown as failed names the job that failed.
THEOREM FailedNamesJobHolds == ConsoleSpec => []FailedNamesJob
  <1>1. ConsoleInv => FailedNamesJob
    BY DEF ConsoleInv
  <1> QED BY <1>1, ConsoleInvHolds, PTL

\* The instance in which people do less, and the jobs are fair, is one of the console's:
\* what is proved of ConsoleSpec holds of it.
LEMMA RoutingIsConsole == RoutingSpec => ConsoleSpec
  <1>1. [RoutingNext]_frontlineVars => [ConsoleNext]_frontlineVars
    BY DEF RoutingNext, ConsoleNext, ConsoleStep
  <1> QED BY <1>1, PTL DEF RoutingSpec, ConsoleSpec

-----------------------------------------------------------------------------
(* The console, again: which operations may leave a case behind.  Each of  *)
(* the three statuses that the pipeline leaves by itself is given by a few *)
(* operations without the job that goes with it; where people do not use   *)
(* them, the promise of the pipeline holds for everything else they do.    *)

\* The operations that give a case the status s without its job.
Setters(s) ==
  CASE s = "triaged"       -> {"triageManual", "correctTriage"}
    [] s = "in-resolution" -> {"forward"}
    [] s = "awaiting-lead" -> {"escalate", "reopen", "reject"}

\* The requests in flight are operations that people use here, and what comes
\* from outside: signals and GitHub's deliveries.
OnlyOperations ==
  \A r \in Requests : req[r].op \in Operations \cup {"none", "ingest", "prMerged", "ciPassed"}

\* An endpoint called in a run is one of its operations, and it asks for one of
\* the three statuses only if it is one of the setters of that status.
LEMMA CallsAreSetters ==
  ASSUME NEW r \in Requests, NEW c \in Cases,
         \/ Escalate(r, c) \/ Forward(r, c) \/ Resolve(r, c) \/ Reopen(r, c)
         \/ DraftClarification(r, c) \/ TriageManual(r, c) \/ SignalReceived(r, c)
         \/ Retry(r, c) \/ SendDraftReply(r, c) \/ CorrectTriage(r, c)
  PROVE  \E op \in Operations : \E k, to, point :
           /\ Accept(r, op, c, k, to, point)
           /\ \A s \in {"triaged", "in-resolution", "awaiting-lead"} :
                to = s => op \in Setters(s)
  <1>1. CASE Escalate(r, c) \/ Forward(r, c) \/ Resolve(r, c) \/ Reopen(r, c)
    BY <1>1 DEF Escalate, Forward, Resolve, Reopen, ConsoleCall, Setters
  <1>2. CASE DraftClarification(r, c) \/ TriageManual(r, c) \/ SignalReceived(r, c)
    BY <1>2 DEF DraftClarification, TriageManual, SignalReceived, ConsoleCall, Setters
  <1>3. CASE Retry(r, c) \/ SendDraftReply(r, c) \/ CorrectTriage(r, c)
    BY <1>3 DEF Retry, SendDraftReply, CorrectTriage, Setters
  <1> QED BY <1>1, <1>2, <1>3

\* The console inserts jobs and touches none; a status that none of its
\* operations sets is not set, and a draft is only taken by send-draft-reply.
LEMMA ConsoleSetsWhatItSends ==
  ASSUME FrontlineTypeOK, OnlyOperations, NEW r \in Requests, ConsoleStep(r)
  PROVE  /\ \A m \in Jobs : job'[m] = job[m] \/ job[m].pc = "free"
         /\ OnlyOperations'
         /\ "sendDraftReply" \notin Operations => UNCHANGED draft
         /\ \A s \in {"triaged", "in-resolution", "awaiting-lead"} :
              Setters(s) \cap Operations = {} /\ NobodySends(s) =>
                NobodySends(s)' /\ SetsNobody(s)
  <1>0. /\ caseStatus \in [Cases -> CaseStatuses \cup {"none"}]
        /\ req \in [Requests -> Request \cup {FreeRequest}]
        /\ JobTypeOK
    BY DEF FrontlineTypeOK, PlatformTypeOK, RequestTypeOK
  <1> DEFINE Calls(c) ==
        \/ Escalate(r, c) \/ Forward(r, c) \/ Resolve(r, c) \/ Reopen(r, c)
        \/ DraftClarification(r, c) \/ TriageManual(r, c) \/ SignalReceived(r, c)
        \/ Retry(r, c) \/ SendDraftReply(r, c) \/ CorrectTriage(r, c)
  <1>1. ASSUME NEW c \in Cases, Calls(c)
        PROVE  /\ UNCHANGED <<dbVars, job, frontVars>>
               /\ OnlyOperations'
               /\ \A s \in {"triaged", "in-resolution", "awaiting-lead"} :
                    Setters(s) \cap Operations = {} /\ NobodySends(s) => NobodySends(s)'
    <2>0. PICK op \in Operations : \E k, to, point :
            /\ Accept(r, op, c, k, to, point)
            /\ \A s \in {"triaged", "in-resolution", "awaiting-lead"} :
                 to = s => op \in Setters(s)
      BY <1>1, CallsAreSetters
    <2>1. PICK k, to, point :
            /\ Accept(r, op, c, k, to, point)
            /\ \A s \in {"triaged", "in-resolution", "awaiting-lead"} :
                 to = s => op \in Setters(s)
      BY <2>0
    <2>2. /\ \A q \in Requests \ {r} : req'[q] = req[q]
          /\ req'[r].op = op /\ req'[r].to = to
      BY <1>0, <2>1 DEF Accept
    <2>3. UNCHANGED <<dbVars, job, frontVars>>
      BY <1>1, ConsoleCallKinds
    <2> QED BY <2>1, <2>2, <2>3 DEF OnlyOperations, NobodySends
  <1>2. CASE \E c \in Cases : Calls(c)
    BY <1>1, <1>2 DEF dbVars, frontVars, SetsNobody
  <1>3. CASE ~\E c \in Cases : Calls(c)
    <2>0. \/ SendDraftReplyEmail(r) \/ SendDraftReplyClear(r)
          \/ CorrectTriageLoad(r) \/ CorrectTriageCancel(r)
          \/ CorrectTriageWrite(r) \/ CorrectTriageDispatch(r)
      BY <1>3 DEF ConsoleStep, TransitionCall, SendDraftReplyStep, CorrectTriageStep
    <2>1. req[r] \in Request /\ req[r].op \in {"sendDraftReply", "correctTriage"}
      <3>1. req[r].pc # "idle" /\ req[r].op \in {"sendDraftReply", "correctTriage"}
        BY <2>0 DEF SendDraftReplyEmail, SendDraftReplyClear, CorrectTriageLoad,
             CorrectTriageCancel, CorrectTriageWrite, CorrectTriageDispatch, Handling
      <3> QED BY <3>1, HandledIsRequest DEF FrontlineTypeOK, PlatformTypeOK
    <2>2. \A m \in Jobs : job'[m] = job[m] \/ job[m].pc = "free"
      BY <1>0, <2>0 DEF SendDraftReplyEmail, SendDraftReplyClear, CorrectTriageLoad,
           CorrectTriageCancel, CorrectTriageWrite, CorrectTriageDispatch, Enqueue, Free,
           JobTypeOK
    <2>3. /\ \A q \in Requests \ {r} : req'[q] = req[q]
          /\ req'[r].op \in {req[r].op, "none"} /\ req'[r].to \in {req[r].to, "none"}
      <3>1. CASE Reply(r)
        BY <1>0, <3>1 DEF Reply, FreeRequest
      <3>2. CASE \E point : Proceed(r, point)
        BY <1>0, <2>1, <3>2 DEF Proceed, Request
      <3>3. CASE CorrectTriageLoad(r) \/ CorrectTriageCancel(r)
        <4>1. \/ \E point, left : req' = [req EXCEPT ![r].pc = point, ![r].left = left]
              \/ \E left : req' = [req EXCEPT ![r].left = left]
          BY <3>3 DEF CorrectTriageLoad, CorrectTriageCancel
        <4>2. ASSUME NEW point, NEW left, req' = [req EXCEPT ![r].pc = point, ![r].left = left]
              PROVE  /\ \A q \in Requests \ {r} : req'[q] = req[q]
                     /\ req'[r].op = req[r].op /\ req'[r].to = req[r].to
          BY <1>0, <2>1, <4>2 DEF Request
        <4>3. ASSUME NEW left, req' = [req EXCEPT ![r].left = left]
              PROVE  /\ \A q \in Requests \ {r} : req'[q] = req[q]
                     /\ req'[r].op = req[r].op /\ req'[r].to = req[r].to
          BY <1>0, <2>1, <4>3 DEF Request
        <4> QED BY <4>1, <4>2, <4>3
      <3> QED BY <2>0, <3>1, <3>2, <3>3 DEF SendDraftReplyEmail, SendDraftReplyClear,
             CorrectTriageWrite, CorrectTriageDispatch
    <2>4. OnlyOperations'
      BY <2>3 DEF OnlyOperations
    <2>5. "sendDraftReply" \notin Operations => UNCHANGED draft
      <3>1. "sendDraftReply" \notin Operations => ~Handling(r, "sendDraftReply", "clear")
        BY DEF OnlyOperations, Handling
      <3> QED BY <2>0, <3>1 DEF SendDraftReplyEmail, SendDraftReplyClear, CorrectTriageLoad,
             CorrectTriageCancel, CorrectTriageWrite, CorrectTriageDispatch, frontVars
    <2>6. ASSUME NEW s \in {"triaged", "in-resolution", "awaiting-lead"},
                 Setters(s) \cap Operations = {}
          PROVE  SetsNobody(s)
      <3>1. CASE CorrectTriageWrite(r)
        <4>1. "correctTriage" \in Operations
          BY <3>1 DEF CorrectTriageWrite, Handling, OnlyOperations
        <4>2. s # "triaged"
          BY <2>6, <4>1 DEF Setters
        <4> QED BY <1>0, <3>1, <4>2 DEF CorrectTriageWrite, SetsNobody
      <3>2. CASE ~CorrectTriageWrite(r)
        <4>1. UNCHANGED caseStatus
          BY <2>0, <3>2 DEF SendDraftReplyEmail, SendDraftReplyClear, CorrectTriageLoad,
               CorrectTriageCancel, CorrectTriageDispatch, dbVars
        <4> QED BY <4>1 DEF SetsNobody
      <3> QED BY <3>1, <3>2
    <2> QED BY <2>2, <2>3, <2>4, <2>5, <2>6 DEF NobodySends
  <1> QED BY <1>2, <1>3

\* The requests of the pipeline are signals.
LEMMA OnlyOperationsKept ==
  ASSUME FrontlineTypeOK, OnlyOperations, NEW r \in Requests, IngestStep(r)
  PROVE  OnlyOperations'
  <1>0. req \in [Requests -> Request \cup {FreeRequest}]
    BY DEF FrontlineTypeOK, PlatformTypeOK, RequestTypeOK
  <1>1. CASE \E c \in Cases : IngestCreate(r, c)
    BY <1>0, <1>1 DEF IngestCreate, Accept, OnlyOperations
  <1>2. CASE CaseCheck(r) \/ CaseWrite(r) \/ DispatchCaseJob(r) \/ RequestFails(r)
    <2>1. req[r] \in Request
      BY <1>2, HandledIsRequest DEF CaseCheck, CaseWrite, DispatchCaseJob, RequestFails, Idle,
                                    FrontlineTypeOK, PlatformTypeOK
    <2>2. \A q \in Requests : req'[q].op \in {req[q].op, "none"}
      <3>1. CASE Reply(r)
        BY <1>0, <3>1 DEF Reply, FreeRequest
      <3>2. CASE \E point : Proceed(r, point)
        BY <1>0, <2>1, <3>2 DEF Proceed, Request
      <3> QED BY <1>2, <3>1, <3>2 DEF CaseCheck, CaseWrite, DispatchCaseJob, RequestFails
    <2> QED BY <2>2 DEF OnlyOperations
  <1> QED BY <1>1, <1>2 DEF IngestStep

\* What the front side of the system owes for one of the three statuses.
Owes(s) ==
  CASE s = "triaged"       -> TriagedHasSteward
    [] s = "in-resolution" -> InResolutionHasReply
    [] s = "awaiting-lead" -> LeadHasDraft

\* The operations that people must leave alone for it.
Harms(s) == Setters(s) \cup (IF s = "awaiting-lead" THEN {"sendDraftReply"} ELSE {})

LEMMA FrontKeepsOwes ==
  ASSUME NEW s \in {"triaged", "in-resolution", "awaiting-lead"},
         Harms(s) \cap Operations = {},
         FrontlineTypeOK, OnlyOperations, NobodySends(s), Owes(s),
         NEW r \in Requests, IngestStep(r) \/ ConsoleStep(r)
  PROVE  OnlyOperations' /\ NobodySends(s)' /\ Owes(s)'
  <1>0. Setters(s) \cap Operations = {}
    BY DEF Harms
  <1>1. /\ \A m \in Jobs : job'[m] = job[m] \/ job[m].pc = "free"
        /\ OnlyOperations' /\ NobodySends(s)' /\ SetsNobody(s)
    BY <1>0, RequestsSetWhatTheySend, ConsoleSetsWhatItSends, OnlyOperationsKept
  <1>2. s = "awaiting-lead" => UNCHANGED draft
    BY RequestsSetWhatTheySend, ConsoleSetsWhatItSends DEF Harms
  <1>3. Owes(s)'
    BY <1>1, <1>2, OwesUnlessSet DEF Owes
  <1> QED BY <1>1, <1>3

LEMMA JobsKeepOwes ==
  ASSUME NEW s \in {"triaged", "in-resolution", "awaiting-lead"}, OwesKept, Owes(s)
  PROVE  Owes(s)'
  BY DEF Owes, OwesKept

\* What has to be kept together with it.
OwesInv(s) == OnlyOperations /\ NobodySends(s) /\ Owes(s)

LEMMA OwesInit ==
  ASSUME NEW s \in {"triaged", "in-resolution", "awaiting-lead"}, FrontlineInit
  PROVE  OwesInv(s)
  <1>1. OnlyOperations /\ NobodySends(s)
    BY DEF FrontlineInit, PlatformInit, FreeRequest, OnlyOperations, NobodySends
  <1>2. TriagedHasSteward /\ InResolutionHasReply /\ LeadHasDraft
    BY DEF FrontlineInit, PlatformInit, TriagedHasSteward, InResolutionHasReply, LeadHasDraft
  <1>3. Owes(s)
    BY <1>2 DEF Owes
  <1> QED BY <1>1, <1>3 DEF OwesInv

LEMMA ConsoleNextOwes ==
  ASSUME ~MarkCanFail, NEW s \in {"triaged", "in-resolution", "awaiting-lead"},
         Harms(s) \cap Operations = {}, FrontlineTypeOK, OwesInv(s),
         [ConsoleNext]_frontlineVars
  PROVE  OwesInv(s)'
  <1>1. ASSUME NEW i \in Jobs, FrontlineJobStep(i)
        PROVE  OwesInv(s)'
    BY <1>1, FrontlineJobsOwe, JobsKeepOwes, JobsLeaveRequests
       DEF OwesInv, OnlyOperations, NobodySends
  <1>2. CASE UNCHANGED frontlineVars
    BY <1>2, OwedJobsIdle, JobsKeepOwes
       DEF OwesInv, OnlyOperations, NobodySends, frontlineVars, platformVars
  <1>3. ASSUME NEW r \in Requests, IngestStep(r) \/ ConsoleStep(r)
        PROVE  OwesInv(s)'
    BY <1>3, FrontKeepsOwes DEF OwesInv
  <1> QED BY <1>1, <1>2, <1>3 DEF ConsoleNext, FrontlineNext

\* A triaged case keeps its Steward whatever people do to it, as long as nobody
\* sets triaged by hand or corrects a triage.
THEOREM ConsoleLeavesNoTriaged ==
  ASSUME ~MarkCanFail, Operations \cap {"triageManual", "correctTriage"} = {}
  PROVE  ConsoleSpec => []TriagedHasSteward
  <1>0. Harms("triaged") \cap Operations = {}
    BY DEF Harms, Setters
  <1>1. FrontlineInit => OwesInv("triaged")
    BY OwesInit
  <1>2. FrontlineTypeOK /\ OwesInv("triaged") /\ [ConsoleNext]_frontlineVars
          => OwesInv("triaged")'
    BY <1>0, ConsoleNextOwes
  <1>3. OwesInv("triaged") => TriagedHasSteward
    BY DEF OwesInv, Owes
  <1>4. ConsoleInv => FrontlineTypeOK
    BY DEF ConsoleInv
  <1> QED BY <1>1, <1>2, <1>3, <1>4, ConsoleInvHolds, PTL DEF ConsoleSpec
=============================================================================
