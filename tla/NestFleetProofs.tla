-------------------------- MODULE NestFleetProofs --------------------------
(***************************************************************************)
(* What change control promises holds in the whole system as well, where   *)
(* the pipeline and the console open, cancel and retry change requests     *)
(* beside it: the theorems of ChangeControlProofs, for NestFleetSpec.      *)
(*                                                                         *)
(* ApprovalInv stays inductive once it also says what the Steward's jobs   *)
(* and the console's requests are entitled to hand on to change control.   *)
(***************************************************************************)
EXTENDS NestFleet, ChangeControlProofs, FrontlineProofs

\* A job of the Steward that is about to dispatch the change_prep job of a
\* change request has created that change request.
StewardsAreSound ==
  \A i \in Jobs :
    /\ job[i].action = "known_issue_match"
    /\ job[i].pc = "sidecarJob" \/ (job[i].pc = "commit" /\ job[i].plan = "in-change")
    => job[i].cr \in ChangeRequests /\ crStatus[job[i].cr] # "none"

\* A retry that found a change request found an approved one; a correction of the
\* triage cancels change requests that it has found.
CallersAreSound ==
  \A r \in Requests :
    /\ req[r].op \in {"ingest", "retry"} => req[r].cr = None \/ req[r].cr \in approved
    /\ \A k \in req[r].left : crStatus[k] # "none"

WholeInv ==
  /\ ApprovalInv /\ FrontlineTypeOK /\ StewardsAreSound /\ CallersAreSound
  /\ NobodySetsFailed /\ FailedNamesJob

-----------------------------------------------------------------------------
(* The change side leaves the Steward's jobs and the console's requests.   *)

\* No row is deleted and no approval taken back.
RowsStay ==
  /\ \A k \in ChangeRequests : crStatus[k] # "none" => crStatus'[k] # "none"
  /\ approved \subseteq approved'

StewardsStay ==
  \A m \in Jobs : job'[m] = job[m] \/ job'[m].action # "known_issue_match"

CallersStay ==
  \A q \in Requests :
    /\ req'[q].left \subseteq req[q].left
    /\ req'[q].op \in {"ingest", "retry"} => req'[q].op = req[q].op /\ req'[q].cr = req[q].cr
    /\ req'[q].to \in {req[q].to, "none", "awaiting-lead", "resolved"}

LEMMA StaySound ==
  ASSUME WholeInv, RowsStay, StewardsStay, CallersStay
  PROVE  StewardsAreSound' /\ CallersAreSound' /\ NobodySetsFailed'
<1>1. \A r \in Requests : req[r].left \subseteq ChangeRequests
  BY DEF WholeInv, FrontlineTypeOK, PlatformTypeOK, RequestTypeOK, Request, FreeRequest
<1>2. StewardsAreSound'
  BY DEF WholeInv, StewardsAreSound, RowsStay, StewardsStay
<1>3. CallersAreSound'
  BY <1>1 DEF WholeInv, CallersAreSound, RowsStay, CallersStay
<1>4. NobodySetsFailed'
  BY DEF WholeInv, NobodySetsFailed, CallersStay
<1> QED BY <1>2, <1>3, <1>4

\* A write of a status of the table.
LEMMA WrittenRowsStay ==
  ASSUME ApprovalInv, NEW k \in ChangeRequests, NEW s \in CrStatuses,
         crStatus' = [crStatus EXCEPT ![k] = s], approved \subseteq approved'
  PROVE  RowsStay
<1>1. "none" \notin CrStatuses
  BY CrStatusFacts
<1> QED BY <1>1 DEF RowsStay, ApprovalInv, ChangeControlTypeOK, PlatformTypeOK

\* The workers of change control.
LEMMA ChangeJobStays ==
  ASSUME WholeInv, NEW i \in Jobs, ChangeJobStep(i)
  PROVE  RowsStay /\ StewardsStay /\ CallersStay
<1>0. ApprovalInv /\ JobTypeOK
  BY DEF WholeInv, ApprovalInv, ChangeControlTypeOK, PlatformTypeOK
<1>1. job[i].action \in {"change_prep", "pr_draft_prep"} /\ job[i].pc # "free"
  BY DEF ChangeJobStep, ChangePrepStart, ChangePrepToAnalysis, ChangePrepWriteAnalysis,
         ChangePrepToPending, ChangePrepWritePending, PrDraftStart, PrDraftGithub, PrDraftCheck,
         PrDraftWrite, PrDraftLoadCase, PrDraftCaseCheck, PrDraftCaseWrite, At
<1>2. \/ \E point : Goto(i, point)
      \/ Finish(i)
      \/ \E plan, point : job' = [job EXCEPT ![i].plan = plan, ![i].pc = point]
  BY DEF ChangeJobStep, ChangePrepStart, ChangePrepToAnalysis, ChangePrepWriteAnalysis,
         ChangePrepToPending, ChangePrepWritePending, PrDraftStart, PrDraftGithub, PrDraftCheck,
         PrDraftWrite, PrDraftLoadCase, PrDraftCaseCheck, PrDraftCaseWrite
<1>3. StewardsStay
  <2>1. job[i] \in Job
    BY <1>0, <1>1, SlotHoldsJob
  <2>2. \A m \in Jobs \ {i} : job'[m] = job[m]
    BY <1>0, <1>2 DEF Goto, Finish, JobTypeOK
  <2>3. ASSUME NEW point, Goto(i, point) PROVE job'[i].action = job[i].action
    BY <1>0, <2>1, <2>3 DEF Goto, JobTypeOK, Job
  <2>4. ASSUME NEW plan, NEW point, job' = [job EXCEPT ![i].plan = plan, ![i].pc = point]
        PROVE  job'[i].action = job[i].action
    BY <1>0, <2>1, <2>4 DEF JobTypeOK, Job
  <2>5. ASSUME Finish(i) PROVE job'[i].action = "none"
    BY <1>0, <2>5 DEF Finish, FreeJob, JobTypeOK
  <2>6. job'[i].action # "known_issue_match"
    <3>1. CASE \E point : Goto(i, point)
      BY <1>1, <2>3, <3>1
    <3>2. CASE \E plan, point : job' = [job EXCEPT ![i].plan = plan, ![i].pc = point]
      <4>1. PICK plan, point : job' = [job EXCEPT ![i].plan = plan, ![i].pc = point]
        BY <3>2
      <4> QED BY <1>1, <2>4, <4>1
    <3>3. CASE Finish(i)
      BY <2>5, <3>3
    <3> QED BY <1>2, <3>1, <3>2, <3>3
  <2> QED BY <2>2, <2>6 DEF StewardsStay
<1>4. UNCHANGED <<req, approved>>
  BY DEF ChangeJobStep, ChangePrepStart, ChangePrepToAnalysis, ChangePrepWriteAnalysis,
         ChangePrepToPending, ChangePrepWritePending, PrDraftStart, PrDraftGithub, PrDraftCheck,
         PrDraftWrite, PrDraftLoadCase, PrDraftCaseCheck, PrDraftCaseWrite, changeVars
<1>5. CallersStay
  BY <1>4 DEF CallersStay
<1>6. RowsStay
  <2>1. job[i].cr \in ChangeRequests
    BY <1>0, <1>1 DEF ApprovalInv, JobsAreSound, ChangeControlTypeOK
  <2>2. {"analysis", "approval-pending", "pr-drafted"} \subseteq CrStatuses
    BY CrStatusFacts
  <2>3. CASE ChangePrepWriteAnalysis(i) \/ ChangePrepWritePending(i) \/ PrDraftWrite(i)
    <3>1. \E s \in {"analysis", "approval-pending", "pr-drafted"} :
            crStatus' = [crStatus EXCEPT ![job[i].cr] = s]
      BY <2>3 DEF ChangePrepWriteAnalysis, ChangePrepWritePending, PrDraftWrite
    <3> QED BY <1>0, <1>4, <2>1, <2>2, <3>1, WrittenRowsStay
  <2>4. CASE ~(ChangePrepWriteAnalysis(i) \/ ChangePrepWritePending(i) \/ PrDraftWrite(i))
    <3>1. crStatus' = crStatus
      BY <2>4 DEF ChangeJobStep, ChangePrepStart, ChangePrepToAnalysis, ChangePrepToPending,
           PrDraftStart, PrDraftGithub, PrDraftCheck, PrDraftLoadCase, PrDraftCaseCheck,
           PrDraftCaseWrite, dbVars
    <3> QED BY <1>4, <3>1 DEF RowsStay
  <2> QED BY <2>3, <2>4
<1> QED BY <1>3, <1>5, <1>6

\* A request that goes on or is answered keeps what it is about.
LEMMA RequestStays ==
  ASSUME WholeInv, NEW r \in Requests, req[r].pc # "idle",
         \/ \E point : Proceed(r, point)
         \/ Reply(r)
         \/ req[r].op = "sendToChange" /\ \E k, point : req' = [req EXCEPT ![r].cr = k, ![r].pc = point]
  PROVE  CallersStay
<1>1. req \in [Requests -> Request \cup {FreeRequest}] /\ req[r] \in Request
  BY HandledIsRequest DEF WholeInv, FrontlineTypeOK, PlatformTypeOK, RequestTypeOK
<1>2. \A q \in Requests \ {r} : req'[q] = req[q]
  BY <1>1 DEF Proceed, Reply
<1>3. ASSUME NEW point, Proceed(r, point)
      PROVE  /\ req'[r].left = req[r].left /\ req'[r].op = req[r].op /\ req'[r].cr = req[r].cr
             /\ req'[r].to = req[r].to
  BY <1>1, <1>3 DEF Proceed, Request
<1>4. ASSUME Reply(r) PROVE req'[r].left = {} /\ req'[r].op = "none" /\ req'[r].to = "none"
  BY <1>1, <1>4 DEF Reply, FreeRequest
<1>5. ASSUME NEW k, NEW point, req' = [req EXCEPT ![r].cr = k, ![r].pc = point]
      PROVE  req'[r].left = req[r].left /\ req'[r].op = req[r].op /\ req'[r].to = req[r].to
  BY <1>1, <1>5 DEF Request
<1>6. /\ req'[r].left \subseteq req[r].left
      /\ req'[r].op \in {"ingest", "retry"} => req'[r].op = req[r].op /\ req'[r].cr = req[r].cr
      /\ req'[r].to \in {req[r].to, "none"}
  <2>1. CASE \E point : Proceed(r, point)
    <3>1. PICK point : Proceed(r, point)
      BY <2>1
    <3> QED BY <1>3, <3>1
  <2>2. CASE Reply(r)
    BY <1>4, <2>2
  <2>3. CASE req[r].op = "sendToChange" /\ \E k, point : req' = [req EXCEPT ![r].cr = k, ![r].pc = point]
    <3>1. PICK k, point : req' = [req EXCEPT ![r].cr = k, ![r].pc = point]
      BY <2>3
    <3> QED BY <1>5, <2>3, <3>1
  <2> QED BY <2>1, <2>2, <2>3
<1> QED BY <1>2, <1>6 DEF CallersStay

\* The endpoints and webhooks of change control.
LEMMA ChangeRequestStays ==
  ASSUME WholeInv, NEW r \in Requests, ChangeRequestStep(r)
  PROVE  RowsStay /\ StewardsStay /\ CallersStay
<1>0. /\ ApprovalInv /\ JobTypeOK
      /\ req \in [Requests -> Request \cup {FreeRequest}]
      /\ crStatus \in [ChangeRequests -> CrStatuses \cup {"none"}]
  BY DEF WholeInv, ApprovalInv, ChangeControlTypeOK, PlatformTypeOK, RequestTypeOK
<1>1. CallersStay
  <2>1. ASSUME NEW op, op \notin {"ingest", "retry"}, NEW c, NEW k,
               NEW to \in {"none", "awaiting-lead", "resolved"}, NEW point, Accept(r, op, c, k, to, point)
        PROVE  CallersStay
    BY <1>0, <2>1 DEF Accept, CallersStay
  <2>2. CASE \/ \E c \in Cases : SendToChange(r, c)
             \/ \E k \in ChangeRequests :
                  Approve(r, k) \/ Reject(r, k) \/ Complete(r, k) \/ PrMerged(r, k) \/ CiPassed(r, k)
    BY <2>1, <2>2 DEF SendToChange, Approve, Reject, Complete, PrMerged, CiPassed
  <2>3. CASE ~(\/ \E c \in Cases : SendToChange(r, c)
               \/ \E k \in ChangeRequests :
                    Approve(r, k) \/ Reject(r, k) \/ Complete(r, k) \/ PrMerged(r, k) \/ CiPassed(r, k))
    <3>1. /\ req[r].pc # "idle"
          /\ \/ \E point : Proceed(r, point)
             \/ Reply(r)
             \/ req[r].op = "sendToChange"
                /\ \E k, point : req' = [req EXCEPT ![r].cr = k, ![r].pc = point]
      BY <2>3 DEF ChangeRequestStep, SendToChangeCreate, SendToChangeCommit, CrCheck, CrWrite,
           LoadCase, ApprovePrepCheck, ApprovePrepWrite, ApproveDispatch, PrMergedRecord,
           PrMergedComplete, CiPassedRecord, CiPassedComplete, CiPassedResolve, Handling
    <3> QED BY <3>1, RequestStays
  <2> QED BY <2>2, <2>3
<1>2. StewardsStay
  <2>1. \/ UNCHANGED job
        \/ \E n \in Jobs, action \in {"change_prep", "pr_draft_prep"} : \E c, k :
             Enqueue(n, NewJob(action, c, k, FALSE))
    BY DEF ChangeRequestStep, SendToChange, Approve, Reject, Complete, PrMerged, CiPassed,
           SendToChangeCreate, SendToChangeCommit, CrCheck, CrWrite, LoadCase, ApprovePrepCheck,
           ApprovePrepWrite, ApproveDispatch, PrMergedRecord, PrMergedComplete, CiPassedRecord,
           CiPassedComplete, CiPassedResolve
  <2> QED BY <1>0, <2>1 DEF StewardsStay, Enqueue, NewJob, JobTypeOK
<1>3. approved \subseteq approved'
  BY DEF ChangeRequestStep, SendToChange, Approve, Reject, Complete, PrMerged, CiPassed,
         SendToChangeCreate, SendToChangeCommit, CrCheck, CrWrite, LoadCase, ApprovePrepCheck,
         ApprovePrepWrite, ApproveDispatch, PrMergedRecord, PrMergedComplete, CiPassedRecord,
         CiPassedComplete, CiPassedResolve, changeVars
<1>4. \/ crStatus' = crStatus
      \/ \E k \in ChangeRequests, s \in CrStatuses : crStatus' = [crStatus EXCEPT ![k] = s]
  <2>1. CASE SendToChangeCreate(r)
    <3>1. "draft" \in CrStatuses
      BY DEF CrStatuses, CR_TRANSITIONS
    <3> QED BY <2>1, <3>1 DEF SendToChangeCreate, CreateChangeRequest
  <2>2. CASE CrWrite(r) \/ ApprovePrepWrite(r) \/ PrMergedComplete(r) \/ CiPassedComplete(r)
    <3>1. req[r].op \in {"approve", "reject", "complete", "prMerged", "ciPassed"}
      BY <2>2 DEF CrWrite, CrTarget, ApprovePrepWrite, PrMergedComplete, CiPassedComplete, Handling
    <3>2. req[r].cr \in ChangeRequests
      BY <1>0, <3>1 DEF ApprovalInv, RequestsAreSound, ChangeControlTypeOK
    <3>3. \E s \in {"approved", "rejected", "completed", "implementation-prep"} :
            crStatus' = [crStatus EXCEPT ![req[r].cr] = s]
      BY <2>2, <3>1 DEF CrWrite, CrTarget, ApprovePrepWrite, PrMergedComplete, CiPassedComplete
    <3>4. {"approved", "rejected", "completed", "implementation-prep"} \subseteq CrStatuses
      BY CrStatusFacts
    <3> QED BY <3>2, <3>3, <3>4
  <2>3. CASE ~(\/ SendToChangeCreate(r) \/ CrWrite(r) \/ ApprovePrepWrite(r)
               \/ PrMergedComplete(r) \/ CiPassedComplete(r))
    BY <2>3 DEF ChangeRequestStep, SendToChange, Approve, Reject, Complete, PrMerged, CiPassed,
         SendToChangeCommit, CrCheck, LoadCase, ApprovePrepCheck, ApproveDispatch, PrMergedRecord,
         CiPassedRecord, CiPassedResolve, dbVars
  <2> QED BY <2>1, <2>2, <2>3
<1>5. RowsStay
  BY <1>0, <1>3, <1>4, WrittenRowsStay DEF RowsStay
<1> QED BY <1>1, <1>2, <1>5

\* Change control sets no case to processing-failed and forgets no failed job.
LEMMA ChangeNamesJob ==
  ASSUME WholeInv,
         \/ \E i \in Jobs : ChangeJobStep(i)
         \/ \E r \in Requests : ChangeRequestStep(r)
         \/ GitHubStep
  PROVE  FailedNamesJob'
<1>0. caseStatus \in [Cases -> CaseStatuses \cup {"none"}] /\ FailedNamesJob
  BY DEF WholeInv, FrontlineTypeOK, PlatformTypeOK
<1>1. /\ UNCHANGED failedJob
      /\ \/ UNCHANGED caseStatus
         \/ \E c, s : s # "processing-failed" /\ caseStatus' = [caseStatus EXCEPT ![c] = s]
  <2>1. ASSUME NEW i \in Jobs, ChangeJobStep(i)
        PROVE  /\ UNCHANGED failedJob
               /\ \/ UNCHANGED caseStatus
                  \/ \E c, s : s # "processing-failed" /\ caseStatus' = [caseStatus EXCEPT ![c] = s]
    BY <2>1 DEF ChangeJobStep, ChangePrepStart, ChangePrepToAnalysis, ChangePrepWriteAnalysis,
         ChangePrepToPending, ChangePrepWritePending, PrDraftStart, PrDraftGithub, PrDraftCheck,
         PrDraftWrite, PrDraftLoadCase, PrDraftCaseCheck, PrDraftCaseWrite, dbVars
  <2>2. ASSUME NEW r \in Requests, ChangeRequestStep(r)
        PROVE  /\ UNCHANGED failedJob
               /\ \/ UNCHANGED caseStatus
                  \/ \E c, s : s # "processing-failed" /\ caseStatus' = [caseStatus EXCEPT ![c] = s]
    BY <2>2 DEF ChangeRequestStep, SendToChange, Approve, Reject, Complete, PrMerged, CiPassed,
         SendToChangeCreate, SendToChangeCommit, CrCheck, CrWrite, LoadCase, ApprovePrepCheck,
         ApprovePrepWrite, ApproveDispatch, PrMergedRecord, PrMergedComplete, CiPassedRecord,
         CiPassedComplete, CiPassedResolve, dbVars
  <2>3. CASE GitHubStep
    BY <2>3 DEF GitHubStep, MergeOnGitHub, platformVars
  <2> QED BY <2>1, <2>2, <2>3
<1> QED BY <1>0, <1>1 DEF FailedNamesJob

-----------------------------------------------------------------------------
(* The front side: what a step of the pipeline or the console has to leave *)
(* alone, and what it may hand on.                                         *)

JobIsSound(i) ==
  /\ job[i].action = "pr_draft_prep" => job[i].cr \in approved
  /\ \/ job[i].action = "change_prep"
     \/ /\ job[i].action = "known_issue_match"
        /\ job[i].pc = "sidecarJob" \/ (job[i].pc = "commit" /\ job[i].plan = "in-change")
     => job[i].cr \in ChangeRequests /\ crStatus[job[i].cr] # "none"

RequestIsSound(r) ==
  /\ \/ req[r].op \in {"approve", "reject"}
     \/ req[r].op = "sendToChange" /\ req[r].pc = "commit"
     => req[r].cr \in ChangeRequests /\ crStatus[req[r].cr] # "none"
  /\ req[r].op \in {"complete", "prMerged", "ciPassed"} => req[r].cr \in approved
  /\ req[r].op = "approve" /\ req[r].pc \in {"prepCheck", "prepWrite", "dispatch"}
       => req[r].cr \in approved
  /\ req[r].op \in {"ingest", "retry"} => req[r].cr = None \/ req[r].cr \in approved
  /\ \A k \in req[r].left : crStatus[k] # "none"

LEMMA SoundOneByOne ==
  /\ (\A i \in Jobs : JobIsSound(i)) <=> JobsAreSound /\ StewardsAreSound
  /\ (\A r \in Requests : RequestIsSound(r)) <=> RequestsAreSound /\ CallersAreSound
<1>1. (\A i \in Jobs : JobIsSound(i)) <=> JobsAreSound /\ StewardsAreSound
  BY DEF JobIsSound, JobsAreSound, StewardsAreSound
<1>2. (\A r \in Requests : RequestIsSound(r)) <=> RequestsAreSound /\ CallersAreSound
  BY DEF RequestIsSound, RequestsAreSound, CallersAreSound
<1> QED BY <1>1, <1>2

\* The front side creates drafts and cancels change requests, nothing else.
RowsGrow ==
  \/ UNCHANGED <<crStatus, crCase>>
  \/ \E k \in ChangeRequests, c \in Cases : CreateChangeRequest(k, c)
  \/ /\ \E k \in ChangeRequests :
          crStatus[k] # "none" /\ crStatus' = [crStatus EXCEPT ![k] = "rejected"]
     /\ UNCHANGED crCase

LEMMA RowsGrowSound ==
  ASSUME WholeInv, RowsGrow, UNCHANGED changeVars
  PROVE  RowsStay /\ RowsAreSound'
<1>0. /\ crStatus \in [ChangeRequests -> CrStatuses \cup {"none"}]
      /\ crCase \in [ChangeRequests -> Cases \cup {None}]
      /\ RowsAreSound
      /\ UNCHANGED <<prState, prLinked, approved>>
  BY DEF WholeInv, FrontlineTypeOK, PlatformTypeOK, ApprovalInv, changeVars
<1>1. CASE UNCHANGED <<crStatus, crCase>>
  BY <1>0, <1>1 DEF RowsStay, RowsAreSound
<1>2. ASSUME NEW k \in ChangeRequests, NEW c \in Cases, CreateChangeRequest(k, c)
      PROVE  RowsStay /\ RowsAreSound'
  <2>1. /\ \A x \in ChangeRequests : crStatus'[x] = IF x = k THEN "draft" ELSE crStatus[x]
        /\ \A x \in ChangeRequests : crCase'[x] = IF x = k THEN c ELSE crCase[x]
    BY <1>0, <1>2 DEF CreateChangeRequest
  <2> QED BY <1>0, <2>1 DEF RowsStay, RowsAreSound, PastApproval
<1>3. ASSUME NEW k \in ChangeRequests, crStatus[k] # "none",
             crStatus' = [crStatus EXCEPT ![k] = "rejected"], UNCHANGED crCase
      PROVE  RowsStay /\ RowsAreSound'
  <2>1. \A x \in ChangeRequests : crStatus'[x] = IF x = k THEN "rejected" ELSE crStatus[x]
    BY <1>0, <1>3
  <2> QED BY <1>0, <1>3, <2>1 DEF RowsStay, RowsAreSound, PastApproval
<1> QED BY <1>1, <1>2, <1>3 DEF RowsGrow

\* What is untouched stays sound.
LEMMA UntouchedJob ==
  ASSUME WholeInv, RowsStay, NEW m \in Jobs, job'[m] = job[m]
  PROVE  JobIsSound(m)'
<1>1. JobIsSound(m)
  BY SoundOneByOne DEF WholeInv, ApprovalInv
<1> QED BY <1>1 DEF JobIsSound, RowsStay

LEMMA UntouchedRequest ==
  ASSUME WholeInv, RowsStay, NEW q \in Requests, req'[q] = req[q]
  PROVE  RequestIsSound(q)'
<1>1. RequestIsSound(q) /\ req[q].left \subseteq ChangeRequests
  BY SoundOneByOne DEF WholeInv, ApprovalInv, FrontlineTypeOK, PlatformTypeOK, RequestTypeOK,
                       Request, FreeRequest
<1> QED BY <1>1 DEF RequestIsSound, RowsStay

\* A job that moves on to another point, is finished or fails.
LEMMA MovedJob ==
  ASSUME WholeInv, RowsStay, NEW i \in Jobs, job[i].pc # "free",
         \/ \E point \in JobPoints \ {"commit", "sidecarJob"} : Goto(i, point)
         \/ Finish(i) \/ Fail(i)
  PROVE  \A m \in Jobs : JobIsSound(m)'
<1>0. JobTypeOK /\ job[i] \in Job /\ JobIsSound(i)
  BY SlotHoldsJob, SoundOneByOne DEF WholeInv, ApprovalInv, FrontlineTypeOK, PlatformTypeOK
<1>1. \A m \in Jobs \ {i} : job'[m] = job[m]
  BY <1>0 DEF Goto, Finish, Fail, JobTypeOK
<1>2. \/ job'[i] = FreeJob
      \/ job'[i].action = job[i].action /\ job'[i].cr = job[i].cr
  BY <1>0, JobMoves
<1>3. job'[i] = FreeJob \/ job'[i].pc \notin {"commit", "sidecarJob"}
  <2>1. CASE \E point \in JobPoints \ {"commit", "sidecarJob"} : Goto(i, point)
    <3>1. PICK point \in JobPoints \ {"commit", "sidecarJob"} : Goto(i, point)
      BY <2>1
    <3> QED BY <1>0, <3>1 DEF Goto, JobTypeOK, Job
  <2>2. CASE Finish(i)
    BY <1>0, <2>2 DEF Finish, JobTypeOK
  <2>3. CASE Fail(i)
    BY <1>0, <2>3, FailType
  <2> QED BY <2>1, <2>2, <2>3
<1>4. JobIsSound(i)'
  BY <1>0, <1>2, <1>3 DEF JobIsSound, FreeJob, RowsStay
<1> QED BY <1>1, <1>4, UntouchedJob

\* A job that is inserted, beside another one that may have moved on.
LEMMA InsertedJob ==
  ASSUME WholeInv, RowsStay, NEW n \in Jobs, NEW action, NEW c, NEW k, NEW forced,
         job'[n] = NewJob(action, c, k, forced), action # "pr_draft_prep" \/ k \in approved,
         action = "change_prep" => k \in ChangeRequests /\ crStatus[k] # "none"
  PROVE  JobIsSound(n)'
BY DEF JobIsSound, NewJob, RowsStay

\* The steps of a worker that only move its job on.
LEMMA QuietJobSound ==
  ASSUME WholeInv, NEW i \in Jobs,
         \/ TriageStart(i) \/ StewardStart(i) \/ AutoReplyStart(i) \/ AutoReplyCheck(i)
         \/ AutoReplyWrite(i) \/ AutoReplyEmail(i) \/ AutoReplySave(i) \/ OutageStep(i)
         \/ QueueStep(i),
         UNCHANGED changeVars
  PROVE  RowsGrow /\ \A m \in Jobs : JobIsSound(m)'
<1>1. UNCHANGED <<crStatus, crCase>>
  BY DEF TriageStart, StewardStart, AutoReplyStart, AutoReplyCheck, AutoReplyWrite,
         AutoReplyEmail, AutoReplySave, OutageStep, OutageStart, OutageFinish, QueueStep,
         WorkerFinish, JobFails, DeadLetter, dbVars
<1>2. RowsGrow /\ RowsStay
  BY <1>1 DEF RowsGrow, RowsStay, changeVars
<1>3. {"agent", "write", "email", "save", "audit"} \subseteq JobPoints \ {"commit", "sidecarJob"}
  BY PointsOfJobs
<1>4. job[i].pc # "free"
  BY DEF TriageStart, StewardStart, AutoReplyStart, AutoReplyCheck, AutoReplyWrite,
         AutoReplyEmail, AutoReplySave, OutageStep, OutageStart, OutageFinish, QueueStep,
         WorkerFinish, JobFails, DeadLetter, At, Running
<1>5. \/ \E point \in {"agent", "write", "email", "save", "audit"} : Goto(i, point)
      \/ Finish(i) \/ Fail(i)
  BY DEF TriageStart, StewardStart, AutoReplyStart, AutoReplyCheck, AutoReplyWrite,
         AutoReplyEmail, AutoReplySave, OutageStep, OutageStart, OutageFinish, QueueStep,
         WorkerFinish, JobFails, DeadLetter
<1> QED BY <1>2, <1>3, <1>4, <1>5, MovedJob

\* A job moves on and another one is inserted.
LEMMA MovedAndInserted ==
  ASSUME WholeInv, RowsStay, NEW i \in Jobs, job[i].pc # "free",
         NEW point, point \notin {"commit", "sidecarJob"},
         NEW n \in Jobs, NEW action, NEW c, NEW k, NEW forced,
         action # "pr_draft_prep",
         action = "change_prep" => k \in ChangeRequests /\ crStatus[k] # "none",
         GotoAndEnqueue(i, point, n, NewJob(action, c, k, forced))
  PROVE  \A m \in Jobs : JobIsSound(m)'
<1>0. JobTypeOK /\ job[i] \in Job /\ JobIsSound(i)
  BY SlotHoldsJob, SoundOneByOne DEF WholeInv, ApprovalInv, FrontlineTypeOK, PlatformTypeOK
<1>1. n # i
  BY DEF GotoAndEnqueue, Free
<1>2. /\ \A m \in Jobs \ {i, n} : job'[m] = job[m]
      /\ job'[i] = [job[i] EXCEPT !.pc = point]
      /\ job'[n] = NewJob(action, c, k, forced)
  BY <1>0, <1>1 DEF GotoAndEnqueue, JobTypeOK
<1>3. job'[i].action = job[i].action /\ job'[i].cr = job[i].cr /\ job'[i].pc = point
  BY <1>0, <1>2 DEF Job
<1>4. JobIsSound(i)'
  BY <1>0, <1>3 DEF JobIsSound, RowsStay
<1>5. JobIsSound(n)'
  BY <1>2, InsertedJob
<1> QED BY <1>2, <1>4, <1>5, UntouchedJob

\* The Frontline worker's commit dispatches the Steward's job.
LEMMA TriageCommitSound ==
  ASSUME WholeInv, NEW i \in Jobs, TriageCommit(i), UNCHANGED changeVars
  PROVE  RowsGrow /\ \A m \in Jobs : JobIsSound(m)'
<1>1. RowsGrow /\ RowsStay /\ job[i].pc # "free"
  BY DEF TriageCommit, At, RowsGrow, RowsStay, changeVars
<1>2. PICK n \in Jobs :
        GotoAndEnqueue(i, "audit", n, NewJob("known_issue_match", job[i].case, None, FALSE))
  BY DEF TriageCommit
<1> QED BY <1>1, <1>2, MovedAndInserted

\* A change request that is created goes with the job that has created it.
LEMMA CreatedWithJob ==
  ASSUME WholeInv, UNCHANGED changeVars, NEW i \in Jobs, job[i].action = "known_issue_match",
         job[i].pc # "free",
         NEW k \in ChangeRequests, CreateChangeRequest(k, job[i].case), NEW point,
         job' = [job EXCEPT ![i].cr = k, ![i].pc = point]
  PROVE  RowsGrow /\ \A m \in Jobs : JobIsSound(m)'
<1>0. JobTypeOK /\ job[i] \in Job /\ crStatus \in [ChangeRequests -> CrStatuses \cup {"none"}]
  BY SlotHoldsJob DEF WholeInv, FrontlineTypeOK, PlatformTypeOK
<1>1. RowsGrow
  BY <1>0 DEF RowsGrow, Job
<1>2. RowsStay
  BY <1>1, RowsGrowSound
<1>3. /\ \A m \in Jobs \ {i} : job'[m] = job[m]
      /\ job'[i].action = "known_issue_match" /\ job'[i].cr = k
  BY <1>0 DEF JobTypeOK, Job
<1>4. crStatus'[k] # "none"
  BY <1>0 DEF CreateChangeRequest
<1>5. JobIsSound(i)'
  BY <1>3, <1>4 DEF JobIsSound
<1> QED BY <1>1, <1>2, <1>3, <1>5, UntouchedJob

\* The Steward's worker.
LEMMA StewardSound ==
  ASSUME WholeInv, NEW i \in Jobs, UNCHANGED changeVars,
         \/ StewardRoute(i) \/ StewardCreateCr(i) \/ StewardCommit(i) \/ StewardSidecar(i)
         \/ StewardSidecarDispatch(i)
  PROVE  RowsGrow /\ \A m \in Jobs : JobIsSound(m)'
<1>0. /\ JobTypeOK /\ job[i] \in Job /\ JobIsSound(i)
      /\ job[i].action = "known_issue_match" /\ job[i].pc # "free"
  <2>1. job[i].action = "known_issue_match" /\ job[i].pc # "free"
    BY DEF StewardRoute, StewardCreateCr, StewardCommit, StewardSidecar, StewardSidecarDispatch, At
  <2> QED BY <2>1, SlotHoldsJob, SoundOneByOne DEF WholeInv, ApprovalInv, FrontlineTypeOK, PlatformTypeOK
<1>1. ASSUME UNCHANGED <<crStatus, crCase>> PROVE RowsGrow /\ RowsStay
  BY <1>1 DEF RowsGrow, RowsStay, changeVars
<1>2. {"audit", "sidecar"} \subseteq JobPoints \ {"commit", "sidecarJob"}
  BY PointsOfJobs
<1>3. CASE StewardRoute(i)
  <2>1. RowsGrow /\ RowsStay
    BY <1>1, <1>3 DEF StewardRoute, dbVars
  <2>2. PICK plan \in {"in-change", "in-resolution", "awaiting-lead"} :
          LET routed == [job EXCEPT ![i].plan = plan,
                           ![i].pc = IF plan = "in-change" THEN "createCr" ELSE "commit"]
          IN \/ job' = routed
             \/ \E n \in Jobs :
                  /\ Free(n)
                  /\ job' = [routed EXCEPT ![n] = NewJob("outage_routing", job[i].case, None, FALSE)]
    BY <1>3 DEF StewardRoute
  <2> DEFINE routed == [job EXCEPT ![i].plan = plan,
                          ![i].pc = IF plan = "in-change" THEN "createCr" ELSE "commit"]
  <2>3. /\ routed \in [Jobs -> {routed[m] : m \in Jobs}]
        /\ \A m \in Jobs \ {i} : routed[m] = job[m]
        /\ routed[i].action = "known_issue_match" /\ routed[i].plan = plan
        /\ routed[i].pc = IF plan = "in-change" THEN "createCr" ELSE "commit"
    BY <1>0 DEF JobTypeOK, Job
  <2>4. \/ job' = routed
        \/ \E n \in Jobs : /\ Free(n)
                           /\ job' = [routed EXCEPT ![n] = NewJob("outage_routing", job[i].case, None, FALSE)]
    BY <2>2
  <2> HIDE DEF routed
  <2>5. \A m \in Jobs \ {i} :
          job'[m] = job[m] \/ job'[m] = NewJob("outage_routing", job[i].case, None, FALSE)
    BY <2>3, <2>4
  <2>6. job'[i] = routed[i]
    BY <1>0, <2>3, <2>4 DEF Free
  <2>7. JobIsSound(i)'
    BY <2>3, <2>6 DEF JobIsSound
  <2>8. \A m \in Jobs \ {i} : JobIsSound(m)'
    <3> SUFFICES ASSUME NEW m \in Jobs \ {i} PROVE JobIsSound(m)'
      OBVIOUS
    <3>1. CASE job'[m] = job[m]
      BY <2>1, <3>1, UntouchedJob
    <3>2. CASE job'[m] = NewJob("outage_routing", job[i].case, None, FALSE)
      BY <3>2 DEF NewJob, JobIsSound
    <3> QED BY <2>5, <3>1, <3>2
  <2> QED BY <2>1, <2>7, <2>8
<1>4. CASE StewardCreateCr(i)
  <2>1. PICK k \in ChangeRequests :
          /\ CreateChangeRequest(k, job[i].case)
          /\ job' = [job EXCEPT ![i].cr = k, ![i].pc = "commit"]
    BY <1>4 DEF StewardCreateCr
  <2> QED BY <1>0, <2>1, CreatedWithJob
<1>5. CASE StewardCommit(i)
  <2>1. RowsGrow /\ RowsStay
    BY <1>1, <1>5 DEF StewardCommit
  <2>2. PICK n \in Jobs :
          GotoAndEnqueue(i, IF job[i].plan = "in-resolution" THEN "sidecar" ELSE "audit", n, RoutedJob(i))
    BY <1>5 DEF StewardCommit
  <2>3. job[i].plan \in {"in-change", "in-resolution", "awaiting-lead"}
    BY <1>0, <1>5, CaseTarget, PlansThatAreStatuses DEF StewardCommit, Job
  <2>4. job[i].plan = "in-change" => job[i].cr \in ChangeRequests /\ crStatus[job[i].cr] # "none"
    BY <1>0, <1>5 DEF StewardCommit, At, JobIsSound
  <2>5. CASE job[i].plan = "in-change"
    <3>1. GotoAndEnqueue(i, "audit", n, NewJob("change_prep", job[i].case, job[i].cr, FALSE))
      BY <2>2, <2>5 DEF RoutedJob
    <3> QED BY <1>0, <2>1, <2>4, <2>5, <3>1, MovedAndInserted
  <2>6. CASE job[i].plan = "in-resolution"
    <3>1. GotoAndEnqueue(i, "sidecar", n, NewJob("auto_reply", job[i].case, None, FALSE))
      BY <2>2, <2>6 DEF RoutedJob
    <3> QED BY <1>0, <2>1, <3>1, MovedAndInserted
  <2>7. CASE job[i].plan = "awaiting-lead"
    <3>1. GotoAndEnqueue(i, "audit", n, NewJob("auto_reply", job[i].case, None, TRUE))
      BY <2>2, <2>7 DEF RoutedJob
    <3> QED BY <1>0, <2>1, <3>1, MovedAndInserted
  <2> QED BY <2>3, <2>5, <2>6, <2>7
<1>6. CASE StewardSidecar(i)
  <2>1. CASE Goto(i, "audit") /\ UNCHANGED <<crStatus, crCase>>
    BY <1>0, <1>1, <1>2, <2>1, MovedJob
  <2>2. ASSUME NEW k \in ChangeRequests, CreateChangeRequest(k, job[i].case),
               job' = [job EXCEPT ![i].cr = k, ![i].pc = "sidecarJob"]
        PROVE  RowsGrow /\ \A m \in Jobs : JobIsSound(m)'
    BY <1>0, <2>2, CreatedWithJob
  <2> QED BY <1>6, <2>1, <2>2 DEF StewardSidecar
<1>7. CASE StewardSidecarDispatch(i)
  <2>1. RowsGrow /\ RowsStay
    BY <1>1, <1>7 DEF StewardSidecarDispatch, dbVars
  <2>2. job[i].cr \in ChangeRequests /\ crStatus[job[i].cr] # "none"
    BY <1>0, <1>7 DEF StewardSidecarDispatch, At, JobIsSound
  <2>3. CASE Goto(i, "audit")
    BY <1>0, <1>2, <2>1, <2>3, MovedJob
  <2>4. ASSUME NEW n \in Jobs,
               GotoAndEnqueue(i, "audit", n, NewJob("change_prep", job[i].case, job[i].cr, FALSE))
        PROVE  \A m \in Jobs : JobIsSound(m)'
    BY <1>0, <2>1, <2>2, <2>4, MovedAndInserted
  <2> QED BY <1>7, <2>1, <2>3, <2>4 DEF StewardSidecarDispatch
<1> QED BY <1>3, <1>4, <1>5, <1>6, <1>7

\* The validation envelope decides what becomes of a reply.
LEMMA GateSound ==
  ASSUME WholeInv, NEW i \in Jobs, AutoReplyGate(i), UNCHANGED changeVars
  PROVE  RowsGrow /\ \A m \in Jobs : JobIsSound(m)'
<1>0. JobTypeOK /\ job[i] \in Job /\ job[i].action = "auto_reply"
  BY SlotHoldsJob DEF WholeInv, FrontlineTypeOK, PlatformTypeOK, AutoReplyGate, At
<1>1. RowsGrow /\ RowsStay
  BY DEF AutoReplyGate, dbVars, changeVars, RowsGrow, RowsStay
<1>2. PICK plan, point : job' = [job EXCEPT ![i].plan = plan, ![i].pc = point]
  BY DEF AutoReplyGate
<1>3. /\ \A m \in Jobs \ {i} : job'[m] = job[m]
      /\ job'[i].action = "auto_reply"
  BY <1>0, <1>2 DEF JobTypeOK, Job
<1>4. JobIsSound(i)'
  BY <1>3 DEF JobIsSound
<1> QED BY <1>1, <1>3, <1>4, UntouchedJob

\* A request that is answered or goes on and may be no approval.
LEMMA MovedRequest ==
  ASSUME WholeInv, RowsStay, NEW r \in Requests, req[r].pc # "idle",
         \/ Reply(r)
         \/ \E point :
              Proceed(r, point) /\ (req[r].op \notin {"approve", "sendToChange"} \/ point = "caseWrite")
  PROVE  \A q \in Requests : RequestIsSound(q)'
<1>0. /\ req \in [Requests -> Request \cup {FreeRequest}] /\ req[r] \in Request
      /\ RequestIsSound(r)
  BY HandledIsRequest, SoundOneByOne DEF WholeInv, ApprovalInv, FrontlineTypeOK, PlatformTypeOK,
     RequestTypeOK
<1>1. \A q \in Requests \ {r} : req'[q] = req[q]
  BY <1>0 DEF Proceed, Reply
<1>2. RequestIsSound(r)'
  <2>1. CASE Reply(r)
    <3>1. req'[r] = FreeRequest
      BY <1>0, <2>1 DEF Reply
    <3> QED BY <3>1 DEF RequestIsSound, FreeRequest
  <2>2. ASSUME NEW point, Proceed(r, point),
               req[r].op \notin {"approve", "sendToChange"} \/ point = "caseWrite"
        PROVE  RequestIsSound(r)'
    <3>1. /\ req'[r].op = req[r].op /\ req'[r].cr = req[r].cr /\ req'[r].left = req[r].left
          /\ req'[r].pc = point
      BY <1>0, <2>2 DEF Proceed, Request
    <3>2. req[r].left \subseteq ChangeRequests
      BY <1>0 DEF Request
    <3> QED BY <1>0, <2>2, <3>1, <3>2 DEF RequestIsSound, RowsStay
  <2> QED BY <2>1, <2>2
<1> QED BY <1>1, <1>2, UntouchedRequest

\* A request of the front side is accepted.
LEMMA AcceptedRequest ==
  ASSUME WholeInv, RowsStay, NEW r \in Requests,
         NEW op, op \notin {"approve", "reject", "sendToChange", "complete", "prMerged", "ciPassed"},
         NEW c, NEW k, k = None \/ k \in approved, NEW to, NEW point, Accept(r, op, c, k, to, point)
  PROVE  \A q \in Requests : RequestIsSound(q)'
<1>0. req \in [Requests -> Request \cup {FreeRequest}]
  BY DEF WholeInv, FrontlineTypeOK, PlatformTypeOK, RequestTypeOK
<1>1. \A q \in Requests \ {r} : req'[q] = req[q]
  BY <1>0 DEF Accept
<1>2. req'[r].op = op /\ req'[r].cr = k /\ req'[r].left = {}
  BY <1>0 DEF Accept
<1>3. RequestIsSound(r)'
  BY <1>2 DEF RequestIsSound, RowsStay
<1> QED BY <1>1, <1>3, UntouchedRequest

\* Ingestion, the guarded transition of a case at the end of a request, and dispatch().
LEMMA IngestSound ==
  ASSUME WholeInv, NEW r \in Requests, IngestStep(r), UNCHANGED changeVars
  PROVE  /\ RowsGrow /\ \A m \in Jobs : JobIsSound(m)'
         /\ \A q \in Requests : RequestIsSound(q)'
<1>1. UNCHANGED <<crStatus, crCase>>
  BY DEF IngestStep, IngestCreate, CaseCheck, CaseWrite, DispatchCaseJob, RequestFails, dbVars
<1>2. RowsGrow /\ RowsStay
  BY <1>1 DEF RowsGrow, RowsStay, changeVars
<1>3. \A q \in Requests : RequestIsSound(q)'
  <2>1. ASSUME NEW c \in Cases, IngestCreate(r, c)
        PROVE  \A q \in Requests : RequestIsSound(q)'
    BY <1>2, <2>1, AcceptedRequest DEF IngestCreate
  <2>2. CASE CaseCheck(r) \/ CaseWrite(r) \/ DispatchCaseJob(r) \/ RequestFails(r)
    <3>1. req[r].pc # "idle"
      BY <2>2 DEF CaseCheck, CaseWrite, DispatchCaseJob, RequestFails, Idle
    <3>2. \/ Reply(r) \/ Proceed(r, "caseWrite")
          \/ Proceed(r, "dispatch") /\ req[r].op \notin {"approve", "sendToChange"}
      BY <2>2 DEF CaseCheck, CaseWrite, DispatchCaseJob, RequestFails
    <3> QED BY <1>2, <3>1, <3>2, MovedRequest
  <2> QED BY <2>1, <2>2 DEF IngestStep
<1>4. \A m \in Jobs : JobIsSound(m)'
  <2>1. CASE DispatchCaseJob(r)
    <3>1. req[r].op \in {"ingest", "retry"} /\ RequestIsSound(r)
      BY <2>1, SoundOneByOne DEF DispatchCaseJob, WholeInv, ApprovalInv
    <3>2. req[r].cr = None \/ req[r].cr \in approved
      BY <3>1 DEF RequestIsSound
    <3>3. PICK n \in Jobs :
            Enqueue(n, NewJob(IF req[r].cr = None THEN "triage" ELSE "pr_draft_prep",
                              req[r].case, req[r].cr, FALSE))
      BY <2>1 DEF DispatchCaseJob
    <3> DEFINE action == IF req[r].cr = None THEN "triage" ELSE "pr_draft_prep"
    <3>4. action # "change_prep" /\ (action # "pr_draft_prep" \/ req[r].cr \in approved)
      BY <3>2
    <3>5. JobTypeOK
      BY DEF WholeInv, FrontlineTypeOK, PlatformTypeOK
    <3>6. \A m \in Jobs \ {n} : job'[m] = job[m]
      BY <3>3, <3>5 DEF Enqueue, JobTypeOK
    <3>7. job'[n] = NewJob(action, req[r].case, req[r].cr, FALSE)
      BY <3>3, <3>5 DEF Enqueue, JobTypeOK
    <3> HIDE DEF action
    <3>8. JobIsSound(n)'
      BY <1>2, <3>4, <3>7, InsertedJob
    <3> QED BY <1>2, <3>6, <3>8, UntouchedJob
  <2>2. CASE ~DispatchCaseJob(r)
    <3>1. UNCHANGED job
      BY <2>2 DEF IngestStep, IngestCreate, CaseCheck, CaseWrite, RequestFails
    <3> QED BY <1>2, <3>1, UntouchedJob
  <2> QED BY <2>1, <2>2
<1> QED BY <1>2, <1>3, <1>4

\* The endpoints of the console.
LEMMA ConsoleSound ==
  ASSUME WholeInv, NEW r \in Requests, ConsoleStep(r), UNCHANGED changeVars
  PROVE  /\ RowsGrow /\ \A m \in Jobs : JobIsSound(m)'
         /\ \A q \in Requests : RequestIsSound(q)'
<1>0. /\ RowsAreSound /\ JobTypeOK /\ RequestIsSound(r)
      /\ req \in [Requests -> Request \cup {FreeRequest}]
  BY SoundOneByOne DEF WholeInv, ApprovalInv, FrontlineTypeOK, PlatformTypeOK, RequestTypeOK
<1>1. ASSUME UNCHANGED <<crStatus, crCase>> PROVE RowsGrow /\ RowsStay
  BY <1>1 DEF RowsGrow, RowsStay, changeVars
<1>2. ASSUME UNCHANGED job, RowsStay PROVE \A m \in Jobs : JobIsSound(m)'
  BY <1>2, UntouchedJob
<1>3. ASSUME NEW c \in Cases,
             \/ Escalate(r, c) \/ Forward(r, c) \/ Resolve(r, c) \/ Reopen(r, c)
             \/ DraftClarification(r, c) \/ TriageManual(r, c) \/ SignalReceived(r, c)
             \/ Retry(r, c) \/ SendDraftReply(r, c) \/ CorrectTriage(r, c)
      PROVE  /\ RowsGrow /\ \A m \in Jobs : JobIsSound(m)'
             /\ \A q \in Requests : RequestIsSound(q)'
  <2>1. UNCHANGED <<dbVars, job>>
    BY <1>3 DEF Escalate, Forward, Resolve, Reopen, DraftClarification, TriageManual,
         SignalReceived, ConsoleCall, Retry, SendDraftReply, CorrectTriage
  <2>2. RowsGrow /\ RowsStay
    BY <1>1, <2>1 DEF dbVars
  <2>3. \E op \in {"escalate", "forward", "resolve", "reopen", "clarify", "triageManual",
                   "signalReceived", "retry", "sendDraftReply", "correctTriage"} :
           \E k, to, point : (k = None \/ k \in approved) /\ Accept(r, op, c, k, to, point)
    <3>1. CASE Retry(r, c)
      BY <1>0, <3>1 DEF Retry, PrepToRetry, RowsAreSound, PastApproval
    <3>2. CASE ~Retry(r, c)
      BY <1>3, <3>2 DEF Escalate, Forward, Resolve, Reopen, DraftClarification, TriageManual,
           SignalReceived, ConsoleCall, SendDraftReply, CorrectTriage
    <3> QED BY <3>1, <3>2
  <2>4. PICK op \in {"escalate", "forward", "resolve", "reopen", "clarify", "triageManual",
                    "signalReceived", "retry", "sendDraftReply", "correctTriage"} :
             \E k, to, point : (k = None \/ k \in approved) /\ Accept(r, op, c, k, to, point)
    BY <2>3
  <2>5. PICK k, to, point : (k = None \/ k \in approved) /\ Accept(r, op, c, k, to, point)
    BY <2>4
  <2>6. \A q \in Requests : RequestIsSound(q)'
    BY <2>2, <2>4, <2>5, AcceptedRequest
  <2> QED BY <1>2, <2>1, <2>2, <2>6
<1>4. CASE SendDraftReplyEmail(r) \/ SendDraftReplyClear(r) \/ CorrectTriageWrite(r)
  <2>1. RowsGrow /\ RowsStay /\ UNCHANGED job
    BY <1>1, <1>4 DEF SendDraftReplyEmail, SendDraftReplyClear, CorrectTriageWrite, dbVars
  <2>2. /\ req[r].pc # "idle" /\ req[r].op \notin {"approve", "sendToChange"}
        /\ Reply(r) \/ \E point : Proceed(r, point)
    BY <1>4 DEF SendDraftReplyEmail, SendDraftReplyClear, CorrectTriageWrite, Handling
  <2> QED BY <1>2, <2>1, <2>2, MovedRequest
<1>5. CASE CorrectTriageLoad(r)
  <2>1. RowsGrow /\ RowsStay /\ UNCHANGED job
    BY <1>1, <1>5 DEF CorrectTriageLoad, dbVars
  <2> DEFINE found == {k \in ChangeRequests : crCase[k] = req[r].case /\ crStatus[k] \in ActiveCrStatuses}
  <2>2. req' = [req EXCEPT ![r].pc = "cancel", ![r].left = found] /\ req[r].op = "correctTriage"
        /\ req[r].pc # "idle"
    BY <1>5 DEF CorrectTriageLoad, Handling
  <2>3. \A k \in found : k \in ChangeRequests /\ crStatus[k] # "none"
    BY CrStatusFacts DEF ActiveCrStatuses
  <2> HIDE DEF found
  <2>4. req[r] \in Request
    BY <1>0, <2>2 DEF FreeRequest
  <2>5. /\ \A q \in Requests \ {r} : req'[q] = req[q]
        /\ req'[r].op = "correctTriage" /\ req'[r].left = found
    BY <1>0, <2>2, <2>4 DEF Request
  <2>6. RequestIsSound(r)'
    BY <2>1, <2>3, <2>5 DEF RequestIsSound, RowsStay
  <2> QED BY <1>2, <2>1, <2>5, <2>6, UntouchedRequest
<1>6. CASE CorrectTriageCancel(r)
  <2>1. req[r] \in Request /\ req[r].op = "correctTriage"
    BY <1>0, <1>6 DEF CorrectTriageCancel, Handling, FreeRequest
  <2>2. PICK k \in req[r].left :
          /\ crStatus' = [crStatus EXCEPT ![k] = "rejected"]
          /\ req' = [req EXCEPT ![r].left = @ \ {k}]
    BY <1>6 DEF CorrectTriageCancel
  <2>3. k \in ChangeRequests /\ crStatus[k] # "none"
    BY <1>0, <2>1 DEF RequestIsSound, Request
  <2>4. RowsGrow
    BY <1>6, <2>2, <2>3 DEF CorrectTriageCancel, RowsGrow
  <2>5. RowsStay /\ UNCHANGED job
    BY <1>6, <2>4, RowsGrowSound DEF CorrectTriageCancel
  <2>6. /\ \A q \in Requests \ {r} : req'[q] = req[q]
        /\ req'[r].op = "correctTriage" /\ req'[r].left \subseteq req[r].left
    BY <1>0, <2>1, <2>2 DEF Request
  <2>7. req[r].left \subseteq ChangeRequests
    BY <2>1 DEF Request
  <2>8. RequestIsSound(r)'
    BY <1>0, <2>5, <2>6, <2>7 DEF RequestIsSound, RowsStay
  <2> QED BY <1>2, <2>4, <2>5, <2>6, <2>8, UntouchedRequest
<1>7. CASE CorrectTriageDispatch(r)
  <2>1. RowsGrow /\ RowsStay
    BY <1>1, <1>7 DEF CorrectTriageDispatch, dbVars
  <2>2. req[r].pc # "idle" /\ Reply(r)
    BY <1>7 DEF CorrectTriageDispatch, Handling
  <2>3. PICK n \in Jobs : Enqueue(n, NewJob("known_issue_match", req[r].case, None, TRUE))
    BY <1>7 DEF CorrectTriageDispatch
  <2>4. /\ \A m \in Jobs \ {n} : job'[m] = job[m]
        /\ job'[n] = NewJob("known_issue_match", req[r].case, None, TRUE)
    BY <1>0, <2>3 DEF Enqueue, JobTypeOK
  <2>5. JobIsSound(n)'
    BY <2>4 DEF NewJob, JobIsSound
  <2> QED BY <2>1, <2>2, <2>4, <2>5, UntouchedJob, MovedRequest
<1> QED BY <1>3, <1>4, <1>5, <1>6, <1>7
    DEF ConsoleStep, TransitionCall, SendDraftReplyStep, CorrectTriageStep

-----------------------------------------------------------------------------
(* The invariant of the whole system, and its theorems.                    *)

\* A step of the front side that is sound, one job and one request at a time.
LEMMA FrontKeepsWhole ==
  ASSUME WholeInv, UNCHANGED changeVars, RowsGrow, FrontlineTypeOK',
         \A m \in Jobs : JobIsSound(m)', \A q \in Requests : RequestIsSound(q)',
         NobodySetsFailed', FailedNamesJob'
  PROVE  WholeInv'
<1>1. RowsAreSound'
  BY RowsGrowSound
<1>2. JobsAreSound' /\ StewardsAreSound'
  BY DEF JobIsSound, JobsAreSound, StewardsAreSound
<1>3. RequestsAreSound' /\ CallersAreSound'
  BY DEF RequestIsSound, RequestsAreSound, CallersAreSound
<1>4. ChangeControlTypeOK'
  BY DEF WholeInv, ApprovalInv, ChangeControlTypeOK, FrontlineTypeOK, changeVars
<1> QED BY <1>1, <1>2, <1>3, <1>4 DEF WholeInv, ApprovalInv

LEMMA WholeInvInit ==
  ASSUME NestFleetInit
  PROVE  WholeInv
<1> USE DEF NestFleetInit
<1>1. FrontlineTypeOK
  BY FrontlineInitType
<1>2. ChangeControlTypeOK
  BY <1>1 DEF FrontlineTypeOK, ChangeControlTypeOK, ChangeInit
<1>3. RowsAreSound
  BY DEF FrontlineInit, PlatformInit, ChangeInit, RowsAreSound, PastApproval
<1>4. JobsAreSound /\ StewardsAreSound
  BY DEF FrontlineInit, PlatformInit, FreeJob, JobsAreSound, StewardsAreSound
<1>5. RequestsAreSound /\ CallersAreSound /\ NobodySetsFailed /\ FailedNamesJob
  BY DEF FrontlineInit, PlatformInit, FreeRequest, RequestsAreSound, CallersAreSound,
         NobodySetsFailed, FailedNamesJob
<1> QED BY <1>1, <1>2, <1>3, <1>4, <1>5 DEF WholeInv, ApprovalInv

LEMMA WholeInvNext ==
  ASSUME WholeInv, [NestFleetNext]_nestFleetVars
  PROVE  WholeInv'
<1>1. ASSUME NEW i \in Jobs, FrontlineJobStep(i), UNCHANGED changeVars
      PROVE  WholeInv'
  <2>1. [FrontlineNext]_frontlineVars
    BY <1>1 DEF FrontlineNext
  <2>2. FrontlineTypeOK' /\ NobodySetsFailed' /\ FailedNamesJob'
    BY <2>1, FrontlineTypeKept, FrontlineNamesJob DEF WholeInv
  <2>3. RowsGrow /\ \A m \in Jobs : JobIsSound(m)'
    BY <1>1, QuietJobSound, TriageCommitSound, StewardSound, GateSound
       DEF FrontlineJobStep, TriageStep, StewardStep, AutoReplyStep
  <2>4. UNCHANGED req
    BY <1>1 DEF FrontlineJobStep, TriageStep, TriageStart, TriageCommit, StewardStep,
         StewardStart, StewardRoute, StewardCreateCr, StewardCommit, StewardSidecar,
         StewardSidecarDispatch, AutoReplyStep, AutoReplyStart, AutoReplyGate,
         AutoReplyCheck, AutoReplyWrite, AutoReplyEmail, AutoReplySave, OutageStep,
         OutageStart, OutageFinish, QueueStep, WorkerFinish, JobFails, DeadLetter
  <2>5. RowsStay
    BY <1>1, <2>3, RowsGrowSound
  <2>6. \A q \in Requests : RequestIsSound(q)'
    BY <2>4, <2>5, UntouchedRequest
  <2> QED BY <1>1, <2>2, <2>3, <2>6, FrontKeepsWhole
<1>2. ASSUME NEW r \in Requests, IngestStep(r) \/ ConsoleStep(r), UNCHANGED changeVars
      PROVE  WholeInv'
  <2>1. FrontlineTypeOK' /\ NobodySetsFailed' /\ FailedNamesJob'
    <3>1. CASE IngestStep(r)
      <4>1. [FrontlineNext]_frontlineVars
        BY <3>1 DEF FrontlineNext
      <4> QED BY <4>1, FrontlineTypeKept, FrontlineNamesJob DEF WholeInv
    <3>2. CASE ConsoleStep(r)
      BY <3>2, ConsoleStepKeeps DEF WholeInv, FailedNamesJob
    <3> QED BY <1>2, <3>1, <3>2
  <2>2. /\ RowsGrow /\ \A m \in Jobs : JobIsSound(m)'
        /\ \A q \in Requests : RequestIsSound(q)'
    BY <1>2, IngestSound, ConsoleSound
  <2> QED BY <1>2, <2>1, <2>2, FrontKeepsWhole
<1>3. ASSUME \/ \E i \in Jobs : ChangeJobStep(i)
             \/ \E r \in Requests : ChangeRequestStep(r)
             \/ GitHubStep,
             UNCHANGED frontVars
      PROVE  WholeInv'
  <2>1. [ChangeControlNext]_changeControlVars
    BY <1>3 DEF ChangeControlNext
  <2>2. ApprovalInv'
    BY <2>1, ApprovalInvNext DEF WholeInv
  <2>3. FrontlineTypeOK'
    BY <1>3, <2>2 DEF WholeInv, ApprovalInv, ChangeControlTypeOK, FrontlineTypeOK, frontVars
  <2>4. RowsStay /\ StewardsStay /\ CallersStay
    <3>1. CASE GitHubStep
      BY <3>1 DEF GitHubStep, MergeOnGitHub, platformVars, RowsStay, StewardsStay, CallersStay
    <3> QED BY <1>3, <3>1, ChangeJobStays, ChangeRequestStays
  <2>5. StewardsAreSound' /\ CallersAreSound' /\ NobodySetsFailed'
    BY <2>4, StaySound
  <2>6. FailedNamesJob'
    BY <1>3, ChangeNamesJob
  <2> QED BY <2>2, <2>3, <2>5, <2>6 DEF WholeInv
<1>4. CASE UNCHANGED nestFleetVars
  BY <1>4 DEF nestFleetVars, platformVars, frontVars, changeVars, WholeInv, ApprovalInv,
       ChangeControlTypeOK, FrontlineTypeOK, PlatformTypeOK, JobTypeOK, RequestTypeOK,
       RowsAreSound, JobsAreSound, RequestsAreSound, StewardsAreSound, CallersAreSound,
       NobodySetsFailed, FailedNamesJob
<1> QED BY <1>1, <1>2, <1>3, <1>4 DEF NestFleetNext, JobStep, ConsoleSide, ChangeSide

LEMMA WholeInvHolds == NestFleetSpec => []WholeInv
<1>1. NestFleetInit => WholeInv
  BY WholeInvInit
<1>2. WholeInv /\ [NestFleetNext]_nestFleetVars => WholeInv'
  BY WholeInvNext
<1> QED BY <1>1, <1>2, PTL DEF NestFleetSpec

\* Every row, job and request of the whole system keeps its type.
THEOREM WholeTypeCorrect == NestFleetSpec => []ChangeControlTypeOK
<1>1. WholeInv => ChangeControlTypeOK
  BY DEF WholeInv, ApprovalInv
<1> QED BY <1>1, WholeInvHolds, PTL

\* Nothing gets past the approval without a person, with the pipeline and all the
\* console's operations running beside change control: the Steward's routes and
\* sidecars, the retry that dispatches pr_draft_prep by itself, and the correction of
\* a triage that cancels change requests with an unguarded update.
THEOREM WholeHumanApproval == NestFleetSpec => []HumanApproval
<1>1. WholeInv => HumanApproval
  BY DEF WholeInv, ApprovalInv, RowsAreSound, HumanApproval
<1> QED BY <1>1, WholeInvHolds, PTL

\* A failed case names its failed job, with change control and its webhooks running
\* beside the console's retries.
THEOREM WholeNamesJob == NestFleetSpec => []FailedNamesJob
<1>1. WholeInv => FailedNamesJob
  BY DEF WholeInv
<1> QED BY <1>1, WholeInvHolds, PTL

\* The whole system implements the approval gate: a front-side step opens or
\* recalls a change request, or does nothing the gate sees.
THEOREM WholeGateImplemented == NestFleetSpec => ImplementsGate
<1>1. NestFleetInit => Gate!GateInit
  BY DEF NestFleetInit, FrontlineInit, PlatformInit, ChangeInit, Gate!GateInit
<1>2. WholeInv /\ [NestFleetNext]_nestFleetVars => [Gate!GateNext]_(Gate!gateVars)
  <2> SUFFICES ASSUME WholeInv, [NestFleetNext]_nestFleetVars
               PROVE  Gate!GateNext \/ UNCHANGED Gate!gateVars
    OBVIOUS
  <2>0. ApprovalInv
    BY DEF WholeInv
  <2>1. ASSUME RowsGrow, UNCHANGED changeVars
        PROVE  Gate!GateNext \/ UNCHANGED Gate!gateVars
    <3>1. UNCHANGED <<prState, approved>>
      BY <2>1 DEF changeVars
    <3>2. CASE UNCHANGED <<crStatus, crCase>>
      BY <3>1, <3>2, OtherIsGateStutter
    <3>3. CASE ~UNCHANGED <<crStatus, crCase>>
      <4>1. PICK k \in ChangeRequests, s \in {"draft", "rejected"} :
              crStatus' = [crStatus EXCEPT ![k] = s]
        BY <2>1, <3>3 DEF RowsGrow, CreateChangeRequest
      <4> QED BY <2>0, <3>1, <4>1, StatusIsGateStep
    <3> QED BY <3>2, <3>3
  <2>2. ASSUME NEW i \in Jobs, FrontlineJobStep(i), UNCHANGED changeVars
        PROVE  RowsGrow
    BY <2>2, QuietJobSound, TriageCommitSound, StewardSound, GateSound
       DEF FrontlineJobStep, TriageStep, StewardStep, AutoReplyStep
  <2>3. ASSUME NEW r \in Requests, IngestStep(r) \/ ConsoleStep(r), UNCHANGED changeVars
        PROVE  RowsGrow
    BY <2>3, IngestSound, ConsoleSound
  <2>4. ASSUME NEW i \in Jobs, ChangeJobStep(i)
        PROVE  Gate!GateNext \/ UNCHANGED Gate!gateVars
    BY <2>0, <2>4, JobIsGateStep
  <2>5. ASSUME NEW r \in Requests, ChangeRequestStep(r)
        PROVE  Gate!GateNext \/ UNCHANGED Gate!gateVars
    BY <2>0, <2>5, RequestIsGateStep
  <2>6. CASE GitHubStep
    <3>1. PICK k \in ChangeRequests : MergeOnGitHub(k)
      BY <2>6 DEF GitHubStep
    <3>2. k \in approved
      BY <2>0, <3>1 DEF MergeOnGitHub, ApprovalInv, RowsAreSound
    <3> QED BY <2>0, <3>1, <3>2, PullRequestIsGateStep DEF MergeOnGitHub, platformVars
  <2>7. CASE UNCHANGED nestFleetVars
    BY <2>7, OtherIsGateStutter DEF nestFleetVars, platformVars, changeVars
  <2> QED BY <2>1, <2>2, <2>3, <2>4, <2>5, <2>6, <2>7
          DEF NestFleetNext, JobStep, ConsoleSide, ChangeSide
<1> QED BY <1>1, <1>2, WholeInvHolds, PTL DEF NestFleetSpec, ImplementsGate, Gate!GateSpec

-----------------------------------------------------------------------------
(* A case in change has its change request, with the console and the       *)
(* webhooks at work as well.                                               *)

\* Who is entitled to route a case to change by a request: send-to-change once it
\* has created its row, and a retry that has found an approved one.
NeedsRow(r) == req[r].to = "in-change" \/ Handling(r, "sendToChange", "commit")

CallersOwn ==
  \A r \in Requests : NeedsRow(r) => \E k \in ChangeRequests : crCase[k] = req[r].case

WholeOwned == OwnedInv /\ CallersOwn

\* No change request changes hands.
NoneChangesHands == \A k \in ChangeRequests : crCase[k] \in Cases => crCase'[k] = crCase[k]

\* A request that did not need a row before, or for another case, has one.
NewcomersOwn ==
  \A q \in Requests : NeedsRow(q)' =>
    \/ NeedsRow(q) /\ req'[q].case = req[q].case
    \/ \E k \in ChangeRequests : crCase'[k] = req'[q].case

LEMMA CallersOwnKept ==
  ASSUME FrontlineTypeOK, CallersOwn, NoneChangesHands, NewcomersOwn
  PROVE  CallersOwn'
<1> SUFFICES ASSUME NEW q \in Requests, NeedsRow(q)'
             PROVE  \E k \in ChangeRequests : crCase'[k] = req'[q].case
  BY DEF CallersOwn
<1>1. CASE NeedsRow(q) /\ req'[q].case = req[q].case
  <2>1. PICK k \in ChangeRequests : crCase[k] = req[q].case
    BY <1>1 DEF CallersOwn
  <2>2. req[q].case \in Cases
    BY <1>1 DEF NeedsRow, Handling, FrontlineTypeOK, PlatformTypeOK, RequestTypeOK, Request, FreeRequest
  <2> QED BY <1>1, <2>1, <2>2 DEF NoneChangesHands
<1> QED BY <1>1 DEF NewcomersOwn

\* A step that creates no row and brings no Steward to its commit.
LEMMA RowlessKeeps ==
  ASSUME OwnedInv, RowsStay, UNCHANGED crCase,
         \A m \in Jobs : job'[m] = job[m] \/ job'[m].pc # "commit",
         \A c \in Cases : caseStatus'[c] = "in-change" =>
           caseStatus[c] = "in-change" \/ \E k \in ChangeRequests : crCase[k] = c
  PROVE  OwnedInv' /\ NoneChangesHands
<1>1. \A k \in ChangeRequests : crStatus'[k] = "none" => crCase'[k] = None
  BY DEF OwnedInv, OwnedRequests, RowsStay
<1> QED BY <1>1, OwnedKept DEF NoneChangesHands

\* A request that goes on or is answered, and one that is accepted.
LEMMA GoingOnOwns ==
  ASSUME FrontlineTypeOK, NEW r \in Requests, req[r].pc # "idle",
         Reply(r) \/ \E point : point # "commit" /\ Proceed(r, point)
  PROVE  NewcomersOwn
<1>1. req \in [Requests -> Request \cup {FreeRequest}] /\ req[r] \in Request
  BY HandledIsRequest DEF FrontlineTypeOK, PlatformTypeOK, RequestTypeOK
<1>2. \A q \in Requests \ {r} : req'[q] = req[q]
  BY <1>1 DEF Proceed, Reply
<1>3. NeedsRow(r)' => NeedsRow(r) /\ req'[r].case = req[r].case
  <2>1. CASE Reply(r)
    BY <1>1, <2>1 DEF Reply, FreeRequest, NeedsRow, Handling
  <2>2. ASSUME NEW point, point # "commit", Proceed(r, point)
        PROVE  NeedsRow(r)' => NeedsRow(r) /\ req'[r].case = req[r].case
    <3>1. req'[r].case = req[r].case /\ req'[r].to = req[r].to /\ req'[r].pc = point
      BY <1>1, <2>2 DEF Proceed, Request
    <3> QED BY <2>2, <3>1 DEF NeedsRow, Handling
  <2> QED BY <2>1, <2>2
<1> QED BY <1>2, <1>3 DEF NewcomersOwn, NeedsRow, Handling

LEMMA AcceptedOwns ==
  ASSUME FrontlineTypeOK, NEW r \in Requests, NEW op, NEW c, NEW k, NEW to, NEW point,
         Accept(r, op, c, k, to, point), point # "commit",
         to # "in-change" \/ \E l \in ChangeRequests : crCase'[l] = c
  PROVE  NewcomersOwn
<1>1. req \in [Requests -> Request \cup {FreeRequest}]
  BY DEF FrontlineTypeOK, PlatformTypeOK, RequestTypeOK
<1>2. \A q \in Requests \ {r} : req'[q] = req[q]
  BY <1>1 DEF Accept
<1>3. req'[r].case = c /\ req'[r].to = to /\ req'[r].pc = point
  BY <1>1 DEF Accept
<1> QED BY <1>2, <1>3 DEF NewcomersOwn, NeedsRow, Handling

\* The pipeline's workers.
LEMMA PipelineOwns ==
  ASSUME WholeInv, WholeOwned, NEW i \in Jobs, FrontlineJobStep(i), UNCHANGED changeVars
  PROVE  WholeOwned'
<1>1. OwnedInv'
  BY OwnedSteward, OwnedOthers DEF WholeInv, WholeOwned, FrontlineJobStep
<1>2. RowsGrow
  BY QuietJobSound, TriageCommitSound, StewardSound, GateSound
     DEF FrontlineJobStep, TriageStep, StewardStep, AutoReplyStep
<1>3. NoneChangesHands
  <2>1. ASSUME NEW k \in ChangeRequests, NEW c \in Cases, CreateChangeRequest(k, c)
        PROVE  NoneChangesHands
    BY <2>1, CreatedIsOwned DEF WholeInv, WholeOwned, OwnedInv, NoneChangesHands
  <2>2. CASE UNCHANGED crCase
    BY <2>2 DEF NoneChangesHands
  <2> QED BY <1>2, <2>1, <2>2 DEF RowsGrow
<1>4. UNCHANGED req
  BY DEF FrontlineJobStep, TriageStep, TriageStart, TriageCommit, StewardStep,
     StewardStart, StewardRoute, StewardCreateCr, StewardCommit, StewardSidecar,
     StewardSidecarDispatch, AutoReplyStep, AutoReplyStart, AutoReplyGate,
     AutoReplyCheck, AutoReplyWrite, AutoReplyEmail, AutoReplySave, OutageStep,
     OutageStart, OutageFinish, QueueStep, WorkerFinish, JobFails, DeadLetter
<1>5. NewcomersOwn
  BY <1>4 DEF NewcomersOwn, NeedsRow, Handling
<1> QED BY <1>1, <1>3, <1>5, CallersOwnKept DEF WholeInv, WholeOwned

\* Ingestion and the console's endpoints.
LEMMA ConsoleOwns ==
  ASSUME WholeInv, WholeOwned, NEW r \in Requests, IngestStep(r) \/ ConsoleStep(r),
         UNCHANGED changeVars
  PROVE  WholeOwned'
<1>0. /\ FrontlineTypeOK /\ OwnedInv /\ CallersOwn
      /\ req \in [Requests -> Request \cup {FreeRequest}]
      /\ caseStatus \in [Cases -> CaseStatuses \cup {"none"}]
      /\ JobTypeOK
  BY DEF WholeInv, WholeOwned, FrontlineTypeOK, PlatformTypeOK, RequestTypeOK
<1>1. RowsStay
  BY IngestSound, ConsoleSound, RowsGrowSound
<1>2. UNCHANGED crCase
  BY DEF IngestStep, IngestCreate, CaseCheck, CaseWrite, DispatchCaseJob, RequestFails,
     ConsoleStep, TransitionCall, SendDraftReplyStep, CorrectTriageStep,
     Escalate, Forward, Resolve, Reopen, DraftClarification, TriageManual,
     SignalReceived, ConsoleCall, Retry, SendDraftReply, CorrectTriage, SendDraftReplyEmail,
     SendDraftReplyClear, CorrectTriageLoad, CorrectTriageCancel, CorrectTriageWrite,
     CorrectTriageDispatch, dbVars
<1>3. \A m \in Jobs : job'[m] = job[m] \/ job'[m].pc # "commit"
  <2>1. UNCHANGED job \/ \E n \in Jobs : \E action, c, k, forced : Enqueue(n, NewJob(action, c, k, forced))
    BY DEF IngestStep, IngestCreate, CaseCheck, CaseWrite, DispatchCaseJob, RequestFails,
       ConsoleStep, TransitionCall, SendDraftReplyStep, CorrectTriageStep,
       Escalate, Forward, Resolve, Reopen, DraftClarification, TriageManual,
       SignalReceived, ConsoleCall, Retry, SendDraftReply, CorrectTriage, SendDraftReplyEmail,
       SendDraftReplyClear, CorrectTriageLoad, CorrectTriageCancel, CorrectTriageWrite,
       CorrectTriageDispatch
  <2> QED BY <1>0, <2>1 DEF Enqueue, NewJob, JobTypeOK
<1>4. ASSUME NEW c \in Cases, caseStatus'[c] = "in-change"
      PROVE  caseStatus[c] = "in-change" \/ \E k \in ChangeRequests : crCase[k] = c
  <2>1. CASE CaseWrite(r)
    <3>1. caseStatus'[c] = IF c = req[r].case THEN req[r].to ELSE caseStatus[c]
      BY <1>0, <2>1 DEF CaseWrite
    <3>2. CASE c = req[r].case
      <4>1. NeedsRow(r)
        BY <1>4, <3>1, <3>2 DEF NeedsRow
      <4> QED BY <1>0, <3>2, <4>1 DEF CallersOwn
    <3> QED BY <1>4, <3>1, <3>2
  <2>2. CASE ~CaseWrite(r)
    <3>1. \/ UNCHANGED caseStatus
          \/ \E d, s : s # "in-change" /\ caseStatus' = [caseStatus EXCEPT ![d] = s]
      BY <2>2 DEF IngestStep, IngestCreate, CaseCheck, DispatchCaseJob, RequestFails,
         ConsoleStep, TransitionCall, SendDraftReplyStep, CorrectTriageStep,
         Escalate, Forward, Resolve, Reopen, DraftClarification, TriageManual,
         SignalReceived, ConsoleCall, Retry, SendDraftReply, CorrectTriage, SendDraftReplyEmail,
         SendDraftReplyClear, CorrectTriageLoad, CorrectTriageCancel, CorrectTriageWrite,
         CorrectTriageDispatch, dbVars
    <3> QED BY <1>0, <1>4, <3>1
  <2> QED BY <2>1, <2>2
<1>5. NewcomersOwn
  <2>1. CASE \E c \in Cases : Retry(r, c)
    <3>1. PICK c \in Cases : Retry(r, c)
      BY <2>1
    <3>2. \E k, to :
            /\ Accept(r, "retry", c, k, to, "caseCheck")
            /\ to # "in-change" \/ \E l \in ChangeRequests : crCase'[l] = c
      BY <1>2, <3>1 DEF Retry, PrepToRetry
    <3> QED BY <1>0, <3>2, AcceptedOwns
  <2>2. CASE \E c \in Cases :
               \/ IngestCreate(r, c) \/ Escalate(r, c) \/ Forward(r, c) \/ Resolve(r, c)
               \/ Reopen(r, c) \/ DraftClarification(r, c) \/ TriageManual(r, c)
               \/ SignalReceived(r, c) \/ SendDraftReply(r, c) \/ CorrectTriage(r, c)
    <3>1. \E op, c, k, to, point :
            to # "in-change" /\ point # "commit" /\ Accept(r, op, c, k, to, point)
      BY <2>2 DEF IngestCreate, Escalate, Forward, Resolve, Reopen, DraftClarification,
         TriageManual, SignalReceived, ConsoleCall, SendDraftReply, CorrectTriage
    <3> QED BY <1>0, <3>1, AcceptedOwns
  <2>3. CASE \/ CaseCheck(r) \/ CaseWrite(r) \/ DispatchCaseJob(r) \/ RequestFails(r)
             \/ SendDraftReplyEmail(r) \/ SendDraftReplyClear(r)
             \/ CorrectTriageWrite(r) \/ CorrectTriageDispatch(r)
    <3>1. /\ req[r].pc # "idle"
          /\ Reply(r) \/ \E point : point # "commit" /\ Proceed(r, point)
      BY <2>3 DEF CaseCheck, CaseWrite, DispatchCaseJob, RequestFails, SendDraftReplyEmail,
         SendDraftReplyClear, CorrectTriageWrite, CorrectTriageDispatch, Handling, Idle
    <3> QED BY <1>0, <3>1, GoingOnOwns
  <2>4. CASE CorrectTriageLoad(r) \/ CorrectTriageCancel(r)
    <3>1. req[r] \in Request /\ req[r].op = "correctTriage"
      BY <1>0, <2>4 DEF CorrectTriageLoad, CorrectTriageCancel, Handling, FreeRequest
    <3>2. \/ \E point, left : req' = [req EXCEPT ![r].pc = point, ![r].left = left]
          \/ \E left : req' = [req EXCEPT ![r].left = left]
      BY <2>4 DEF CorrectTriageLoad, CorrectTriageCancel
    <3>3. /\ \A q \in Requests \ {r} : req'[q] = req[q]
          /\ req'[r].op = req[r].op /\ req'[r].to = req[r].to /\ req'[r].case = req[r].case
      <4>1. ASSUME NEW point, NEW left, req' = [req EXCEPT ![r].pc = point, ![r].left = left]
            PROVE  /\ \A q \in Requests \ {r} : req'[q] = req[q]
                   /\ req'[r].op = req[r].op /\ req'[r].to = req[r].to
                   /\ req'[r].case = req[r].case
        BY <1>0, <3>1, <4>1 DEF Request
      <4>2. ASSUME NEW left, req' = [req EXCEPT ![r].left = left]
            PROVE  /\ \A q \in Requests \ {r} : req'[q] = req[q]
                   /\ req'[r].op = req[r].op /\ req'[r].to = req[r].to
                   /\ req'[r].case = req[r].case
        BY <1>0, <3>1, <4>2 DEF Request
      <4> QED BY <3>2, <4>1, <4>2
    <3> QED BY <3>1, <3>3 DEF NewcomersOwn, NeedsRow, Handling
  <2> QED BY <2>1, <2>2, <2>3, <2>4 DEF IngestStep, ConsoleStep, TransitionCall,
         SendDraftReplyStep, CorrectTriageStep
<1>6. OwnedInv' /\ NoneChangesHands
  BY <1>0, <1>1, <1>2, <1>3, <1>4, RowlessKeeps
<1> QED BY <1>0, <1>5, <1>6, CallersOwnKept DEF WholeOwned

\* The workers of change control.
LEMMA ChangeJobOwns ==
  ASSUME WholeInv, WholeOwned, NEW i \in Jobs, ChangeJobStep(i)
  PROVE  WholeOwned'
<1>0. /\ FrontlineTypeOK /\ OwnedInv /\ CallersOwn /\ JobTypeOK
      /\ caseStatus \in [Cases -> CaseStatuses \cup {"none"}]
  BY DEF WholeInv, WholeOwned, FrontlineTypeOK, PlatformTypeOK
<1>1. RowsStay
  BY ChangeJobStays
<1>2. UNCHANGED <<crCase, req>>
  BY DEF ChangeJobStep, ChangePrepStart, ChangePrepToAnalysis, ChangePrepWriteAnalysis,
     ChangePrepToPending, ChangePrepWritePending, PrDraftStart, PrDraftGithub, PrDraftCheck,
     PrDraftWrite, PrDraftLoadCase, PrDraftCaseCheck, PrDraftCaseWrite, dbVars
<1>3. \A m \in Jobs : job'[m] = job[m] \/ job'[m].pc # "commit"
  <2>1. job[i].pc # "free" /\ job[i] \in Job
    <3>1. job[i].pc # "free"
      BY DEF ChangeJobStep, ChangePrepStart, ChangePrepToAnalysis, ChangePrepWriteAnalysis,
         ChangePrepToPending, ChangePrepWritePending, PrDraftStart, PrDraftGithub, PrDraftCheck,
         PrDraftWrite, PrDraftLoadCase, PrDraftCaseCheck, PrDraftCaseWrite, At
    <3> QED BY <1>0, <3>1, SlotHoldsJob
  <2>2. \/ Finish(i)
        \/ \E point : point # "commit" /\ Goto(i, point)
        \/ \E plan : job' = [job EXCEPT ![i].plan = plan, ![i].pc = "toDrafted"]
    BY DEF ChangeJobStep, ChangePrepStart, ChangePrepToAnalysis, ChangePrepWriteAnalysis,
       ChangePrepToPending, ChangePrepWritePending, PrDraftStart, PrDraftGithub, PrDraftCheck,
       PrDraftWrite, PrDraftLoadCase, PrDraftCaseCheck, PrDraftCaseWrite
  <2>3. CASE Finish(i)
    BY <1>0, <2>3 DEF Finish, FreeJob, JobTypeOK
  <2>4. ASSUME NEW point, point # "commit", Goto(i, point)
        PROVE  \A m \in Jobs : job'[m] = job[m] \/ job'[m].pc # "commit"
    BY <1>0, <2>1, <2>4 DEF Goto, Job, JobTypeOK
  <2>5. ASSUME NEW plan, job' = [job EXCEPT ![i].plan = plan, ![i].pc = "toDrafted"]
        PROVE  \A m \in Jobs : job'[m] = job[m] \/ job'[m].pc # "commit"
    BY <1>0, <2>1, <2>5 DEF Job, JobTypeOK
  <2> QED BY <2>2, <2>3, <2>4, <2>5
<1>4. \A c \in Cases : caseStatus'[c] = "in-change" => caseStatus[c] = "in-change"
  <2>1. \/ UNCHANGED caseStatus
        \/ \E d : caseStatus' = [caseStatus EXCEPT ![d] = "resolved"]
    BY DEF ChangeJobStep, ChangePrepStart, ChangePrepToAnalysis, ChangePrepWriteAnalysis,
       ChangePrepToPending, ChangePrepWritePending, PrDraftStart, PrDraftGithub, PrDraftCheck,
       PrDraftWrite, PrDraftLoadCase, PrDraftCaseCheck, PrDraftCaseWrite, dbVars
  <2> QED BY <1>0, <2>1
<1>5. NewcomersOwn
  BY <1>2 DEF NewcomersOwn, NeedsRow, Handling
<1>6. OwnedInv' /\ NoneChangesHands
  BY <1>0, <1>1, <1>2, <1>3, <1>4, RowlessKeeps
<1> QED BY <1>0, <1>5, <1>6, CallersOwnKept DEF WholeOwned

\* Send-to-change creates the row before it routes the case.
LEMMA SendToChangeOwns ==
  ASSUME WholeInv, WholeOwned, NEW r \in Requests, SendToChangeCreate(r) \/ SendToChangeCommit(r)
  PROVE  WholeOwned'
<1>0. /\ FrontlineTypeOK /\ OwnedInv /\ CallersOwn /\ JobTypeOK
      /\ caseStatus \in [Cases -> CaseStatuses \cup {"none"}]
      /\ req \in [Requests -> Request \cup {FreeRequest}] /\ req[r] \in Request
      /\ req[r].pc # "idle"
  <2>1. req[r].pc # "idle"
    BY DEF SendToChangeCreate, SendToChangeCommit, Handling
  <2> QED BY <2>1, HandledIsRequest
          DEF WholeInv, WholeOwned, FrontlineTypeOK, PlatformTypeOK, RequestTypeOK
<1>a. PICK d \in Cases : d = req[r].case
  BY <1>0 DEF Request
<1>1. CASE SendToChangeCreate(r)
  <2>1. PICK k \in ChangeRequests :
          /\ CreateChangeRequest(k, d)
          /\ req' = [req EXCEPT ![r].cr = k, ![r].pc = "commit"]
    BY <1>1, <1>a DEF SendToChangeCreate
  <2>2. UNCHANGED <<caseStatus, job>>
    BY <1>1 DEF SendToChangeCreate
  <2>3. /\ crCase'[k] = d
        /\ \A l \in ChangeRequests : crStatus'[l] = "none" => crCase'[l] = None
        /\ NoneChangesHands
    BY <1>0, <2>1, CreatedIsOwned DEF OwnedInv, NoneChangesHands
  <2>4. OwnedInv'
    BY <1>0, <2>2, <2>3, OwnedKept DEF NoneChangesHands
  <2>5. /\ \A q \in Requests \ {r} : req'[q] = req[q]
        /\ req'[r].case = d
    BY <1>0, <1>a, <2>1 DEF Request
  <2>6. NewcomersOwn
    BY <2>3, <2>5 DEF NewcomersOwn, NeedsRow, Handling
  <2> QED BY <1>0, <2>3, <2>4, <2>6, CallersOwnKept DEF WholeOwned
<1>2. CASE SendToChangeCommit(r)
  <2>1. UNCHANGED <<crStatus, crCase>> /\ Reply(r)
    BY <1>2 DEF SendToChangeCommit
  <2>2. RowsStay
    BY ChangeRequestStays, <1>2 DEF ChangeRequestStep
  <2>3. \A m \in Jobs : job'[m] = job[m] \/ job'[m].pc # "commit"
    BY <1>0, <1>2 DEF SendToChangeCommit, Enqueue, NewJob, JobTypeOK
  <2>4. \A c \in Cases : caseStatus'[c] = IF c = d THEN "in-change" ELSE caseStatus[c]
    BY <1>0, <1>2, <1>a DEF SendToChangeCommit
  <2>5. \E k \in ChangeRequests : crCase[k] = d
    BY <1>0, <1>2, <1>a DEF SendToChangeCommit, CallersOwn, NeedsRow
  <2>6. OwnedInv' /\ NoneChangesHands
    BY <1>0, <2>1, <2>2, <2>3, <2>4, <2>5, RowlessKeeps
  <2>7. NewcomersOwn
    BY <1>0, <2>1, GoingOnOwns
  <2> QED BY <1>0, <2>6, <2>7, CallersOwnKept DEF WholeOwned
<1> QED BY <1>1, <1>2

\* The other endpoints of change control and the webhooks.
LEMMA ChangeRequestOwns ==
  ASSUME WholeInv, WholeOwned, NEW r \in Requests, ChangeRequestStep(r)
  PROVE  WholeOwned'
<1>0. /\ FrontlineTypeOK /\ OwnedInv /\ CallersOwn /\ JobTypeOK
      /\ caseStatus \in [Cases -> CaseStatuses \cup {"none"}]
  BY DEF WholeInv, WholeOwned, FrontlineTypeOK, PlatformTypeOK
<1>1. SUFFICES ASSUME ~SendToChangeCreate(r), ~SendToChangeCommit(r)
               PROVE  WholeOwned'
  BY SendToChangeOwns
<1>2. RowsStay
  BY ChangeRequestStays
<1>3. UNCHANGED crCase
  BY <1>1 DEF ChangeRequestStep, SendToChange, Approve, Reject, Complete, PrMerged, CiPassed,
     CrCheck, CrWrite, LoadCase, ApprovePrepCheck, ApprovePrepWrite, ApproveDispatch,
     PrMergedRecord, PrMergedComplete, CiPassedRecord, CiPassedComplete, CiPassedResolve, dbVars
<1>4. \A m \in Jobs : job'[m] = job[m] \/ job'[m].pc # "commit"
  <2>1. UNCHANGED job \/ \E n \in Jobs : \E action, c, k : Enqueue(n, NewJob(action, c, k, FALSE))
    BY <1>1 DEF ChangeRequestStep, SendToChange, Approve, Reject, Complete, PrMerged, CiPassed,
       CrCheck, CrWrite, LoadCase, ApprovePrepCheck, ApprovePrepWrite, ApproveDispatch,
       PrMergedRecord, PrMergedComplete, CiPassedRecord, CiPassedComplete, CiPassedResolve
  <2> QED BY <1>0, <2>1 DEF Enqueue, NewJob, JobTypeOK
<1>5. \A c \in Cases : caseStatus'[c] = "in-change" => caseStatus[c] = "in-change"
  <2>1. \/ UNCHANGED caseStatus
        \/ \E d : caseStatus' = [caseStatus EXCEPT ![d] = "resolved"]
    BY <1>1 DEF ChangeRequestStep, SendToChange, Approve, Reject, Complete, PrMerged, CiPassed,
       CrCheck, CrWrite, LoadCase, ApprovePrepCheck, ApprovePrepWrite, ApproveDispatch,
       PrMergedRecord, PrMergedComplete, CiPassedRecord, CiPassedComplete, CiPassedResolve, dbVars
  <2> QED BY <1>0, <2>1
<1>6. NewcomersOwn
  <2>1. CASE \/ \E c \in Cases : SendToChange(r, c)
             \/ \E k \in ChangeRequests :
                  Approve(r, k) \/ Reject(r, k) \/ Complete(r, k) \/ PrMerged(r, k) \/ CiPassed(r, k)
    <3>1. \E op, c, k, to, point :
            to # "in-change" /\ point # "commit" /\ Accept(r, op, c, k, to, point)
      BY <2>1 DEF SendToChange, Approve, Reject, Complete, PrMerged, CiPassed
    <3> QED BY <1>0, <3>1, AcceptedOwns
  <2>2. CASE ~(\/ \E c \in Cases : SendToChange(r, c)
               \/ \E k \in ChangeRequests :
                    Approve(r, k) \/ Reject(r, k) \/ Complete(r, k) \/ PrMerged(r, k) \/ CiPassed(r, k))
    <3>1. /\ req[r].pc # "idle"
          /\ Reply(r) \/ \E point : point # "commit" /\ Proceed(r, point)
      BY <1>1, <2>2 DEF ChangeRequestStep, CrCheck, CrWrite, CrTarget, LoadCase, ApprovePrepCheck,
         ApprovePrepWrite, ApproveDispatch, PrMergedRecord, PrMergedComplete, CiPassedRecord,
         CiPassedComplete, CiPassedResolve, Handling
    <3> QED BY <1>0, <3>1, GoingOnOwns
  <2> QED BY <2>1, <2>2
<1>7. OwnedInv' /\ NoneChangesHands
  BY <1>0, <1>2, <1>3, <1>4, <1>5, RowlessKeeps
<1> QED BY <1>0, <1>6, <1>7, CallersOwnKept DEF WholeOwned

\* A case in change has a change request of its own in the whole system too: the
\* route by the Steward, by send-to-change and by the retry of a failed case.
THEOREM WholeOwnsRequest == NestFleetSpec => []InChangeHasRequest
<1>1. NestFleetInit => WholeOwned
  BY PlatformAssumption
     DEF NestFleetInit, FrontlineInit, PlatformInit, FreeJob, FreeRequest, WholeOwned, OwnedInv,
         OwnedRequests, InChangeHasRequest, Serves, CallersOwn, NeedsRow, Handling
<1>2. WholeInv /\ WholeOwned /\ [NestFleetNext]_nestFleetVars => WholeOwned'
  <2> SUFFICES ASSUME WholeInv, WholeOwned, [NestFleetNext]_nestFleetVars
               PROVE  WholeOwned'
    OBVIOUS
  <2>1. ASSUME UNCHANGED platformVars PROVE WholeOwned'
    <3>1. UNCHANGED <<caseStatus, crStatus, crCase, job, req>>
      BY <2>1 DEF platformVars, dbVars
    <3> QED BY <3>1 DEF WholeOwned, OwnedInv, OwnedRequests, InChangeHasRequest, Serves,
                        CallersOwn, NeedsRow, Handling
  <2>2. CASE GitHubStep
    BY <2>1, <2>2 DEF GitHubStep, MergeOnGitHub
  <2>3. CASE UNCHANGED nestFleetVars
    BY <2>1, <2>3 DEF nestFleetVars
  <2> QED BY <2>2, <2>3, PipelineOwns, ConsoleOwns, ChangeJobOwns, ChangeRequestOwns
          DEF NestFleetNext, JobStep, ConsoleSide, ChangeSide
<1>3. WholeOwned => InChangeHasRequest
  BY DEF WholeOwned, OwnedInv
<1> QED BY <1>1, <1>2, <1>3, WholeInvHolds, PTL DEF NestFleetSpec

-----------------------------------------------------------------------------
(* No case is left behind in the whole system.  Change control touches     *)
(* neither the Steward's jobs nor the replies; of the three statuses it    *)
(* gives only awaiting-lead, after a rejection.                            *)

\* Change control keeps what a case is owed.
LEMMA ChangeJobOwes ==
  ASSUME WholeInv, NEW s \in {"triaged", "in-resolution", "awaiting-lead"}, OwesInv(s),
         NEW i \in Jobs, ChangeJobStep(i), UNCHANGED frontVars
  PROVE  OwesInv(s)'
<1>0. JobTypeOK /\ caseStatus \in [Cases -> CaseStatuses \cup {"none"}]
  BY DEF WholeInv, FrontlineTypeOK, PlatformTypeOK
<1>1. job[i].action \in {"change_prep", "pr_draft_prep"}
  BY DEF ChangeJobStep, ChangePrepStart, ChangePrepToAnalysis, ChangePrepWriteAnalysis,
     ChangePrepToPending, ChangePrepWritePending, PrDraftStart, PrDraftGithub, PrDraftCheck,
     PrDraftWrite, PrDraftLoadCase, PrDraftCaseCheck, PrDraftCaseWrite, At
<1>2. \A m \in Jobs \ {i} : job'[m] = job[m]
  BY <1>0 DEF ChangeJobStep, ChangePrepStart, ChangePrepToAnalysis, ChangePrepWriteAnalysis,
     ChangePrepToPending, ChangePrepWritePending, PrDraftStart, PrDraftGithub, PrDraftCheck,
     PrDraftWrite, PrDraftLoadCase, PrDraftCaseCheck, PrDraftCaseWrite, Goto, Finish, JobTypeOK
<1>3. SetsNobody(s)
  <2>1. \/ UNCHANGED caseStatus
        \/ \E d : caseStatus' = [caseStatus EXCEPT ![d] = "resolved"]
    BY DEF ChangeJobStep, ChangePrepStart, ChangePrepToAnalysis, ChangePrepWriteAnalysis,
       ChangePrepToPending, ChangePrepWritePending, PrDraftStart, PrDraftGithub, PrDraftCheck,
       PrDraftWrite, PrDraftLoadCase, PrDraftCaseCheck, PrDraftCaseWrite, dbVars
  <2> QED BY <1>0, <2>1 DEF SetsNobody
<1>4. UNCHANGED req
  BY DEF ChangeJobStep, ChangePrepStart, ChangePrepToAnalysis, ChangePrepWriteAnalysis,
     ChangePrepToPending, ChangePrepWritePending, PrDraftStart, PrDraftGithub, PrDraftCheck,
     PrDraftWrite, PrDraftLoadCase, PrDraftCaseCheck, PrDraftCaseWrite
<1>5. Owes(s)'
  <2>1. \A m \in Jobs : \/ job'[m] = job[m]
                        \/ job[m].action \notin {"known_issue_match", "auto_reply"}
    BY <1>1, <1>2
  <2> QED BY <1>3, <2>1, OwesUnlessSet DEF OwesInv, Owes, frontVars
<1> QED BY <1>4, <1>5 DEF OwesInv, OnlyOperations, NobodySends

LEMMA ChangeRequestOwes ==
  ASSUME WholeInv, NEW s \in {"triaged", "in-resolution", "awaiting-lead"}, OwesInv(s),
         Harms(s) \cap Operations = {},
         NEW r \in Requests, ChangeRequestStep(r),
         req'[r].op \in Operations \cup {"none", "prMerged", "ciPassed"}, UNCHANGED frontVars
  PROVE  OwesInv(s)'
<1>0. /\ JobTypeOK /\ caseStatus \in [Cases -> CaseStatuses \cup {"none"}]
      /\ req \in [Requests -> Request \cup {FreeRequest}]
  BY DEF WholeInv, FrontlineTypeOK, PlatformTypeOK, RequestTypeOK
<1>1. \A m \in Jobs : job'[m] = job[m] \/ job[m].pc = "free"
  <2>1. UNCHANGED job \/ \E n \in Jobs : \E new : Enqueue(n, new)
    BY DEF ChangeRequestStep, SendToChange, Approve, Reject, Complete, PrMerged, CiPassed,
       SendToChangeCreate, SendToChangeCommit, CrCheck, CrWrite, LoadCase, ApprovePrepCheck,
       ApprovePrepWrite, ApproveDispatch, PrMergedRecord, PrMergedComplete, CiPassedRecord,
       CiPassedComplete, CiPassedResolve
  <2> QED BY <1>0, <2>1 DEF Enqueue, Free, JobTypeOK
<1>2. SetsNobody(s)
  <2>1. \/ UNCHANGED caseStatus
        \/ \E c, to : to \in {"in-change", "resolved"} /\ caseStatus' = [caseStatus EXCEPT ![c] = to]
    BY DEF ChangeRequestStep, SendToChange, Approve, Reject, Complete, PrMerged, CiPassed,
       SendToChangeCreate, SendToChangeCommit, CrCheck, CrWrite, LoadCase, ApprovePrepCheck,
       ApprovePrepWrite, ApproveDispatch, PrMergedRecord, PrMergedComplete, CiPassedRecord,
       CiPassedComplete, CiPassedResolve, dbVars
  <2> QED BY <1>0, <2>1 DEF SetsNobody
<1>3. \A q \in Requests \ {r} : req'[q] = req[q]
  BY <1>0 DEF ChangeRequestStep, SendToChange, Approve, Reject, Complete, PrMerged, CiPassed,
     SendToChangeCreate, SendToChangeCommit, CrCheck, CrWrite, LoadCase, ApprovePrepCheck,
     ApprovePrepWrite, ApproveDispatch, PrMergedRecord, PrMergedComplete, CiPassedRecord,
     CiPassedComplete, CiPassedResolve, Accept, Proceed, Reply
<1>4. req'[r].to # s
  <2>1. CASE \E k \in ChangeRequests : Reject(r, k)
    <3>1. req'[r].op = "reject" /\ req'[r].to = "awaiting-lead"
      BY <1>0, <2>1 DEF Reject, Accept
    <3> QED BY <3>1 DEF Harms, Setters
  <2>2. CASE \/ \E c \in Cases : SendToChange(r, c)
             \/ \E k \in ChangeRequests :
                  Approve(r, k) \/ Complete(r, k) \/ PrMerged(r, k) \/ CiPassed(r, k)
    <3>1. req'[r].to \in {"none", "resolved"}
      BY <1>0, <2>2 DEF SendToChange, Approve, Complete, PrMerged, CiPassed, Accept
    <3> QED BY <3>1
  <2>3. CASE ~(\/ \E c \in Cases : SendToChange(r, c)
               \/ \E k \in ChangeRequests :
                    Approve(r, k) \/ Reject(r, k) \/ Complete(r, k) \/ PrMerged(r, k) \/ CiPassed(r, k))
    <3>1. /\ req[r].pc # "idle"
          /\ \/ \E point : Proceed(r, point)
             \/ Reply(r)
             \/ \E k, point : req' = [req EXCEPT ![r].cr = k, ![r].pc = point]
      BY <2>3 DEF ChangeRequestStep, SendToChangeCreate, SendToChangeCommit, CrCheck, CrWrite,
           LoadCase, ApprovePrepCheck, ApprovePrepWrite, ApproveDispatch, PrMergedRecord,
           PrMergedComplete, CiPassedRecord, CiPassedComplete, CiPassedResolve, Handling
    <3>2. req[r] \in Request
      BY <3>1, HandledIsRequest DEF WholeInv, FrontlineTypeOK, PlatformTypeOK
    <3>3. ASSUME NEW k, NEW point, req' = [req EXCEPT ![r].cr = k, ![r].pc = point]
          PROVE  req'[r].to = req[r].to
      BY <1>0, <3>2, <3>3 DEF Request
    <3>4. ASSUME NEW point, Proceed(r, point)
          PROVE  req'[r].to = req[r].to
      BY <1>0, <3>2, <3>4 DEF Proceed, Request
    <3>5. ASSUME Reply(r)
          PROVE  req'[r].to = "none"
      BY <1>0, <3>5 DEF Reply, FreeRequest
    <3> QED BY <3>1, <3>3, <3>4, <3>5 DEF OwesInv, NobodySends
  <2> QED BY <2>1, <2>2, <2>3
<1>5. Owes(s)'
  BY <1>1, <1>2, OwesUnlessSet DEF OwesInv, Owes, frontVars
<1> QED BY <1>3, <1>4, <1>5 DEF OwesInv, OnlyOperations, NobodySends

LEMMA WholeNextOwes ==
  ASSUME ~MarkCanFail, WholeInv, NEW s \in {"triaged", "in-resolution", "awaiting-lead"},
         Harms(s) \cap Operations = {}, OwesInv(s), [NestFleetNext]_nestFleetVars
  PROVE  OwesInv(s)'
<1>0. FrontlineTypeOK
  BY DEF WholeInv
<1>1. ASSUME [ConsoleNext]_frontlineVars
      PROVE  OwesInv(s)'
  BY <1>0, <1>1, ConsoleNextOwes
<1>2. CASE GitHubStep /\ UNCHANGED frontVars
  BY <1>1, <1>2 DEF GitHubStep, MergeOnGitHub, frontlineVars
<1>3. CASE UNCHANGED nestFleetVars
  BY <1>1, <1>3 DEF nestFleetVars, frontlineVars
<1>4. CASE \E i \in Jobs : JobStep(i)
  BY <1>1, <1>4, ChangeJobOwes DEF JobStep, ConsoleNext, FrontlineNext
<1>5. CASE ConsoleSide
  BY <1>1, <1>5 DEF ConsoleSide, ConsoleNext, FrontlineNext
<1>6. CASE ChangeSide
  BY <1>2, <1>6, ChangeRequestOwes DEF ChangeSide
<1> QED BY <1>3, <1>4, <1>5, <1>6 DEF NestFleetNext

\* In the whole system a triaged case has its Steward as long as nobody sets
\* triaged by hand or corrects a triage.
THEOREM WholeLeavesNoTriaged ==
  ASSUME ~MarkCanFail, Operations \cap {"triageManual", "correctTriage"} = {}
  PROVE  NestFleetSpec => []TriagedHasSteward
<1>0. Harms("triaged") \cap Operations = {}
  BY DEF Harms, Setters
<1>1. NestFleetInit => OwesInv("triaged")
  BY OwesInit DEF NestFleetInit
<1>2. WholeInv /\ OwesInv("triaged") /\ [NestFleetNext]_nestFleetVars => OwesInv("triaged")'
  BY <1>0, WholeNextOwes
<1>3. OwesInv("triaged") => TriagedHasSteward
  BY DEF OwesInv, Owes
<1> QED BY <1>1, <1>2, <1>3, WholeInvHolds, PTL DEF NestFleetSpec

\* A case in resolution has the reply that answers it as long as nobody forwards
\* a case to the resolution team by hand.
THEOREM WholeLeavesNoResolution ==
  ASSUME ~MarkCanFail, "forward" \notin Operations
  PROVE  NestFleetSpec => []InResolutionHasReply
<1>0. Harms("in-resolution") \cap Operations = {}
  BY DEF Harms, Setters
<1>1. NestFleetInit => OwesInv("in-resolution")
  BY OwesInit DEF NestFleetInit
<1>2. WholeInv /\ OwesInv("in-resolution") /\ [NestFleetNext]_nestFleetVars
        => OwesInv("in-resolution")'
  BY <1>0, WholeNextOwes
<1>3. OwesInv("in-resolution") => InResolutionHasReply
  BY DEF OwesInv, Owes
<1> QED BY <1>1, <1>2, <1>3, WholeInvHolds, PTL DEF NestFleetSpec

\* A case that waits for the lead has a draft, or the job that writes it, as long
\* as cases come to the lead from the pipeline alone and no draft is sent.
THEOREM WholeLeavesLeadDraft ==
  ASSUME ~MarkCanFail,
         Operations \cap {"escalate", "reopen", "reject", "sendDraftReply"} = {}
  PROVE  NestFleetSpec => []LeadHasDraft
<1>0. Harms("awaiting-lead") \cap Operations = {}
  BY DEF Harms, Setters
<1>1. NestFleetInit => OwesInv("awaiting-lead")
  BY OwesInit DEF NestFleetInit
<1>2. WholeInv /\ OwesInv("awaiting-lead") /\ [NestFleetNext]_nestFleetVars
        => OwesInv("awaiting-lead")'
  BY <1>0, WholeNextOwes
<1>3. OwesInv("awaiting-lead") => LeadHasDraft
  BY DEF OwesInv, Owes
<1> QED BY <1>1, <1>2, <1>3, WholeInvHolds, PTL DEF NestFleetSpec

-----------------------------------------------------------------------------
(* Work comes to an end.  What the runs check as liveness rests on two     *)
(* facts about single steps, which hold for every number of cases, jobs    *)
(* and requests: a job only ever gets closer to its end, and it gives up   *)
(* only where somebody can see it.  With fair workers (which the prover    *)
(* does not reason about) every job therefore ends.                        *)

\* How far the awaits of a worker's execute() are from the end of an attempt; one
\* order serves all workers.
StepsLeft(point) ==
  CASE point = "queued"                                             -> 11
    [] point = "toAnalysis"                                         -> 10
    [] point = "writeAnalysis"                                      -> 9
    [] point = "agent"                                              -> 8
    [] point \in {"createCr", "check", "toDrafted", "writePending"} -> 7
    [] point \in {"commit", "write", "writeDrafted"}                -> 6
    [] point \in {"sidecar", "email", "save", "loadCase"}           -> 5
    [] point \in {"sidecarJob", "toResolved"}                       -> 4
    [] point = "writeResolved"                                      -> 3
    [] point = "dead"                                               -> 1
    [] OTHER                                                        -> 2   \* audit

\* What a row of the queue has before it: the attempts first, then the awaits.
WorkLeft(row) ==
  IF row.pc = "free" THEN 0 ELSE (RetryLimit - row.attempt) * 20 + StepsLeft(row.pc)

\* A row of the queue that changes has less before it.
WearsOut ==
  \A m \in Jobs : job[m].pc # "free" /\ job'[m] # job[m] => WorkLeft(job'[m]) < WorkLeft(job[m])

\* The four things that happen to a row that is in the queue.
LEMMA WornOut ==
  ASSUME JobTypeOK, NEW i \in Jobs, job[i].pc # "free",
         \A m \in Jobs \ {i} : job'[m] = job[m] \/ job[m].pc = "free",
         \/ Finish(i)
         \/ Fail(i) /\ job[i].pc # "dead"
         \/ /\ job'[i].attempt = job[i].attempt
            /\ StepsLeft(job'[i].pc) < StepsLeft(job[i].pc)
  PROVE  WearsOut
<1>0. job[i] \in Job /\ job[i].attempt \in Nat /\ RetryLimit \in Nat /\ job[i].attempt <= RetryLimit
  BY SlotHoldsJob, PlatformAssumption DEF Job
<1>1. /\ StepsLeft(job[i].pc) \in 1..11 /\ StepsLeft(job'[i].pc) \in 1..11
      /\ job[i].pc # "dead" => StepsLeft(job[i].pc) > 1
  BY DEF StepsLeft
<1>2. CASE Finish(i)
  BY <1>0, <1>1, <1>2 DEF Finish, FreeJob, WorkLeft, WearsOut, JobTypeOK
<1>3. CASE Fail(i) /\ job[i].pc # "dead"
  <2>1. CASE job[i].attempt < RetryLimit
    <3>1. job'[i].attempt = job[i].attempt + 1 /\ job'[i].pc = "queued"
      BY <1>0, <1>3, <2>1 DEF Fail, Job, JobTypeOK
    <3> QED BY <1>0, <1>1, <3>1 DEF WorkLeft, WearsOut, StepsLeft
  <2>2. CASE ~(job[i].attempt < RetryLimit)
    <3>1. job'[i].attempt = job[i].attempt /\ job'[i].pc = "dead"
      BY <1>0, <1>3, <2>2 DEF Fail, Job, JobTypeOK
    <3>2. StepsLeft("dead") = 1
      BY DEF StepsLeft
    <3>3. WorkLeft(job'[i]) < WorkLeft(job[i])
      BY <1>0, <1>1, <1>3, <3>1, <3>2 DEF WorkLeft
    <3> QED BY <3>3 DEF WearsOut
  <2> QED BY <2>1, <2>2
<1>4. CASE /\ job'[i].attempt = job[i].attempt
           /\ StepsLeft(job'[i].pc) < StepsLeft(job[i].pc)
  <2>1. WorkLeft(job'[i]) < WorkLeft(job[i])
    BY <1>0, <1>1, <1>4 DEF WorkLeft
  <2> QED BY <2>1 DEF WearsOut
<1> QED BY <1>2, <1>3, <1>4

\* A worker that goes on to a later await ...
LEMMA GoesOn ==
  ASSUME JobTypeOK, NEW i \in Jobs, job[i].pc # "free",
         NEW point, StepsLeft(point) < StepsLeft(job[i].pc),
         Goto(i, point)
  PROVE  WearsOut
<1>1. job \in [Jobs -> Job \cup {FreeJob}] /\ job[i] \in Job
  BY SlotHoldsJob DEF JobTypeOK
<1>3. job'[i].attempt = job[i].attempt /\ job'[i].pc = point
  BY <1>1 DEF Goto, Job
<1>4. \A m \in Jobs \ {i} : job'[m] = job[m]
  BY <1>1 DEF Goto, Job
<1> QED BY <1>3, <1>4, WornOut

\* ... inserts another job with it ...
LEMMA GoesOnEnqueuing ==
  ASSUME JobTypeOK, NEW i \in Jobs, job[i].pc # "free",
         NEW point, StepsLeft(point) < StepsLeft(job[i].pc), NEW n \in Jobs, NEW new,
         GotoAndEnqueue(i, point, n, new)
  PROVE  WearsOut
<1>1. job \in [Jobs -> Job \cup {FreeJob}] /\ job[i] \in Job
  BY SlotHoldsJob DEF JobTypeOK
<1>2. n # i /\ job[n].pc = "free"
  BY DEF GotoAndEnqueue, Free
<1>3. job'[i].attempt = job[i].attempt /\ job'[i].pc = point
  BY <1>1, <1>2 DEF GotoAndEnqueue, Job
<1>4. \A m \in Jobs \ {i} : job'[m] = job[m] \/ job[m].pc = "free"
  BY <1>1, <1>2 DEF GotoAndEnqueue, Job
<1> QED BY <1>3, <1>4, WornOut

\* ... notes what its agent decided ...
LEMMA GoesOnPlanning ==
  ASSUME JobTypeOK, NEW i \in Jobs, job[i].pc # "free",
         NEW point, StepsLeft(point) < StepsLeft(job[i].pc), NEW plan,
         job' = [job EXCEPT ![i].plan = plan, ![i].pc = point]
  PROVE  WearsOut
<1>1. job \in [Jobs -> Job \cup {FreeJob}] /\ job[i] \in Job
  BY SlotHoldsJob DEF JobTypeOK
<1>3. job'[i].attempt = job[i].attempt /\ job'[i].pc = point
  BY <1>1 DEF Job
<1>4. \A m \in Jobs \ {i} : job'[m] = job[m]
  BY <1>1 DEF Job
<1> QED BY <1>3, <1>4, WornOut

\* ... or which change request it has created.
LEMMA GoesOnOwning ==
  ASSUME JobTypeOK, NEW i \in Jobs, job[i].pc # "free",
         NEW point, StepsLeft(point) < StepsLeft(job[i].pc), NEW k,
         job' = [job EXCEPT ![i].cr = k, ![i].pc = point]
  PROVE  WearsOut
<1>1. job \in [Jobs -> Job \cup {FreeJob}] /\ job[i] \in Job
  BY SlotHoldsJob DEF JobTypeOK
<1>3. job'[i].attempt = job[i].attempt /\ job'[i].pc = point
  BY <1>1 DEF Job
<1>4. \A m \in Jobs \ {i} : job'[m] = job[m]
  BY <1>1 DEF Job
<1> QED BY <1>3, <1>4, WornOut

\* A worker whose attempt ends, well or badly.
LEMMA Ends ==
  ASSUME JobTypeOK, NEW i \in Jobs, job[i].pc # "free",
         Finish(i) \/ (Fail(i) /\ job[i].pc # "dead")
  PROVE  WearsOut
<1>1. \A m \in Jobs \ {i} : job'[m] = job[m]
  BY DEF Finish, Fail, JobTypeOK
<1> QED BY <1>1, WornOut

\* The pipeline's workers.
LEMMA FrontlineWearsOut ==
  ASSUME FrontlineTypeOK, NEW i \in Jobs, FrontlineJobStep(i)
  PROVE  WearsOut
<1>0. JobTypeOK
  BY DEF FrontlineTypeOK, PlatformTypeOK
<1>o. /\ StepsLeft("queued") = 11 /\ StepsLeft("agent") = 8
      /\ StepsLeft("createCr") = 7 /\ StepsLeft("check") = 7
      /\ StepsLeft("commit") = 6 /\ StepsLeft("write") = 6
      /\ StepsLeft("sidecar") = 5 /\ StepsLeft("email") = 5 /\ StepsLeft("save") = 5
      /\ StepsLeft("sidecarJob") = 4 /\ StepsLeft("audit") = 2
  BY DEF StepsLeft
<1>1. CASE TriageStep(i)
  <2>1. CASE TriageStart(i)
    BY <1>0, <1>o, <2>1, GoesOn, Ends DEF TriageStart, At
  <2>2. CASE TriageCommit(i)
    <3>1. PICK n \in Jobs :
            GotoAndEnqueue(i, "audit", n,
                           NewJob("known_issue_match", job[i].case, None, FALSE))
      BY <2>2 DEF TriageCommit
    <3>2. job[i].pc = "agent"
      BY <2>2 DEF TriageCommit, At
    <3>3. StepsLeft("audit") < StepsLeft(job[i].pc)
      BY <1>o, <3>2
    <3> QED BY <1>0, <3>1, <3>2, <3>3, GoesOnEnqueuing
  <2> QED BY <1>1, <2>1, <2>2 DEF TriageStep
<1>2. CASE StewardRoute(i)
  <2>1. job[i] \in Job /\ job[i].pc = "agent"
    BY <1>0, <1>2, SlotHoldsJob DEF StewardRoute, At
  <2>2. PICK plan \in {"in-change", "in-resolution", "awaiting-lead"} :
          LET routed == [job EXCEPT ![i].plan = plan,
                           ![i].pc = IF plan = "in-change" THEN "createCr" ELSE "commit"]
          IN \/ job' = routed
             \/ \E n \in Jobs :
                  /\ Free(n)
                  /\ job' = [routed EXCEPT ![n] =
                               NewJob("outage_routing", job[i].case, None, FALSE)]
    BY <1>2 DEF StewardRoute
  <2> DEFINE routed == [job EXCEPT ![i].plan = plan,
                          ![i].pc = IF plan = "in-change" THEN "createCr" ELSE "commit"]
  <2>3. /\ routed \in [Jobs -> {routed[m] : m \in Jobs}]
        /\ routed[i].pc \in {"createCr", "commit"} /\ routed[i].attempt = job[i].attempt
        /\ \A m \in Jobs \ {i} : routed[m] = job[m]
    BY <1>0, <2>1 DEF JobTypeOK, Job
  <2>4. \/ job' = routed
        \/ \E n \in Jobs : /\ job[n].pc = "free"
                           /\ \E new : job' = [routed EXCEPT ![n] = new]
    BY <2>2 DEF Free
  <2> HIDE DEF routed
  <2>5. /\ job'[i].pc \in {"createCr", "commit"} /\ job'[i].attempt = job[i].attempt
        /\ \A m \in Jobs \ {i} : job'[m] = job[m] \/ job[m].pc = "free"
    BY <2>1, <2>3, <2>4
  <2>6. StepsLeft(job'[i].pc) < StepsLeft(job[i].pc)
    BY <2>1, <2>5 DEF StepsLeft
  <2> QED BY <1>0, <2>1, <2>5, <2>6, WornOut
<1>3. CASE StewardStart(i) \/ StewardCreateCr(i) \/ StewardSidecar(i)
  <2>1. CASE StewardStart(i)
    BY <1>0, <1>o, <2>1, GoesOn, Ends DEF StewardStart, At
  <2>2. CASE StewardCreateCr(i)
    <3>1. PICK k \in ChangeRequests : job' = [job EXCEPT ![i].cr = k, ![i].pc = "commit"]
      BY <2>2 DEF StewardCreateCr
    <3>2. job[i].pc = "createCr"
      BY <2>2 DEF StewardCreateCr, At
    <3>3. StepsLeft("commit") < StepsLeft(job[i].pc)
      BY <1>o, <3>2
    <3> QED BY <1>0, <3>1, <3>2, <3>3, GoesOnOwning
  <2>3. CASE StewardSidecar(i)
    <3>1. job[i].pc = "sidecar"
      BY <2>3 DEF StewardSidecar, At
    <3>2. StepsLeft("audit") < StepsLeft(job[i].pc) /\ StepsLeft("sidecarJob") < StepsLeft(job[i].pc)
      BY <1>o, <3>1
    <3>3. CASE Goto(i, "audit")
      BY <1>0, <3>1, <3>2, <3>3, GoesOn
    <3>4. ASSUME NEW k \in ChangeRequests, job' = [job EXCEPT ![i].cr = k, ![i].pc = "sidecarJob"]
          PROVE  WearsOut
      BY <1>0, <3>1, <3>2, <3>4, GoesOnOwning
    <3> QED BY <2>3, <3>3, <3>4 DEF StewardSidecar
  <2> QED BY <1>3, <2>1, <2>2, <2>3
<1>4. CASE StewardCommit(i) \/ StewardSidecarDispatch(i)
  <2>1. CASE StewardCommit(i)
    BY <1>0, <1>o, <2>1, GoesOn, GoesOnEnqueuing DEF StewardCommit, At
  <2>2. CASE StewardSidecarDispatch(i)
    <3>1. job[i].pc = "sidecarJob"
      BY <2>2 DEF StewardSidecarDispatch, At
    <3>2. StepsLeft("audit") < StepsLeft(job[i].pc)
      BY <1>o, <3>1
    <3>3. ASSUME NEW n \in Jobs, NEW new, GotoAndEnqueue(i, "audit", n, new)
          PROVE  WearsOut
      BY <1>0, <3>1, <3>2, <3>3, GoesOnEnqueuing
    <3>4. CASE Goto(i, "audit")
      BY <1>0, <3>1, <3>2, <3>4, GoesOn
    <3> QED BY <2>2, <3>3, <3>4 DEF StewardSidecarDispatch
  <2> QED BY <1>4, <2>1, <2>2
<1>5. CASE AutoReplyStep(i)
  <2>1. CASE AutoReplyStart(i)
    BY <1>0, <1>o, <2>1, GoesOn, Ends DEF AutoReplyStart, At
  <2>2. CASE AutoReplyGate(i)
    <3>1. PICK plan, point : /\ point \in {"save", "check"}
                             /\ job' = [job EXCEPT ![i].plan = plan, ![i].pc = point]
      BY <2>2 DEF AutoReplyGate
    <3>2. job[i].pc = "agent"
      BY <2>2 DEF AutoReplyGate, At
    <3>3. StepsLeft(point) < StepsLeft(job[i].pc)
      BY <1>o, <3>1, <3>2
    <3> QED BY <1>0, <3>1, <3>2, <3>3, GoesOnPlanning
  <2>3. CASE AutoReplyCheck(i) \/ AutoReplyWrite(i)
    BY <1>0, <1>o, <2>3, GoesOn DEF AutoReplyCheck, AutoReplyWrite, At
  <2>4. CASE AutoReplyEmail(i) \/ AutoReplySave(i)
    BY <1>0, <1>o, <2>4, GoesOn DEF AutoReplyEmail, AutoReplySave, At
  <2> QED BY <1>5, <2>1, <2>2, <2>3, <2>4 DEF AutoReplyStep
<1>6. CASE OutageStep(i)
  BY <1>0, <1>o, <1>6, GoesOn, Ends DEF OutageStep, OutageStart, OutageFinish, At
<1>7. CASE QueueStep(i)
  <2>1. job[i].pc # "free" /\ (Finish(i) \/ (Fail(i) /\ job[i].pc # "dead"))
    BY <1>7 DEF QueueStep, WorkerFinish, JobFails, DeadLetter, Running
  <2> QED BY <1>0, <2>1, Ends
<1> QED BY <1>1, <1>2, <1>3, <1>4, <1>5, <1>6, <1>7 DEF FrontlineJobStep, StewardStep

\* The workers of change control.
LEMMA ChangeWearsOut ==
  ASSUME FrontlineTypeOK, NEW i \in Jobs, ChangeJobStep(i)
  PROVE  WearsOut
<1>0. JobTypeOK
  BY DEF FrontlineTypeOK, PlatformTypeOK
<1>1. CASE \/ ChangePrepStart(i) \/ ChangePrepToAnalysis(i) \/ ChangePrepWriteAnalysis(i)
           \/ ChangePrepToPending(i) \/ ChangePrepWritePending(i)
  BY <1>0, <1>1, GoesOn
     DEF ChangePrepStart, ChangePrepToAnalysis, ChangePrepWriteAnalysis, ChangePrepToPending,
         ChangePrepWritePending, At, StepsLeft
<1>2. CASE PrDraftStart(i) \/ PrDraftCheck(i) \/ PrDraftWrite(i)
  BY <1>0, <1>2, GoesOn, Ends DEF PrDraftStart, PrDraftCheck, PrDraftWrite, At, StepsLeft
<1>4. CASE PrDraftGithub(i)
  <2>1. PICK plan : job' = [job EXCEPT ![i].plan = plan, ![i].pc = "toDrafted"]
    BY <1>4 DEF PrDraftGithub
  <2>2. job[i].pc = "agent"
    BY <1>4 DEF PrDraftGithub, At
  <2>3. StepsLeft("toDrafted") < StepsLeft(job[i].pc)
    BY <2>2 DEF StepsLeft
  <2> QED BY <1>0, <2>1, <2>2, <2>3, GoesOnPlanning
<1>3. CASE PrDraftLoadCase(i) \/ PrDraftCaseCheck(i) \/ PrDraftCaseWrite(i)
  BY <1>0, <1>3, GoesOn DEF PrDraftLoadCase, PrDraftCaseCheck, PrDraftCaseWrite, At, StepsLeft
<1> QED BY <1>1, <1>2, <1>3, <1>4 DEF ChangeJobStep

\* A step of the system that runs no worker inserts rows and touches none.
LEMMA RequestsLeaveRows ==
  ASSUME FrontlineTypeOK, ConsoleSide \/ ChangeSide \/ UNCHANGED nestFleetVars
  PROVE  \A m \in Jobs : job'[m] = job[m] \/ job[m].pc = "free"
<1>0. JobTypeOK
  BY DEF FrontlineTypeOK, PlatformTypeOK
<1>1. UNCHANGED job \/ \E n \in Jobs : \E new : Enqueue(n, new)
  <2>1. ASSUME NEW r \in Requests, IngestStep(r) \/ ConsoleStep(r)
        PROVE  UNCHANGED job \/ \E n \in Jobs : \E new : Enqueue(n, new)
    BY <2>1 DEF IngestStep, IngestCreate, CaseCheck, CaseWrite, DispatchCaseJob, RequestFails,
       ConsoleStep, TransitionCall, SendDraftReplyStep, CorrectTriageStep,
       Escalate, Forward, Resolve, Reopen, DraftClarification, TriageManual,
       SignalReceived, ConsoleCall, Retry, SendDraftReply, CorrectTriage, SendDraftReplyEmail,
       SendDraftReplyClear, CorrectTriageLoad, CorrectTriageCancel, CorrectTriageWrite,
       CorrectTriageDispatch
  <2>2. ASSUME NEW r \in Requests, ChangeRequestStep(r)
        PROVE  UNCHANGED job \/ \E n \in Jobs : \E new : Enqueue(n, new)
    BY <2>2 DEF ChangeRequestStep, SendToChange, Approve, Reject, Complete, PrMerged, CiPassed,
       SendToChangeCreate, SendToChangeCommit, CrCheck, CrWrite, LoadCase, ApprovePrepCheck,
       ApprovePrepWrite, ApproveDispatch, PrMergedRecord, PrMergedComplete, CiPassedRecord,
       CiPassedComplete, CiPassedResolve
  <2>3. CASE GitHubStep
    BY <2>3 DEF GitHubStep, MergeOnGitHub, platformVars
  <2> QED BY <2>1, <2>2, <2>3 DEF ConsoleSide, ChangeSide, nestFleetVars, platformVars
<1> QED BY <1>0, <1>1 DEF Enqueue, Free, JobTypeOK

\* Whatever fails, is retried or races: every step that touches a row of the queue
\* brings it nearer to its end, so no job runs for ever and none is revived.
THEOREM JobsWearOut == NestFleetSpec => [][WearsOut]_nestFleetVars
<1>1. WholeInv /\ [NestFleetNext]_nestFleetVars => [WearsOut]_nestFleetVars
  <2> SUFFICES ASSUME WholeInv, [NestFleetNext]_nestFleetVars
               PROVE  WearsOut
    OBVIOUS
  <2>1. FrontlineTypeOK
    BY DEF WholeInv
  <2>2. ASSUME ConsoleSide \/ ChangeSide \/ UNCHANGED nestFleetVars
        PROVE  WearsOut
    BY <2>1, <2>2, RequestsLeaveRows DEF WearsOut
  <2> QED BY <2>1, <2>2, FrontlineWearsOut, ChangeWearsOut DEF NestFleetNext, JobStep
<1> QED BY <1>1, WholeInvHolds, PTL DEF NestFleetSpec

\* Job i has still to triage case c, to draft change request k.
WillTriage(i, c) == Serves(i, "triage", c) /\ job[i].pc \in {"queued", "agent", "dead"}

WillDraftChange(i, k) ==
  /\ job[i].action = "pr_draft_prep" /\ job[i].cr = k
  /\ job[i].pc \in {"queued", "agent", "toDrafted", "writeDrafted", "dead"}

\* A job that is to take a row out of its status stays at it until the row has left
\* that status, by this job or otherwise; a draft may also end with the failed case.
StaysAtIt(i) ==
  /\ \A c \in Cases :
       /\ caseStatus[c] = "enriching" /\ WillTriage(i, c) =>
            caseStatus'[c] # "enriching" \/ WillTriage(i, c)'
       /\ caseStatus[c] = "triaged" /\ WillRoute(i, c) =>
            caseStatus'[c] # "triaged" \/ WillRoute(i, c)'
       /\ caseStatus[c] = "in-resolution" /\ WillAnswer(i, c) =>
            caseStatus'[c] # "in-resolution" \/ WillAnswer(i, c)'
  /\ \A k \in ChangeRequests :
       crStatus[k] = "implementation-prep" /\ WillDraftChange(i, k) =>
         \/ crStatus'[k] # "implementation-prep"
         \/ WillDraftChange(i, k)'
         \/ caseStatus'[job[i].case] = "processing-failed"

NothingDropped == \A i \in Jobs : StaysAtIt(i)

\* A job whose row is not touched.
LEMMA UntouchedStays ==
  ASSUME NEW i \in Jobs, job'[i] = job[i] \/ job[i].pc = "free"
  PROVE  StaysAtIt(i)
BY DEF StaysAtIt, WillTriage, WillRoute, WillAnswer, WillDraftChange, Serves

\* A job that goes on short of the end of its work, or whose attempt has failed.
LEMMA GoingOnStays ==
  ASSUME NEW i \in Jobs, job[i].pc # "free",
         job'[i].action = job[i].action /\ job'[i].case = job[i].case,
         job'[i].cr = job[i].cr \/ job[i].action # "pr_draft_prep",
         job'[i].forced = job[i].forced,
         \/ job'[i].pc \in {"queued", "dead"}
         \/ job[i].action = "triage" /\ job'[i].pc = "agent"
         \/ job[i].action = "known_issue_match" /\ job'[i].pc \in {"agent", "createCr", "commit"}
         \/ job[i].action = "auto_reply" /\ job'[i].pc \in {"agent", "check", "write"}
         \/ job[i].action = "auto_reply" /\ job[i].forced
         \/ job[i].action = "pr_draft_prep" /\ job'[i].pc \in {"agent", "toDrafted", "writeDrafted"}
         \/ job[i].action \in {"outage_routing", "change_prep"}
  PROVE  StaysAtIt(i)
BY DEF StaysAtIt, WillTriage, WillRoute, WillAnswer, WillDraftChange, Serves

\* A job past its work.
LEMMA PastWorkStays ==
  ASSUME NEW i \in Jobs,
         \/ job[i].pc \in {"audit", "sidecar", "sidecarJob", "email", "save", "loadCase",
                           "toResolved", "writeResolved"}
         \/ job[i].action \in {"outage_routing", "change_prep"}
  PROVE  StaysAtIt(i)
BY DEF StaysAtIt, WillTriage, WillRoute, WillAnswer, WillDraftChange, Serves

\* The fields that an attempt keeps.
LEMMA GotoKeeps ==
  ASSUME JobTypeOK, NEW i \in Jobs, job[i].pc # "free", NEW point, Goto(i, point)
  PROVE  /\ job'[i].action = job[i].action /\ job'[i].case = job[i].case
         /\ job'[i].cr = job[i].cr /\ job'[i].forced = job[i].forced /\ job'[i].pc = point
<1>1. job \in [Jobs -> Job \cup {FreeJob}] /\ job[i] \in Job
  BY SlotHoldsJob DEF JobTypeOK
<1> QED BY <1>1 DEF Goto, Job

LEMMA FailKeeps ==
  ASSUME JobTypeOK, NEW i \in Jobs, job[i].pc # "free", Fail(i)
  PROVE  /\ job'[i].action = job[i].action /\ job'[i].case = job[i].case
         /\ job'[i].cr = job[i].cr /\ job'[i].forced = job[i].forced
         /\ job'[i].pc \in {"queued", "dead"}
<1>1. job \in [Jobs -> Job \cup {FreeJob}] /\ job[i] \in Job
  BY SlotHoldsJob DEF JobTypeOK
<1>2. CASE job[i].attempt < RetryLimit
  BY <1>1, <1>2 DEF Fail, Job
<1>3. CASE ~(job[i].attempt < RetryLimit)
  BY <1>1, <1>3 DEF Fail, Job
<1> QED BY <1>2, <1>3

\* The queue: a failed attempt is repeated, and a dead job settles its case.
LEMMA QueueStays ==
  ASSUME ~MarkCanFail, FrontlineTypeOK, NEW i \in Jobs, QueueStep(i)
  PROVE  StaysAtIt(i)
<1>0. JobTypeOK /\ caseStatus \in [Cases -> CaseStatuses \cup {"none"}]
  BY DEF FrontlineTypeOK, PlatformTypeOK
<1>1. CASE WorkerFinish(i)
  BY <1>1, PastWorkStays DEF WorkerFinish
<1>2. CASE JobFails(i)
  <2>1. job[i].pc # "free" /\ Fail(i)
    BY <1>2 DEF JobFails, Running
  <2> QED BY <1>0, <2>1, FailKeeps, GoingOnStays
<1>3. CASE DeadLetter(i)
  <2>1. job[i].case \in Cases
    BY <1>0, <1>3, SlotHoldsJob DEF DeadLetter, Job
  <2>2. caseStatus'[job[i].case] = "processing-failed"
    BY <1>0, <1>3, <2>1 DEF DeadLetter
  <2> QED BY <2>2 DEF StaysAtIt, WillTriage, WillRoute, WillAnswer, Serves
<1> QED BY <1>1, <1>2, <1>3 DEF QueueStep

LEMMA TriageStays ==
  ASSUME FrontlineTypeOK, NEW i \in Jobs, TriageStep(i)
  PROVE  StaysAtIt(i)
<1>0. JobTypeOK /\ caseStatus \in [Cases -> CaseStatuses \cup {"none"}]
  BY DEF FrontlineTypeOK, PlatformTypeOK
<1>1. job[i].action = "triage" /\ job[i].pc # "free" /\ job[i].case \in Cases
  <2>1. job[i].action = "triage" /\ job[i].pc # "free"
    BY DEF TriageStep, TriageStart, TriageCommit, At
  <2> QED BY <1>0, <2>1, SlotHoldsJob DEF Job
<1>2. CASE TriageStart(i) /\ caseStatus[job[i].case] = "enriching"
  BY <1>0, <1>1, <1>2, GotoKeeps, GoingOnStays DEF TriageStart
<1>3. CASE caseStatus[job[i].case] # "enriching" \/ caseStatus'[job[i].case] # "enriching"
  BY <1>1, <1>3 DEF StaysAtIt, WillTriage, WillRoute, WillAnswer, WillDraftChange, Serves
<1>4. CASE TriageCommit(i)
  <2>1. caseStatus'[job[i].case] = "triaged"
    BY <1>0, <1>1, <1>4 DEF TriageCommit
  <2> QED BY <1>3, <2>1
<1> QED BY <1>2, <1>3, <1>4 DEF TriageStep

LEMMA StewardStays ==
  ASSUME FrontlineTypeOK, NEW i \in Jobs, StewardStep(i)
  PROVE  StaysAtIt(i)
<1>0. JobTypeOK /\ caseStatus \in [Cases -> CaseStatuses \cup {"none"}]
  BY DEF FrontlineTypeOK, PlatformTypeOK
<1>1. /\ job[i].action = "known_issue_match" /\ job[i].pc # "free" /\ job[i] \in Job
      /\ job[i].case \in Cases
  <2>1. job[i].action = "known_issue_match" /\ job[i].pc # "free"
    BY DEF StewardStep, StewardStart, StewardRoute, StewardCreateCr, StewardCommit,
       StewardSidecar, StewardSidecarDispatch, At
  <2> QED BY <1>0, <2>1, SlotHoldsJob DEF Job
<1>2. CASE caseStatus[job[i].case] # "triaged" \/ caseStatus'[job[i].case] # "triaged"
  BY <1>1, <1>2 DEF StaysAtIt, WillTriage, WillRoute, WillAnswer, WillDraftChange, Serves
<1>3. CASE StewardStart(i) /\ caseStatus[job[i].case] = "triaged"
  BY <1>0, <1>1, <1>3, GotoKeeps, GoingOnStays DEF StewardStart
<1>4. CASE StewardRoute(i)
  <2>1. PICK plan \in {"in-change", "in-resolution", "awaiting-lead"} :
          LET routed == [job EXCEPT ![i].plan = plan,
                           ![i].pc = IF plan = "in-change" THEN "createCr" ELSE "commit"]
          IN \/ job' = routed
             \/ \E n \in Jobs :
                  /\ Free(n)
                  /\ job' = [routed EXCEPT ![n] =
                               NewJob("outage_routing", job[i].case, None, FALSE)]
    BY <1>4 DEF StewardRoute
  <2> DEFINE routed == [job EXCEPT ![i].plan = plan,
                          ![i].pc = IF plan = "in-change" THEN "createCr" ELSE "commit"]
  <2>2. /\ routed \in [Jobs -> {routed[m] : m \in Jobs}]
        /\ routed[i].pc \in {"createCr", "commit"} /\ routed[i].action = job[i].action
        /\ routed[i].case = job[i].case /\ routed[i].forced = job[i].forced
    BY <1>0, <1>1 DEF JobTypeOK, Job
  <2>3. \/ job' = routed
        \/ \E n \in Jobs : n # i /\ \E new : job' = [routed EXCEPT ![n] = new]
    BY <1>1, <2>1 DEF Free
  <2> HIDE DEF routed
  <2>4. /\ job'[i].pc \in {"createCr", "commit"} /\ job'[i].action = job[i].action
        /\ job'[i].case = job[i].case /\ job'[i].forced = job[i].forced
    BY <2>2, <2>3
  <2> QED BY <1>1, <2>4, GoingOnStays
<1>5. CASE StewardCreateCr(i)
  <2>1. PICK k : job' = [job EXCEPT ![i].cr = k, ![i].pc = "commit"]
    BY <1>5 DEF StewardCreateCr
  <2>2. /\ job'[i].pc = "commit" /\ job'[i].action = job[i].action
        /\ job'[i].case = job[i].case /\ job'[i].forced = job[i].forced
    BY <1>0, <1>1, <2>1 DEF JobTypeOK, Job
  <2> QED BY <1>1, <2>2, GoingOnStays
<1>6. CASE StewardCommit(i)
  <2>1. caseStatus'[job[i].case] = job[i].plan /\ job[i].plan # "triaged"
    BY <1>0, <1>1, <1>6 DEF StewardCommit, Job, Plans
  <2> QED BY <1>2, <2>1
<1>7. CASE StewardSidecar(i) \/ StewardSidecarDispatch(i)
  BY <1>7, PastWorkStays DEF StewardSidecar, StewardSidecarDispatch, At
<1> QED BY <1>2, <1>3, <1>4, <1>5, <1>6, <1>7 DEF StewardStep, StewardStart

LEMMA ReplyStays ==
  ASSUME FrontlineTypeOK, NEW i \in Jobs, AutoReplyStep(i)
  PROVE  StaysAtIt(i)
<1>0. JobTypeOK /\ caseStatus \in [Cases -> CaseStatuses \cup {"none"}]
  BY DEF FrontlineTypeOK, PlatformTypeOK
<1>1. /\ job[i].action = "auto_reply" /\ job[i].pc # "free" /\ job[i] \in Job
      /\ job[i].case \in Cases
  <2>1. job[i].action = "auto_reply" /\ job[i].pc # "free"
    BY DEF AutoReplyStep, AutoReplyStart, AutoReplyGate, AutoReplyCheck, AutoReplyWrite,
       AutoReplyEmail, AutoReplySave, At
  <2> QED BY <1>0, <2>1, SlotHoldsJob DEF Job
<1>2. CASE AutoReplyStart(i) \/ AutoReplyCheck(i)
  <2>1. CASE Fail(i)
    BY <1>0, <1>1, <2>1, FailKeeps, GoingOnStays
  <2>2. CASE Goto(i, "agent") \/ Goto(i, "write")
    BY <1>0, <1>1, <2>2, GotoKeeps, GoingOnStays
  <2> QED BY <1>2, <2>1, <2>2 DEF AutoReplyStart, AutoReplyCheck
<1>3. CASE AutoReplyGate(i)
  <2>1. PICK plan : job' = [job EXCEPT ![i].plan = plan,
                                       ![i].pc = IF job[i].forced THEN "save" ELSE "check"]
    BY <1>3 DEF AutoReplyGate
  <2>2. /\ job'[i].action = job[i].action /\ job'[i].case = job[i].case
        /\ job'[i].forced = job[i].forced
        /\ ~job[i].forced => job'[i].pc = "check"
    BY <1>0, <1>1, <2>1 DEF JobTypeOK, Job
  <2> QED BY <1>1, <2>2, GoingOnStays
<1>4. CASE AutoReplyWrite(i)
  <2>1. caseStatus'[job[i].case] \in {"resolved", "awaiting-lead"}
    BY <1>0, <1>1, <1>4 DEF AutoReplyWrite, ReplyTarget
  <2> QED BY <1>1, <2>1 DEF StaysAtIt, WillTriage, WillRoute, WillAnswer, WillDraftChange, Serves
<1>5. CASE AutoReplyEmail(i) \/ AutoReplySave(i)
  BY <1>5, PastWorkStays DEF AutoReplyEmail, AutoReplySave, At
<1> QED BY <1>2, <1>3, <1>4, <1>5 DEF AutoReplyStep

LEMMA ChangeStays ==
  ASSUME FrontlineTypeOK, NEW i \in Jobs, ChangeJobStep(i)
  PROVE  StaysAtIt(i)
<1>0. /\ JobTypeOK
      /\ crStatus \in [ChangeRequests -> CrStatuses \cup {"none"}]
  BY DEF FrontlineTypeOK, PlatformTypeOK
<1>1. CASE \/ ChangePrepStart(i) \/ ChangePrepToAnalysis(i) \/ ChangePrepWriteAnalysis(i)
           \/ ChangePrepToPending(i) \/ ChangePrepWritePending(i)
  <2>1. job[i].action = "change_prep"
    BY <1>1 DEF ChangePrepStart, ChangePrepToAnalysis, ChangePrepWriteAnalysis,
       ChangePrepToPending, ChangePrepWritePending, At
  <2> QED BY <2>1, PastWorkStays
<1>2. CASE PrDraftStart(i) \/ PrDraftGithub(i) \/ PrDraftCheck(i) \/ PrDraftWrite(i)
  <2>1. job[i].action = "pr_draft_prep" /\ job[i].pc # "free" /\ job[i] \in Job
    <3>1. job[i].action = "pr_draft_prep" /\ job[i].pc # "free"
      BY <1>2 DEF PrDraftStart, PrDraftGithub, PrDraftCheck, PrDraftWrite, At
    <3> QED BY <1>0, <3>1, SlotHoldsJob
  <2>2. CASE Goto(i, "agent") \/ Goto(i, "writeDrafted")
    BY <1>0, <2>1, <2>2, GotoKeeps, GoingOnStays
  <2>3. CASE crStatus[job[i].cr] = "pr-drafted"
    BY <2>1, <2>3 DEF StaysAtIt, WillTriage, WillRoute, WillAnswer, WillDraftChange, Serves
  <2>4. CASE PrDraftGithub(i)
    <3>1. PICK plan : job' = [job EXCEPT ![i].plan = plan, ![i].pc = "toDrafted"]
      BY <2>4 DEF PrDraftGithub
    <3>2. /\ job'[i].pc = "toDrafted" /\ job'[i].action = job[i].action
          /\ job'[i].case = job[i].case /\ job'[i].cr = job[i].cr
          /\ job'[i].forced = job[i].forced
      BY <1>0, <2>1, <3>1 DEF JobTypeOK, Job
    <3> QED BY <2>1, <3>2, GoingOnStays
  <2>5. CASE PrDraftWrite(i)
    <3>1. \A k \in ChangeRequests : k = job[i].cr => crStatus'[k] = "pr-drafted"
      BY <1>0, <2>5 DEF PrDraftWrite
    <3> QED BY <2>1, <3>1 DEF StaysAtIt, WillTriage, WillRoute, WillAnswer, WillDraftChange, Serves
  <2> QED BY <1>2, <2>2, <2>3, <2>4, <2>5 DEF PrDraftStart, PrDraftCheck
<1>3. CASE PrDraftLoadCase(i) \/ PrDraftCaseCheck(i) \/ PrDraftCaseWrite(i)
  BY <1>3, PastWorkStays DEF PrDraftLoadCase, PrDraftCaseCheck, PrDraftCaseWrite, At
<1> QED BY <1>1, <1>2, <1>3 DEF ChangeJobStep

\* A worker touches the row of its own job and rows that are free.
LEMMA WorkersTouchTheirs ==
  ASSUME FrontlineTypeOK, NEW i \in Jobs, FrontlineJobStep(i) \/ ChangeJobStep(i)
  PROVE  \A m \in Jobs \ {i} : job'[m] = job[m] \/ job[m].pc = "free"
<1>0. JobTypeOK
  BY DEF FrontlineTypeOK, PlatformTypeOK
<1>1. CASE StewardRoute(i)
  <2>1. PICK plan \in {"in-change", "in-resolution", "awaiting-lead"} :
          LET routed == [job EXCEPT ![i].plan = plan,
                           ![i].pc = IF plan = "in-change" THEN "createCr" ELSE "commit"]
          IN \/ job' = routed
             \/ \E n \in Jobs :
                  /\ Free(n)
                  /\ job' = [routed EXCEPT ![n] =
                               NewJob("outage_routing", job[i].case, None, FALSE)]
    BY <1>1 DEF StewardRoute
  <2> QED BY <1>0, <2>1 DEF Free, JobTypeOK
<1>2. CASE TriageStep(i) \/ (StewardStep(i) /\ ~StewardRoute(i))
  BY <1>0, <1>2 DEF TriageStep, TriageStart, TriageCommit, StewardStep, StewardStart,
     StewardCreateCr, StewardCommit, StewardSidecar, StewardSidecarDispatch, Goto, Finish,
     GotoAndEnqueue, Free, JobTypeOK
<1>3. CASE AutoReplyStep(i) \/ OutageStep(i) \/ QueueStep(i)
  BY <1>0, <1>3 DEF AutoReplyStep, AutoReplyStart, AutoReplyGate, AutoReplyCheck,
     AutoReplyWrite, AutoReplyEmail, AutoReplySave, OutageStep, OutageStart, OutageFinish,
     QueueStep, WorkerFinish, JobFails, DeadLetter, Goto, Finish, Fail, JobTypeOK
<1>4. CASE ChangeJobStep(i)
  BY <1>0, <1>4 DEF ChangeJobStep, ChangePrepStart, ChangePrepToAnalysis,
     ChangePrepWriteAnalysis, ChangePrepToPending, ChangePrepWritePending, PrDraftStart,
     PrDraftGithub, PrDraftCheck, PrDraftWrite, PrDraftLoadCase, PrDraftCaseCheck,
     PrDraftCaseWrite, Goto, Finish, JobTypeOK
<1> QED BY <1>1, <1>2, <1>3, <1>4 DEF FrontlineJobStep

\* As long as dead letters can be recorded, no job gives up on its row: it goes on
\* working until the row has left the status it waits in, whoever moved it.
THEOREM NothingIsDropped ==
  ASSUME ~MarkCanFail
  PROVE  NestFleetSpec => [][NothingDropped]_nestFleetVars
<1>1. WholeInv /\ [NestFleetNext]_nestFleetVars => [NothingDropped]_nestFleetVars
  <2> SUFFICES ASSUME WholeInv, [NestFleetNext]_nestFleetVars
               PROVE  NothingDropped
    OBVIOUS
  <2>0. FrontlineTypeOK
    BY DEF WholeInv
  <2>1. ASSUME NEW i \in Jobs, FrontlineJobStep(i) \/ ChangeJobStep(i)
        PROVE  NothingDropped
    <3>1. StaysAtIt(i)
      <4>1. CASE OutageStep(i)
        BY <4>1, PastWorkStays DEF OutageStep, OutageStart, OutageFinish, At
      <4> QED BY <2>0, <2>1, <4>1, QueueStays, TriageStays, StewardStays, ReplyStays, ChangeStays
              DEF FrontlineJobStep
    <3>2. \A m \in Jobs \ {i} : StaysAtIt(m)
      BY <2>0, <2>1, WorkersTouchTheirs, UntouchedStays
    <3> QED BY <3>1, <3>2 DEF NothingDropped
  <2>2. ASSUME ConsoleSide \/ ChangeSide \/ UNCHANGED nestFleetVars
        PROVE  NothingDropped
    <3>1. \A m \in Jobs : job'[m] = job[m] \/ job[m].pc = "free"
      BY <2>0, <2>2, RequestsLeaveRows
    <3> QED BY <3>1, UntouchedStays DEF NothingDropped
  <2> QED BY <2>1, <2>2 DEF NestFleetNext, JobStep
<1> QED BY <1>1, WholeInvHolds, PTL DEF NestFleetSpec

-----------------------------------------------------------------------------
(* What the statuses of change requests follow (CrFollowsTable), while one *)
(* request is handled at a time: two of them that race for one change      *)
(* request can leave the table anywhere.  Statements of other jobs and of  *)
(* the one request come between the guard of a transition and its write;   *)
(* the invariant says on which status each of them relies in between, and  *)
(* that no two are entitled to write the same one.                         *)

OneRequest == \A r, s \in Requests : r = s

\* A job that prepares the approval of its change request, or is about to have it
\* prepared; a job that drafts the pull request of its change request.
Prepares(x) ==
  \/ x.action = "change_prep"
  \/ /\ x.action = "known_issue_match"
     /\ x.pc = "sidecarJob" \/ (x.pc = "commit" /\ x.plan = "in-change")

Drafts(x) == x.action = "pr_draft_prep"

NobodyDrafts(k) == \A i \in Jobs : Drafts(job[i]) => job[i].cr # k

\* What a job relies on once it has passed its guard: only a correction has come in
\* between, and nobody has got past the approval, or to a pull request, before it.
JobRelies(x) ==
  /\ x.action = "change_prep" /\ x.pc = "writeAnalysis" =>
       crStatus[x.cr] \in {"draft", "rejected"} /\ x.cr \notin approved
  /\ x.action = "change_prep" /\ x.pc = "writePending" =>
       crStatus[x.cr] \in {"analysis", "rejected"} /\ x.cr \notin approved
  /\ Drafts(x) /\ x.pc = "writeDrafted" =>
       crStatus[x.cr] \in {"implementation-prep", "rejected"} /\ x.cr \notin prLinked

\* What a handler relies on.  One that is about to dispatch a job is the only one
\* that does so for its change request; a correction cancels what is still active.
HandlerRelies(x) ==
  /\ x.op \in {"approve", "reject"} /\ x.pc \in {"crCheck", "crWrite"} =>
       crStatus[x.cr] = "approval-pending"
  /\ x.op = "complete" /\ x.pc \in {"crCheck", "crWrite"} => crStatus[x.cr] = "pr-drafted"
  /\ x.op = "approve" /\ x.pc \in {"prepCheck", "prepWrite"} =>
       crStatus[x.cr] = "approved" /\ NobodyDrafts(x.cr)
  /\ x.op = "approve" /\ x.pc = "dispatch" =>
       crStatus[x.cr] = "implementation-prep" /\ NobodyDrafts(x.cr)
  /\ x.op \in {"ingest", "retry"} /\ x.cr # None => crStatus[x.cr] = "approved"
  /\ x.op = "sendToChange" /\ x.pc = "commit" =>
       \A i \in Jobs : Prepares(job[i]) => job[i].cr # x.cr
  /\ x.op \in {"prMerged", "ciPassed"} /\ x.pc \in {"record", "complete"} => x.cr \in prLinked
  /\ x.left # {} => x.op = "correctTriage" /\ \A k \in x.left : crStatus[k] \in ActiveCrStatuses

PreparersAreAlone ==
  \A i, j \in Jobs :
    Prepares(job[i]) /\ Prepares(job[j]) /\ job[i].cr = job[j].cr => i = j

\* A retry may dispatch a second draft of an approved change request; neither of
\* the two will ever pass its guard.
DraftersAreAlone ==
  \A i, j \in Jobs :
    /\ Drafts(job[i]) /\ Drafts(job[j]) /\ job[i].cr = job[j].cr
    /\ crStatus[job[i].cr] = "implementation-prep" \/ job[i].pc = "writeDrafted"
    => i = j

StatusesAreDue ==
  \A k \in ChangeRequests :
    /\ crStatus[k] \in {"draft", "analysis", "approval-pending"} => k \notin approved
    /\ k \in prLinked => crStatus[k] \in {"pr-drafted", "completed", "rejected"}

TableInv ==
  /\ \A i \in Jobs : JobRelies(job[i])
  /\ \A r \in Requests : HandlerRelies(req[r])
  /\ PreparersAreAlone /\ DraftersAreAlone /\ StatusesAreDue

\* What a step may do to the status of a change request that exists.
StatusesFollow ==
  \A k \in ChangeRequests : crStatus[k] # "none" /\ crStatus'[k] # crStatus[k] =>
    IsCrTransitionAllowed(crStatus[k], crStatus'[k]) \/ ComesBack(k)

\* The transitions that the steps below rely on.
LEMMA TransitionsAllowed ==
  /\ \A s : /\ IsCrTransitionAllowed(s, "analysis") <=> s = "draft"
            /\ IsCrTransitionAllowed(s, "approval-pending") <=> s = "analysis"
            /\ IsCrTransitionAllowed(s, "approved") <=> s = "approval-pending"
            /\ IsCrTransitionAllowed(s, "implementation-prep") <=> s = "approved"
            /\ IsCrTransitionAllowed(s, "pr-drafted") <=> s = "implementation-prep"
            /\ IsCrTransitionAllowed(s, "completed") <=> s = "pr-drafted"
  /\ \A s \in ActiveCrStatuses : IsCrTransitionAllowed(s, "rejected")
BY DEF IsCrTransitionAllowed, CrStatuses, CR_TRANSITIONS, ActiveCrStatuses

\* What the invariant WholeInv says of the jobs and requests at hand.
LEMMA TableFacts ==
  ASSUME WholeInv
  PROVE  /\ JobTypeOK /\ RequestTypeOK
         /\ crStatus \in [ChangeRequests -> CrStatuses \cup {"none"}]
         /\ approved \subseteq ChangeRequests /\ prLinked \subseteq approved
         /\ \A k \in ChangeRequests : crStatus[k] = "none" => k \notin approved
         /\ \A i \in Jobs :
              /\ Prepares(job[i]) => job[i].cr \in ChangeRequests /\ crStatus[job[i].cr] # "none"
              /\ Drafts(job[i]) => job[i].cr \in approved
<1>1. /\ JobTypeOK /\ RequestTypeOK
      /\ crStatus \in [ChangeRequests -> CrStatuses \cup {"none"}]
      /\ approved \subseteq ChangeRequests /\ prLinked \subseteq ChangeRequests
      /\ RowsAreSound /\ JobsAreSound /\ StewardsAreSound
  BY DEF WholeInv, ApprovalInv, ChangeControlTypeOK, PlatformTypeOK
<1>2. \A i \in Jobs :
        /\ Prepares(job[i]) => job[i].cr \in ChangeRequests /\ crStatus[job[i].cr] # "none"
        /\ Drafts(job[i]) => job[i].cr \in approved
  BY <1>1 DEF JobsAreSound, StewardsAreSound, Prepares, Drafts
<1> QED BY <1>1, <1>2 DEF RowsAreSound
-----------------------------------------------------------------------------
(* The kinds of step that the system makes, as far as statuses go.         *)

\* Job m goes on, ends, fails, or is inserted, without getting any claim it had not.
ClaimsNothing(m) ==
  /\ Prepares(job'[m]) => Prepares(job[m]) /\ job'[m].cr = job[m].cr
  /\ Drafts(job'[m]) => Drafts(job[m]) /\ job'[m].cr = job[m].cr
  /\ JobRelies(job'[m])
  /\ Drafts(job'[m]) /\ job'[m].pc = "writeDrafted" =>
       job[m].pc = "writeDrafted" \/ crStatus[job'[m].cr] = "implementation-prep"

LEMMA SameJobClaims ==
  ASSUME TableInv, NEW m \in Jobs, job'[m] = job[m]
  PROVE  ClaimsNothing(m)
BY DEF TableInv, ClaimsNothing, JobRelies

\* Nothing is written.
LEMMA NothingWritten ==
  ASSUME TableInv, UNCHANGED <<crStatus, prLinked, approved>>,
         \A m \in Jobs : ClaimsNothing(m),
         \A q \in Requests : HandlerRelies(req'[q])
  PROVE  TableInv' /\ StatusesFollow
<1>1. \A i \in Jobs : JobRelies(job[i])'
  BY DEF ClaimsNothing, JobRelies
<1>2. \A q \in Requests : HandlerRelies(req[q])'
  BY DEF ClaimsNothing, HandlerRelies, NobodyDrafts
<1>3. PreparersAreAlone'
  BY DEF TableInv, PreparersAreAlone, ClaimsNothing
<1>4. DraftersAreAlone'
  BY DEF TableInv, DraftersAreAlone, ClaimsNothing
<1>5. StatusesAreDue' /\ StatusesFollow
  BY DEF TableInv, StatusesAreDue, StatusesFollow
<1> QED BY <1>1, <1>2, <1>3, <1>4, <1>5 DEF TableInv

\* A job writes the status it may write: no other job and no handler relies on the
\* one before.
LEMMA JobWritesStatus ==
  ASSUME WholeInv, TableInv, NEW i \in Jobs,
         \A m \in Jobs \ {i} : job'[m] = job[m],
         job'[i].action = job[i].action, job'[i].cr = job[i].cr,
         job'[i].pc \in {"agent", "audit", "loadCase"},
         NEW k \in ChangeRequests, job[i].cr = k, NEW s,
         crStatus' = [crStatus EXCEPT ![k] = s],
         \/ /\ job[i].action = "change_prep" /\ prLinked' = prLinked
            /\ \/ job[i].pc = "writeAnalysis" /\ s = "analysis"
               \/ job[i].pc = "writePending" /\ s = "approval-pending"
         \/ /\ Drafts(job[i]) /\ prLinked' \in {prLinked, prLinked \cup {k}}
            /\ job[i].pc = "writeDrafted" /\ s = "pr-drafted",
         UNCHANGED <<req, approved>>
  PROVE  TableInv' /\ StatusesFollow
<1>1. \A x \in ChangeRequests : crStatus'[x] = IF x = k THEN s ELSE crStatus[x]
  BY TableFacts
<1>2. \/ /\ job[i].action = "change_prep" /\ k \notin approved /\ prLinked' = prLinked
         /\ \/ crStatus[k] \in {"draft", "rejected"} /\ s = "analysis"
            \/ crStatus[k] \in {"analysis", "rejected"} /\ s = "approval-pending"
      \/ /\ Drafts(job[i]) /\ k \in approved /\ k \notin prLinked
         /\ crStatus[k] \in {"implementation-prep", "rejected"} /\ s = "pr-drafted"
  BY TableFacts DEF TableInv, JobRelies
<1>3. StatusesFollow
  <2>1. IsCrTransitionAllowed(crStatus[k], s) \/ crStatus[k] = "rejected"
    BY <1>2, TransitionsAllowed
  <2>2. job[i].pc \in DOMAIN StatusWritten /\ StatusWritten[job[i].pc] = s
    BY DEF StatusWritten
  <2> QED BY <1>1, <2>1, <2>2 DEF StatusesFollow, ComesBack
<1>4. ASSUME NEW m \in Jobs PROVE JobRelies(job[m])'
  <2>1. CASE m = i
    BY <2>1 DEF JobRelies
  <2>2. CASE m # i
    <3>1. job'[m] = job[m] /\ JobRelies(job[m])
      BY <2>2 DEF TableInv
    <3>2. /\ job[m].action = "change_prep" => job[m].cr \in ChangeRequests
          /\ Drafts(job[m]) => job[m].cr \in approved /\ job[m].cr \in ChangeRequests
      BY TableFacts DEF Prepares
    <3>3. job[m].action = "change_prep" /\ job[m].pc \in {"writeAnalysis", "writePending"}
            => job[m].cr # k
      BY <1>2, <2>2, <3>1 DEF TableInv, PreparersAreAlone, Prepares, JobRelies
    <3>4. Drafts(job[m]) => job[m].cr # k
      BY <1>2, <2>2, <3>2 DEF TableInv, DraftersAreAlone
    <3> QED BY <1>1, <1>2, <3>1, <3>2, <3>3, <3>4 DEF JobRelies
  <2> QED BY <2>1, <2>2
<1>5. \A m \in Jobs : /\ Prepares(job'[m]) => Prepares(job[m]) /\ job'[m].cr = job[m].cr
                      /\ Drafts(job'[m]) <=> Drafts(job[m])
                      /\ job'[m].cr = job[m].cr
                      /\ job'[m].pc = "writeDrafted" => m # i /\ job'[m] = job[m]
  BY <1>2 DEF Prepares, Drafts
<1>6. ASSUME NEW r \in Requests PROVE HandlerRelies(req[r])'
  <2>1. HandlerRelies(req[r]) /\ req'[r] = req[r] /\ req[r].left \subseteq ChangeRequests
    BY TableFacts DEF TableInv, RequestTypeOK, Request, FreeRequest
  <2>2. req[r].op \in {"approve", "reject", "complete"} => req[r].cr \in ChangeRequests
    BY DEF WholeInv, ApprovalInv, RequestsAreSound, ChangeControlTypeOK
  <2>3. req[r].op \in {"ingest", "retry"} /\ req[r].cr # None => req[r].cr \in ChangeRequests
    BY TableFacts DEF WholeInv, CallersAreSound
  <2>4. /\ NobodyDrafts(req[r].cr) => NobodyDrafts(req[r].cr)'
        /\ Drafts(job[i]) => ~NobodyDrafts(k)
    BY <1>5, <2>1 DEF NobodyDrafts
  <2>5. \A x \in req[r].left : crStatus'[x] \in ActiveCrStatuses
    BY <1>1, <1>2, <2>1 DEF HandlerRelies, ActiveCrStatuses, CrStatuses, CR_TRANSITIONS
  <2>6. prLinked \subseteq prLinked'
    BY <1>2
  <2>7. (\A m \in Jobs : Prepares(job[m]) => job[m].cr # req[r].cr)
          => \A m \in Jobs : Prepares(job'[m]) => job'[m].cr # req[r].cr
    BY <1>5
  <2>8. CASE req[r].cr = k
    BY <1>1, <1>2, <2>1, <2>2, <2>3, <2>4, <2>5, <2>6, <2>7, <2>8 DEF HandlerRelies
  <2>9. CASE req[r].cr # k
    BY <1>1, <2>1, <2>2, <2>3, <2>4, <2>5, <2>6, <2>7, <2>9 DEF HandlerRelies
  <2> QED BY <2>8, <2>9
<1>7. PreparersAreAlone'
  BY <1>5 DEF TableInv, PreparersAreAlone
<1>8. DraftersAreAlone'
  <2>1. \A m \in Jobs : Drafts(job[m]) => job[m].cr \in ChangeRequests
    BY TableFacts
  <2> QED BY <1>1, <1>2, <1>5, <2>1 DEF TableInv, DraftersAreAlone
<1>9. StatusesAreDue'
  BY <1>1, <1>2, TableFacts DEF TableInv, StatusesAreDue
<1> QED BY <1>3, <1>4, <1>6, <1>7, <1>8, <1>9 DEF TableInv

\* The one request writes the status it may write: no job relies on the one before.
LEMMA HandlerWritesStatus ==
  ASSUME OneRequest, WholeInv, TableInv, NEW r \in Requests,
         NEW k \in ChangeRequests, NEW s, crStatus' = [crStatus EXCEPT ![k] = s],
         \/ crStatus[k] = "approval-pending" /\ s = "approved" /\ approved' = approved \cup {k}
         \/ /\ approved' = approved
            /\ \/ crStatus[k] \in ActiveCrStatuses /\ s = "rejected"
               \/ crStatus[k] = "approved" /\ NobodyDrafts(k) /\ s = "implementation-prep"
               \/ (crStatus[k] = "pr-drafted" \/ k \in prLinked) /\ s = "completed",
         HandlerRelies(req[r])', UNCHANGED <<prLinked, job>>
  PROVE  TableInv' /\ StatusesFollow
<1>1. \A x \in ChangeRequests : crStatus'[x] = IF x = k THEN s ELSE crStatus[x]
  BY TableFacts
<1>0. k \in prLinked => crStatus[k] \in {"pr-drafted", "completed", "rejected"} /\ k \in approved
  BY TableFacts DEF TableInv, StatusesAreDue
<1>2. StatusesFollow
  BY <1>0, <1>1, TransitionsAllowed DEF StatusesFollow, ComesBack
<1>3. ASSUME NEW i \in Jobs PROVE JobRelies(job[i])'
  <2>1. JobRelies(job[i])
    BY DEF TableInv
  <2>2. Prepares(job[i]) \/ Drafts(job[i]) => job[i].cr \in ChangeRequests
    BY TableFacts
  <2>3. CASE job[i].cr = k
    BY <1>0, <1>1, <2>1, <2>2, <2>3 DEF JobRelies, Prepares
  <2>4. CASE job[i].cr # k
    BY <1>1, <2>1, <2>2, <2>4 DEF JobRelies, Prepares
  <2> QED BY <2>3, <2>4
<1>4. \A q \in Requests : HandlerRelies(req[q])'
  BY DEF OneRequest
<1>5. PreparersAreAlone'
  BY DEF TableInv, PreparersAreAlone, Prepares
<1>6. DraftersAreAlone'
  <2>1. \A m \in Jobs : Drafts(job[m]) => job[m].cr \in ChangeRequests
    BY TableFacts
  <2> QED BY <1>1, <2>1 DEF TableInv, DraftersAreAlone, NobodyDrafts, Drafts
<1>7. StatusesAreDue'
  BY <1>0, <1>1, TableFacts DEF TableInv, StatusesAreDue
<1> QED BY <1>2, <1>3, <1>4, <1>5, <1>6, <1>7 DEF TableInv

\* A change request is created, and the job or the request that did it is the only one
\* to dispatch its preparation.
LEMMA ChangeCreated ==
  ASSUME WholeInv, TableInv, NEW k \in ChangeRequests, crStatus[k] = "none",
         crStatus' = [crStatus EXCEPT ![k] = "draft"], UNCHANGED <<prLinked, approved>>,
         \/ /\ UNCHANGED job
            /\ \A q \in Requests : HandlerRelies(req[q])'
         \/ /\ UNCHANGED req
            /\ \E i \in Jobs : /\ \A m \in Jobs \ {i} : job'[m] = job[m]
                               /\ job'[i].cr = k /\ job'[i].pc \in {"commit", "sidecarJob"}
                               /\ ~Drafts(job'[i])
                               /\ \A q \in Requests :
                                    ~(req[q].op = "sendToChange" /\ req[q].pc = "commit"
                                        /\ req[q].cr = k)
  PROVE  TableInv' /\ StatusesFollow
<1>1. \A x \in ChangeRequests : crStatus'[x] = IF x = k THEN "draft" ELSE crStatus[x]
  BY TableFacts
<1>2. StatusesFollow
  BY <1>1 DEF StatusesFollow
<1>3. k \notin approved /\ k \notin prLinked
  BY TableFacts
<1>4. \A m \in Jobs : /\ Prepares(job[m]) => job[m].cr # k
                      /\ Drafts(job[m]) => job[m].cr # k
                      /\ Prepares(job[m]) \/ Drafts(job[m]) => job[m].cr \in ChangeRequests
  BY <1>3, TableFacts
<1>5. StatusesAreDue'
  BY <1>1, <1>3 DEF TableInv, StatusesAreDue
<1>6. \A m \in Jobs : job'[m] = job[m] => JobRelies(job[m])'
  BY <1>1, <1>4 DEF TableInv, JobRelies, Prepares
<1>7. CASE UNCHANGED job /\ \A q \in Requests : HandlerRelies(req[q])'
  <2>1. PreparersAreAlone' /\ DraftersAreAlone'
    BY <1>1, <1>4, <1>7 DEF TableInv, PreparersAreAlone, DraftersAreAlone, Prepares, Drafts
  <2> QED BY <1>2, <1>5, <1>6, <1>7, <2>1 DEF TableInv
<1>8. ASSUME UNCHANGED req, NEW i \in Jobs, \A m \in Jobs \ {i} : job'[m] = job[m],
             job'[i].cr = k, job'[i].pc \in {"commit", "sidecarJob"}, ~Drafts(job'[i]),
             \A q \in Requests :
               ~(req[q].op = "sendToChange" /\ req[q].pc = "commit" /\ req[q].cr = k)
      PROVE  TableInv' /\ StatusesFollow
  <2>1. \A m \in Jobs : JobRelies(job[m])'
    <3>1. JobRelies(job[i])'
      BY <1>8 DEF JobRelies
    <3> QED BY <1>6, <1>8, <3>1
  <2>2. PreparersAreAlone'
    BY <1>4, <1>8 DEF TableInv, PreparersAreAlone, Prepares
  <2>3. DraftersAreAlone'
    BY <1>1, <1>4, <1>8 DEF TableInv, DraftersAreAlone, Drafts
  <2>4. ASSUME NEW q \in Requests PROVE HandlerRelies(req[q])'
    <3>1. HandlerRelies(req[q]) /\ req'[q] = req[q] /\ req[q].left \subseteq ChangeRequests
      BY <1>8, TableFacts DEF TableInv, RequestTypeOK, Request, FreeRequest
    <3>2. /\ req[q].op \in {"approve", "reject", "complete"} => req[q].cr \in ChangeRequests
          /\ req[q].op \in {"ingest", "retry"} /\ req[q].cr # None => req[q].cr \in ChangeRequests
      BY TableFacts DEF WholeInv, ApprovalInv, RequestsAreSound, ChangeControlTypeOK, CallersAreSound
    <3>3. NobodyDrafts(req[q].cr) => NobodyDrafts(req[q].cr)'
      BY <1>8, <3>1 DEF NobodyDrafts, Drafts
    <3>4. "none" \notin ActiveCrStatuses
      BY CrStatusFacts DEF ActiveCrStatuses
    <3>5. \A x \in req[q].left : crStatus'[x] \in ActiveCrStatuses
      BY <1>1, <3>1, <3>4 DEF HandlerRelies
    <3>6. req[q].op = "sendToChange" /\ req[q].pc = "commit" =>
            \A m \in Jobs : Prepares(job'[m]) => job'[m].cr # req[q].cr
      BY <1>8, <3>1 DEF HandlerRelies
    <3> QED BY <1>1, <1>8, <3>1, <3>2, <3>3, <3>5, <3>6 DEF HandlerRelies
  <2> QED BY <1>2, <1>5, <2>1, <2>2, <2>3, <2>4 DEF TableInv
<1> QED BY <1>7, <1>8

\* The preparation of a change request is dispatched, by the job or the request that
\* was to do it.
LEMMA PreparationInserted ==
  ASSUME WholeInv, TableInv, UNCHANGED <<crStatus, prLinked, approved>>,
         NEW n \in Jobs, NEW k,
         job'[n].action = "change_prep", job'[n].cr = k, job'[n].pc = "queued",
         \A m \in Jobs \ {n} : ClaimsNothing(m),
         \A m \in Jobs \ {n} : Prepares(job'[m]) => job'[m].cr # k,
         \A q \in Requests : /\ HandlerRelies(req'[q])
                             /\ ~(req'[q].op = "sendToChange" /\ req'[q].pc = "commit"
                                    /\ req'[q].cr = k)
  PROVE  TableInv' /\ StatusesFollow
<1>1. /\ job'[n].action = "change_prep" /\ job'[n].cr = k /\ job'[n].pc = "queued"
      /\ ~Drafts(job'[n])
  BY DEF Drafts
<1>0. \A m \in Jobs : /\ Drafts(job'[m]) => Drafts(job[m]) /\ job'[m].cr = job[m].cr
                      /\ Drafts(job'[m]) /\ job'[m].pc = "writeDrafted" =>
                           job[m].pc = "writeDrafted" \/ crStatus[job'[m].cr] = "implementation-prep"
  BY <1>1 DEF ClaimsNothing
<1>2. \A i \in Jobs : JobRelies(job[i])'
  BY <1>1 DEF ClaimsNothing, JobRelies, Drafts
<1>3. ASSUME NEW q \in Requests PROVE HandlerRelies(req[q])'
  <2>1. HandlerRelies(req'[q])
    OBVIOUS
  <2>2. NobodyDrafts(req'[q].cr) => NobodyDrafts(req[q].cr)'
    BY <1>0 DEF NobodyDrafts
  <2>3. /\ req'[q].op = "sendToChange" /\ req'[q].pc = "commit"
        /\ \A i \in Jobs : Prepares(job[i]) => job[i].cr # req'[q].cr
        => \A i \in Jobs : Prepares(job'[i]) => job'[i].cr # req'[q].cr
    BY <1>1 DEF ClaimsNothing
  <2> QED BY <2>1, <2>2, <2>3 DEF HandlerRelies
<1>4. PreparersAreAlone'
  BY <1>1 DEF TableInv, PreparersAreAlone, ClaimsNothing
<1>5. DraftersAreAlone'
  BY <1>0 DEF TableInv, DraftersAreAlone
<1>6. StatusesAreDue' /\ StatusesFollow
  BY DEF TableInv, StatusesAreDue, StatusesFollow
<1> QED BY <1>2, <1>3, <1>4, <1>5, <1>6 DEF TableInv

\* The one request dispatches a draft: the first of its change request, or a second
\* one that waits in vain.
LEMMA DraftInserted ==
  ASSUME OneRequest, WholeInv, TableInv, UNCHANGED <<crStatus, prLinked, approved>>,
         NEW r \in Requests, Reply(r),
         NEW n \in Jobs, NEW c, NEW k, Enqueue(n, NewJob("pr_draft_prep", c, k, FALSE)),
         \/ crStatus[k] = "approved"
         \/ crStatus[k] = "implementation-prep" /\ NobodyDrafts(k)
  PROVE  TableInv' /\ StatusesFollow
<1>1. /\ \A m \in Jobs \ {n} : job'[m] = job[m]
      /\ Drafts(job'[n]) /\ job'[n].cr = k /\ job'[n].pc = "queued"
      /\ ~Prepares(job'[n])
  BY TableFacts DEF Enqueue, NewJob, JobTypeOK, Drafts, Prepares
<1>2. \A i \in Jobs : JobRelies(job[i])'
  BY <1>1 DEF TableInv, JobRelies
<1>3. \A q \in Requests : HandlerRelies(req[q])'
  BY TableFacts DEF OneRequest, Reply, HandlerRelies, FreeRequest, RequestTypeOK
<1>4. PreparersAreAlone'
  BY <1>1 DEF TableInv, PreparersAreAlone
<1>5. DraftersAreAlone'
  <2>1. \A m \in Jobs : Drafts(job[m]) /\ job[m].pc = "writeDrafted" /\ job[m].cr = k
          => crStatus[k] \in {"implementation-prep", "rejected"}
    BY DEF TableInv, JobRelies
  <2> QED BY <1>1, <2>1 DEF TableInv, DraftersAreAlone, NobodyDrafts
<1>6. StatusesAreDue' /\ StatusesFollow
  BY DEF TableInv, StatusesAreDue, StatusesFollow
<1> QED BY <1>2, <1>3, <1>4, <1>5, <1>6 DEF TableInv
-----------------------------------------------------------------------------
(* The workers and the queue.                                              *)

\* Where a job has a claim on a status, or on a change request to be prepared.
ClaimPoints == {"writeAnalysis", "writePending", "writeDrafted", "commit", "sidecarJob"}

\* Job i keeps its work and gets to a point without a claim, or leaves its slot.
LetsGo(i) ==
  \/ job'[i] = FreeJob
  \/ job'[i].action = job[i].action /\ job'[i].cr = job[i].cr /\ job'[i].pc \notin ClaimPoints

LEMMA LetsGoClaims ==
  ASSUME NEW i \in Jobs, LetsGo(i)
  PROVE  ClaimsNothing(i)
<1>1. CASE job'[i] = FreeJob
  BY <1>1 DEF FreeJob, ClaimsNothing, Prepares, Drafts, JobRelies
<1>2. CASE job'[i].action = job[i].action /\ job'[i].cr = job[i].cr /\ job'[i].pc \notin ClaimPoints
  BY <1>2 DEF ClaimPoints, ClaimsNothing, Prepares, Drafts, JobRelies
<1> QED BY <1>1, <1>2 DEF LetsGo

\* What the steps of the queue and of the workers do to their job.
LEMMA JobGoes ==
  ASSUME JobTypeOK, NEW i \in Jobs, job[i].pc # "free"
  PROVE  /\ Finish(i) \/ Fail(i) => LetsGo(i) /\ \A m \in Jobs \ {i} : job'[m] = job[m]
         /\ \A point : Goto(i, point) =>
              /\ \A m \in Jobs \ {i} : job'[m] = job[m]
              /\ job'[i].action = job[i].action /\ job'[i].cr = job[i].cr /\ job'[i].pc = point
         /\ \A point : \A n \in Jobs : \A new : GotoAndEnqueue(i, point, n, new) =>
              /\ \A m \in Jobs \ {i, n} : job'[m] = job[m]
              /\ job'[i].action = job[i].action /\ job'[i].cr = job[i].cr /\ job'[i].pc = point
              /\ n # i /\ job'[n] = new
<1>1. job \in [Jobs -> Job \cup {FreeJob}] /\ job[i] \in Job
  BY SlotHoldsJob DEF JobTypeOK
<1>2. Finish(i) => LetsGo(i) /\ \A m \in Jobs \ {i} : job'[m] = job[m]
  BY <1>1 DEF Finish, LetsGo
<1>3. ASSUME Fail(i) PROVE LetsGo(i) /\ \A m \in Jobs \ {i} : job'[m] = job[m]
  <2>1. \A m \in Jobs \ {i} : job'[m] = job[m]
    BY <1>1, <1>3 DEF Fail
  <2>2. job'[i].action = job[i].action /\ job'[i].cr = job[i].cr
    BY <1>1, <1>3 DEF Fail, Job
  <2>3. job'[i].pc \in {"queued", "dead"}
    BY <1>3, FailType
  <2> QED BY <2>1, <2>2, <2>3 DEF LetsGo, ClaimPoints
<1>4. ASSUME NEW point, Goto(i, point)
      PROVE  /\ \A m \in Jobs \ {i} : job'[m] = job[m]
             /\ job'[i].action = job[i].action /\ job'[i].cr = job[i].cr /\ job'[i].pc = point
  BY <1>1, <1>4 DEF Goto, Job
<1>5. ASSUME NEW point, NEW n \in Jobs, NEW new, GotoAndEnqueue(i, point, n, new)
      PROVE  /\ \A m \in Jobs \ {i, n} : job'[m] = job[m]
             /\ job'[i].action = job[i].action /\ job'[i].cr = job[i].cr /\ job'[i].pc = point
             /\ n # i /\ job'[n] = new
  BY <1>1, <1>5 DEF GotoAndEnqueue, Free, Job
<1> QED BY <1>2, <1>3, <1>4, <1>5

\* A job that lets go, while nothing else happens.
LEMMA JobGoesOn ==
  ASSUME TableInv, NEW i \in Jobs, LetsGo(i) \/ ClaimsNothing(i),
         \A m \in Jobs \ {i} : job'[m] = job[m],
         UNCHANGED <<crStatus, prLinked, approved, req>>
  PROVE  TableInv' /\ StatusesFollow
<1>1. \A m \in Jobs : ClaimsNothing(m)
  BY LetsGoClaims, SameJobClaims
<1>2. \A q \in Requests : HandlerRelies(req'[q])
  BY DEF TableInv
<1> QED BY <1>1, <1>2, NothingWritten

\* A freshly inserted row, of a worker that is not of change control.
LEMMA OtherJobClaims ==
  ASSUME NEW n \in Jobs, NEW action \in {"triage", "known_issue_match", "auto_reply", "outage_routing"},
         NEW c, NEW k, NEW forced, job'[n] = NewJob(action, c, k, forced)
  PROVE  ClaimsNothing(n)
BY DEF NewJob, ClaimsNothing, Prepares, Drafts, JobRelies

LEMMA JobInsertsOther ==
  ASSUME WholeInv, TableInv, NEW i \in Jobs, job[i].pc # "free", NEW point, point \notin ClaimPoints,
         NEW n \in Jobs, NEW action \in {"triage", "known_issue_match", "auto_reply", "outage_routing"},
         NEW c, NEW k, NEW forced, GotoAndEnqueue(i, point, n, NewJob(action, c, k, forced)),
         UNCHANGED <<crStatus, prLinked, approved, req>>
  PROVE  TableInv' /\ StatusesFollow
<1>1. /\ \A m \in Jobs \ {i, n} : job'[m] = job[m]
      /\ job'[i].action = job[i].action /\ job'[i].cr = job[i].cr /\ job'[i].pc = point
      /\ n # i /\ job'[n] = NewJob(action, c, k, forced)
  BY TableFacts, JobGoes
<1>2. LetsGo(i)
  BY <1>1 DEF LetsGo
<1>3. \A m \in Jobs : ClaimsNothing(m)
  BY <1>1, <1>2, LetsGoClaims, SameJobClaims, OtherJobClaims
<1>4. \A q \in Requests : HandlerRelies(req'[q])
  BY DEF TableInv
<1> QED BY <1>3, <1>4, NothingWritten

\* The Steward hands on the change request that it has created.
LEMMA StewardDispatches ==
  ASSUME WholeInv, TableInv, NEW i \in Jobs, job[i].pc # "free", Prepares(job[i]),
         NEW point, point \in {"audit", "sidecar"}, NEW n \in Jobs,
         job[i].action = "known_issue_match",
         GotoAndEnqueue(i, point, n, NewJob("change_prep", job[i].case, job[i].cr, FALSE)),
         UNCHANGED <<crStatus, prLinked, approved, req>>
  PROVE  TableInv' /\ StatusesFollow
<1>0. PICK c, k : c = job[i].case /\ k = job[i].cr
  OBVIOUS
<1>n. GotoAndEnqueue(i, point, n, NewJob("change_prep", c, k, FALSE))
  BY <1>0
<1>1. /\ \A m \in Jobs \ {i, n} : job'[m] = job[m]
      /\ job'[i].action = job[i].action /\ job'[i].cr = job[i].cr /\ job'[i].pc = point
      /\ n # i /\ job'[n] = NewJob("change_prep", c, k, FALSE)
  BY <1>n, TableFacts, JobGoes
<1>2. LetsGo(i) /\ ~Prepares(job'[i])
  BY <1>1 DEF LetsGo, ClaimPoints, Prepares
<1>3. \A m \in Jobs \ {n} : ClaimsNothing(m)
  BY <1>1, <1>2, LetsGoClaims, SameJobClaims
<1>4. \A m \in Jobs \ {n} : Prepares(job'[m]) => job'[m].cr # k
  BY <1>0, <1>1, <1>2 DEF TableInv, PreparersAreAlone
<1>5. \A q \in Requests : /\ HandlerRelies(req'[q])
                          /\ ~(req'[q].op = "sendToChange" /\ req'[q].pc = "commit"
                                 /\ req'[q].cr = k)
  BY <1>0 DEF TableInv, HandlerRelies
<1>6. /\ job'[n].action = "change_prep" /\ job'[n].cr = k /\ job'[n].pc = "queued"
      /\ UNCHANGED <<crStatus, prLinked, approved>>
  BY <1>1 DEF NewJob
<1> QED BY <1>3, <1>4, <1>5, <1>6, PreparationInserted

LEMMA StewardCreates ==
  ASSUME WholeInv, TableInv, NEW i \in Jobs, job[i].action = "known_issue_match",
         job[i].pc # "free", NEW k \in ChangeRequests, NEW c, CreateChangeRequest(k, c),
         NEW point \in {"commit", "sidecarJob"}, job' = [job EXCEPT ![i].cr = k, ![i].pc = point],
         UNCHANGED <<prLinked, approved, req>>
  PROVE  TableInv' /\ StatusesFollow
<1>1. job \in [Jobs -> Job \cup {FreeJob}] /\ job[i] \in Job
  BY TableFacts, SlotHoldsJob DEF JobTypeOK
<1>2. /\ \A m \in Jobs \ {i} : job'[m] = job[m]
      /\ job'[i].cr = k /\ job'[i].pc \in {"commit", "sidecarJob"}
      /\ job'[i].action = "known_issue_match"
  BY <1>1 DEF Job
<1>3. \A q \in Requests :
        ~(req[q].op = "sendToChange" /\ req[q].pc = "commit" /\ req[q].cr = k)
  BY DEF WholeInv, ApprovalInv, RequestsAreSound, CreateChangeRequest
<1> QED BY <1>2, <1>3, ChangeCreated DEF CreateChangeRequest, Drafts

\* The steps of the Steward's worker.
LEMMA StewardFollows ==
  ASSUME WholeInv, TableInv, NEW i \in Jobs, StewardStep(i), UNCHANGED changeVars
  PROVE  TableInv' /\ StatusesFollow
<1>0. /\ JobTypeOK /\ UNCHANGED <<prLinked, approved>>
      /\ job[i].pc # "free" /\ job[i].action = "known_issue_match"
  BY TableFacts DEF changeVars, StewardStep, StewardStart, StewardRoute, StewardCreateCr,
     StewardCommit, StewardSidecar, StewardSidecarDispatch, At
<1>1. CASE StewardStart(i)
  <2>1. LetsGo(i) /\ \A m \in Jobs \ {i} : job'[m] = job[m]
    BY <1>0, <1>1, JobGoes DEF StewardStart, LetsGo, ClaimPoints
  <2> QED BY <1>0, <1>1, <2>1, JobGoesOn DEF StewardStart, dbVars
<1>2. CASE StewardRoute(i)
  <2>1. job \in [Jobs -> Job \cup {FreeJob}] /\ job[i] \in Job /\ job[i].pc = "agent"
    BY <1>0, <1>2, SlotHoldsJob DEF StewardRoute, At, JobTypeOK
  <2>2. PICK plan \in {"in-change", "in-resolution", "awaiting-lead"} :
          LET routed == [job EXCEPT ![i].plan = plan,
                           ![i].pc = IF plan = "in-change" THEN "createCr" ELSE "commit"]
          IN \/ job' = routed
             \/ \E n \in Jobs :
                  /\ Free(n)
                  /\ job' = [routed EXCEPT ![n] =
                               NewJob("outage_routing", job[i].case, None, FALSE)]
    BY <1>2 DEF StewardRoute
  <2> DEFINE routed == [job EXCEPT ![i].plan = plan,
                          ![i].pc = IF plan = "in-change" THEN "createCr" ELSE "commit"]
  <2>3. /\ routed \in [Jobs -> {routed[m] : m \in Jobs}]
        /\ routed[i].pc \in {"createCr", "commit"} /\ routed[i].plan = plan
        /\ routed[i].pc = "commit" => plan # "in-change"
        /\ routed[i].action = job[i].action /\ routed[i].cr = job[i].cr
        /\ \A m \in Jobs \ {i} : routed[m] = job[m]
    BY <2>1 DEF Job
  <2>4. \/ job' = routed
        \/ \E n \in Jobs : /\ job[n].pc = "free"
                           /\ job' = [routed EXCEPT ![n] =
                                        NewJob("outage_routing", job[i].case, None, FALSE)]
    BY <2>2 DEF Free
  <2> HIDE DEF routed
  <2>5. \A m \in Jobs : \/ job'[m] = routed[m]
                        \/ job'[m] = NewJob("outage_routing", job[i].case, None, FALSE) /\ m # i
    BY <2>1, <2>3, <2>4
  <2>6. job'[i] = routed[i] /\ ClaimsNothing(i)
    BY <1>0, <2>3, <2>5 DEF ClaimsNothing, Prepares, Drafts, JobRelies
  <2>7. ASSUME NEW m \in Jobs PROVE ClaimsNothing(m)
    <3>1. CASE m = i
      BY <2>6, <3>1
    <3>2. CASE m # i /\ job'[m] = routed[m]
      BY <2>3, <3>2, SameJobClaims
    <3>3. CASE job'[m] = NewJob("outage_routing", job[i].case, None, FALSE)
      BY <3>3, OtherJobClaims
    <3> QED BY <2>5, <3>1, <3>2, <3>3
  <2>8. \A q \in Requests : HandlerRelies(req'[q])
    BY <1>2 DEF TableInv, StewardRoute
  <2> QED BY <1>0, <1>2, <2>7, <2>8, NothingWritten DEF StewardRoute, dbVars
<1>3. CASE StewardCreateCr(i)
  <2>1. PICK k \in ChangeRequests :
          /\ CreateChangeRequest(k, job[i].case)
          /\ job' = [job EXCEPT ![i].cr = k, ![i].pc = "commit"]
    BY <1>3 DEF StewardCreateCr
  <2> QED BY <1>0, <1>3, <2>1, StewardCreates DEF StewardCreateCr
<1>4. CASE StewardCommit(i)
  <2>1. PICK n \in Jobs :
          GotoAndEnqueue(i, IF job[i].plan = "in-resolution" THEN "sidecar" ELSE "audit",
                         n, RoutedJob(i))
    BY <1>4 DEF StewardCommit
  <2>2. job[i].pc = "commit" /\ UNCHANGED <<crStatus, req>>
    BY <1>4 DEF StewardCommit, At
  <2>3. job[i].plan \in {"in-change", "in-resolution", "awaiting-lead"}
    <3>1. CASE_TRANSITIONS \in [CaseStatuses -> SUBSET CaseStatuses]
      BY DEF CASE_TRANSITIONS, CaseStatuses
    <3>2. job[i].plan \in CaseStatuses /\ job[i] \in Job
      BY <1>0, <1>4, CaseTarget, SlotHoldsJob DEF StewardCommit
    <3>3. job[i].plan \in Plans
      BY <3>2 DEF Job
    <3> QED BY <3>2, <3>3 DEF Plans, CaseStatuses, CASE_TRANSITIONS
  <2>4. CASE job[i].plan = "in-change"
    <3>1. RoutedJob(i) = NewJob("change_prep", job[i].case, job[i].cr, FALSE)
      BY <2>4 DEF RoutedJob
    <3>2. Prepares(job[i])
      BY <1>0, <2>2, <2>4 DEF Prepares
    <3> QED BY <1>0, <2>1, <2>2, <2>4, <3>1, <3>2, StewardDispatches
  <2>5. CASE job[i].plan \in {"in-resolution", "awaiting-lead"}
    <3>1. \E forced \in BOOLEAN : RoutedJob(i) = NewJob("auto_reply", job[i].case, None, forced)
      BY <2>5 DEF RoutedJob
    <3>2. (IF job[i].plan = "in-resolution" THEN "sidecar" ELSE "audit") \notin ClaimPoints
      BY DEF ClaimPoints
    <3> QED BY <1>0, <2>1, <2>2, <3>1, <3>2, JobInsertsOther
  <2> QED BY <2>3, <2>4, <2>5
<1>5. CASE StewardSidecar(i)
  <2>1. CASE Goto(i, "audit") /\ UNCHANGED <<crStatus, crCase>>
    <3>1. LetsGo(i) /\ \A m \in Jobs \ {i} : job'[m] = job[m]
      BY <1>0, <2>1, JobGoes DEF LetsGo, ClaimPoints
    <3> QED BY <1>0, <1>5, <2>1, <3>1, JobGoesOn DEF StewardSidecar
  <2>2. ASSUME NEW k \in ChangeRequests, CreateChangeRequest(k, job[i].case),
               job' = [job EXCEPT ![i].cr = k, ![i].pc = "sidecarJob"]
        PROVE  TableInv' /\ StatusesFollow
    BY <1>0, <1>5, <2>2, StewardCreates DEF StewardSidecar
  <2> QED BY <1>5, <2>1, <2>2 DEF StewardSidecar
<1>6. CASE StewardSidecarDispatch(i)
  <2>0. Prepares(job[i]) /\ UNCHANGED <<crStatus, req>>
    BY <1>6 DEF StewardSidecarDispatch, At, Prepares, dbVars
  <2>1. CASE Goto(i, "audit")
    <3>1. LetsGo(i) /\ \A m \in Jobs \ {i} : job'[m] = job[m]
      BY <1>0, <2>1, JobGoes DEF LetsGo, ClaimPoints
    <3> QED BY <1>0, <2>0, <3>1, JobGoesOn
  <2>2. ASSUME NEW n \in Jobs,
               GotoAndEnqueue(i, "audit", n, NewJob("change_prep", job[i].case, job[i].cr, FALSE))
        PROVE  TableInv' /\ StatusesFollow
    BY <1>0, <2>0, <2>2, StewardDispatches
  <2> QED BY <1>6, <2>1, <2>2 DEF StewardSidecarDispatch
<1> QED BY <1>1, <1>2, <1>3, <1>4, <1>5, <1>6 DEF StewardStep
\* The steps of the pipeline: none but the Steward's creates or dispatches anything
\* that change control works on.
LEMMA FrontlineJobFollows ==
  ASSUME WholeInv, TableInv, NEW i \in Jobs, FrontlineJobStep(i), UNCHANGED changeVars
  PROVE  TableInv' /\ StatusesFollow
<1>0. JobTypeOK /\ UNCHANGED <<prLinked, approved>>
  BY TableFacts DEF changeVars
<1>1. CASE StewardStep(i)
  BY <1>1, StewardFollows
<1>2. CASE TriageCommit(i)
  <2>1. PICK n \in Jobs : GotoAndEnqueue(i, "audit", n, NewJob("known_issue_match", job[i].case, None, FALSE))
    BY <1>2 DEF TriageCommit
  <2>2. job[i].pc # "free" /\ "audit" \notin ClaimPoints /\ UNCHANGED <<crStatus, req>>
    BY <1>2 DEF TriageCommit, At, ClaimPoints
  <2>3. PICK c : c = job[i].case
    OBVIOUS
  <2>4. GotoAndEnqueue(i, "audit", n, NewJob("known_issue_match", c, None, FALSE))
    BY <2>1, <2>3
  <2> QED BY <1>0, <2>2, <2>4, JobInsertsOther
<1>3. CASE TriageStart(i) \/ AutoReplyStep(i) \/ OutageStep(i) \/ QueueStep(i)
  <2>1. job[i].pc # "free" /\ UNCHANGED <<crStatus, req>>
    BY <1>3 DEF TriageStart, AutoReplyStep, AutoReplyStart, AutoReplyGate, AutoReplyCheck,
       AutoReplyWrite, AutoReplyEmail, AutoReplySave, OutageStep, OutageStart, OutageFinish,
       QueueStep, WorkerFinish, JobFails, DeadLetter, Running, At, dbVars
  <2>2. CASE AutoReplyGate(i)
    <3>1. PICK plan : job' = [job EXCEPT ![i].plan = plan,
                                         ![i].pc = IF job[i].forced THEN "save" ELSE "check"]
      BY <2>2 DEF AutoReplyGate
    <3>2. job \in [Jobs -> Job \cup {FreeJob}] /\ job[i] \in Job
      BY <1>0, <2>1, SlotHoldsJob DEF JobTypeOK
    <3>3. /\ \A m \in Jobs \ {i} : job'[m] = job[m]
          /\ job'[i].action = job[i].action /\ job'[i].cr = job[i].cr
          /\ job'[i].pc \in {"save", "check"}
      BY <3>1, <3>2 DEF Job
    <3>4. LetsGo(i)
      BY <3>3 DEF LetsGo, ClaimPoints
    <3> QED BY <1>0, <2>1, <3>3, <3>4, JobGoesOn
  <2>3. CASE ~AutoReplyGate(i)
    <3>1. \/ Finish(i) \/ Fail(i)
          \/ \E point \in {"agent", "write", "email", "save", "audit"} : Goto(i, point)
      BY <1>3, <2>3 DEF TriageStart, AutoReplyStep, AutoReplyStart, AutoReplyCheck,
         AutoReplyWrite, AutoReplyEmail, AutoReplySave, OutageStep, OutageStart, OutageFinish,
         QueueStep, WorkerFinish, JobFails, DeadLetter
    <3>2. LetsGo(i) /\ \A m \in Jobs \ {i} : job'[m] = job[m]
      BY <1>0, <2>1, <3>1, JobGoes DEF LetsGo, ClaimPoints
    <3> QED BY <1>0, <2>1, <3>2, JobGoesOn
  <2> QED BY <2>2, <2>3
<1> QED BY <1>1, <1>2, <1>3 DEF FrontlineJobStep, TriageStep

\* A job of change control that goes past its guard now relies on the status that the
\* guard has read.
LEMMA GuardPassed ==
  ASSUME WholeInv, TableInv, NEW i \in Jobs, job[i].pc # "free",
         \/ /\ job[i].action = "change_prep" /\ Goto(i, "writeAnalysis")
            /\ IsCrTransitionAllowed(crStatus[job[i].cr], "analysis")
         \/ /\ job[i].action = "change_prep" /\ Goto(i, "writePending")
            /\ IsCrTransitionAllowed(crStatus[job[i].cr], "approval-pending")
         \/ /\ Drafts(job[i]) /\ Goto(i, "writeDrafted")
            /\ IsCrTransitionAllowed(crStatus[job[i].cr], "pr-drafted"),
         UNCHANGED <<crStatus, prLinked, approved, req>>
  PROVE  TableInv' /\ StatusesFollow
<1>0. PICK k : k = job[i].cr
  OBVIOUS
<1>1. /\ \A m \in Jobs \ {i} : job'[m] = job[m]
      /\ job'[i].action = job[i].action /\ job'[i].cr = k
  BY <1>0, TableFacts, JobGoes
<1>2. k \in ChangeRequests
  BY <1>0, TableFacts DEF Prepares
<1>3. \/ /\ job[i].action = "change_prep" /\ job'[i].pc = "writeAnalysis"
         /\ crStatus[k] = "draft"
      \/ /\ job[i].action = "change_prep" /\ job'[i].pc = "writePending"
         /\ crStatus[k] = "analysis"
      \/ /\ Drafts(job[i]) /\ job'[i].pc = "writeDrafted"
         /\ crStatus[k] = "implementation-prep"
  BY <1>0, TableFacts, JobGoes, TransitionsAllowed
<1>4. ClaimsNothing(i)
  BY <1>0, <1>1, <1>2, <1>3 DEF ClaimsNothing, Prepares, Drafts, JobRelies, TableInv, StatusesAreDue
<1> QED BY <1>1, <1>4, JobGoesOn

LEMMA ChangeJobFollows ==
  ASSUME WholeInv, TableInv, NEW i \in Jobs, ChangeJobStep(i)
  PROVE  TableInv' /\ StatusesFollow
<1>0. JobTypeOK /\ job[i].pc # "free" /\ UNCHANGED <<approved, req>>
  BY TableFacts DEF ChangeJobStep, ChangePrepStart, ChangePrepToAnalysis, ChangePrepWriteAnalysis,
     ChangePrepToPending, ChangePrepWritePending, PrDraftStart, PrDraftGithub, PrDraftCheck,
     PrDraftWrite, PrDraftLoadCase, PrDraftCaseCheck, PrDraftCaseWrite, At, changeVars
<1>1. CASE ChangePrepToAnalysis(i) \/ ChangePrepToPending(i) \/ PrDraftCheck(i)
  BY <1>0, <1>1, GuardPassed DEF ChangePrepToAnalysis, ChangePrepToPending, PrDraftCheck, At,
     Drafts, dbVars, changeVars
<1>2. CASE ChangePrepWriteAnalysis(i) \/ ChangePrepWritePending(i) \/ PrDraftWrite(i)
  <2>0. PICK k : k = job[i].cr
    OBVIOUS
  <2>1. k \in ChangeRequests
    BY <1>2, <2>0, TableFacts DEF Prepares, Drafts, ChangePrepWriteAnalysis,
       ChangePrepWritePending, PrDraftWrite, At
  <2>2. \E point \in {"agent", "audit", "loadCase"} : Goto(i, point)
    BY <1>2 DEF ChangePrepWriteAnalysis, ChangePrepWritePending, PrDraftWrite
  <2>3. /\ \A m \in Jobs \ {i} : job'[m] = job[m]
        /\ job'[i].action = job[i].action /\ job'[i].cr = job[i].cr
        /\ job'[i].pc \in {"agent", "audit", "loadCase"}
    BY <1>0, <2>2, JobGoes
  <2>4. \E s : /\ crStatus' = [crStatus EXCEPT ![k] = s]
               /\ \/ /\ job[i].action = "change_prep" /\ prLinked' = prLinked
                     /\ \/ job[i].pc = "writeAnalysis" /\ s = "analysis"
                        \/ job[i].pc = "writePending" /\ s = "approval-pending"
                  \/ /\ Drafts(job[i]) /\ prLinked' \in {prLinked, prLinked \cup {k}}
                     /\ job[i].pc = "writeDrafted" /\ s = "pr-drafted"
    BY <1>2, <2>0 DEF ChangePrepWriteAnalysis, ChangePrepWritePending, PrDraftWrite, At, Drafts,
       changeVars
  <2> QED BY <1>0, <2>0, <2>1, <2>3, <2>4, JobWritesStatus
<1>3. CASE PrDraftGithub(i)
  <2>1. PICK plan : job' = [job EXCEPT ![i].plan = plan, ![i].pc = "toDrafted"]
    BY <1>3 DEF PrDraftGithub
  <2>2. job \in [Jobs -> Job \cup {FreeJob}] /\ job[i] \in Job
    BY <1>0, SlotHoldsJob DEF JobTypeOK
  <2>3. /\ \A m \in Jobs \ {i} : job'[m] = job[m]
        /\ job'[i].action = job[i].action /\ job'[i].cr = job[i].cr
        /\ job'[i].pc = "toDrafted"
    BY <2>1, <2>2 DEF Job
  <2>4. LetsGo(i)
    BY <2>3 DEF LetsGo, ClaimPoints
  <2> QED BY <1>0, <1>3, <2>3, <2>4, JobGoesOn DEF PrDraftGithub, dbVars
<1>4. CASE \/ ChangePrepStart(i) \/ PrDraftStart(i) \/ PrDraftLoadCase(i)
           \/ PrDraftCaseCheck(i) \/ PrDraftCaseWrite(i)
  <2>1. /\ \/ Finish(i)
           \/ \E point \in {"toAnalysis", "agent", "audit", "toResolved", "writeResolved"} :
                Goto(i, point)
        /\ UNCHANGED <<crStatus, prLinked>>
    BY <1>4 DEF ChangePrepStart, PrDraftStart, PrDraftLoadCase, PrDraftCaseCheck,
       PrDraftCaseWrite, dbVars, changeVars
  <2>2. LetsGo(i) /\ \A m \in Jobs \ {i} : job'[m] = job[m]
    BY <1>0, <2>1, JobGoes DEF LetsGo, ClaimPoints
  <2> QED BY <1>0, <2>1, <2>2, JobGoesOn
<1> QED BY <1>1, <1>2, <1>3, <1>4 DEF ChangeJobStep-----------------------------------------------------------------------------
(* The requests.                                                           *)

\* Nothing is written but the handler's own progress.
LEMMA RequestGetsOn ==
  ASSUME TableInv, NEW r \in Requests, \A q \in Requests \ {r} : req'[q] = req[q],
         HandlerRelies(req'[r]), UNCHANGED <<job, crStatus, prLinked, approved>>
  PROVE  TableInv' /\ StatusesFollow
<1>1. \A m \in Jobs : ClaimsNothing(m)
  BY SameJobClaims
<1>2. \A q \in Requests : HandlerRelies(req'[q])
  BY DEF TableInv
<1> QED BY <1>1, <1>2, NothingWritten

\* Where no handler relies on a status, unless it is an approval that dispatches.
QuietPoints == {"caseCheck", "caseWrite", "dispatch", "clear", "loadCase", "resolve"}

GoesOnQuietly(r) ==
  \/ Reply(r)
  \/ \E point \in QuietPoints :
       Proceed(r, point) /\ (point = "dispatch" => req[r].op # "approve")

LEMMA QuietRelies ==
  ASSUME WholeInv, TableInv, NEW r \in Requests, req[r].pc # "idle", GoesOnQuietly(r)
  PROVE  /\ \A q \in Requests \ {r} : req'[q] = req[q]
         /\ HandlerRelies(req'[r])
<1>1. req \in [Requests -> Request \cup {FreeRequest}] /\ req[r] \in Request
  BY TableFacts, HandledIsRequest DEF RequestTypeOK
<1>2. CASE Reply(r)
  <2>1. req'[r] = FreeRequest /\ \A q \in Requests \ {r} : req'[q] = req[q]
    BY <1>1, <1>2 DEF Reply
  <2> QED BY <2>1 DEF FreeRequest, HandlerRelies
<1>3. ASSUME NEW point \in QuietPoints, Proceed(r, point), point = "dispatch" => req[r].op # "approve"
      PROVE  /\ \A q \in Requests \ {r} : req'[q] = req[q]
             /\ HandlerRelies(req'[r])
  <2>1. /\ \A q \in Requests \ {r} : req'[q] = req[q]
        /\ req'[r].op = req[r].op /\ req'[r].cr = req[r].cr /\ req'[r].left = req[r].left
        /\ req'[r].pc = point
    BY <1>1, <1>3 DEF Proceed, Request
  <2>2. HandlerRelies(req[r])
    BY DEF TableInv
  <2> QED BY <1>3, <2>1, <2>2 DEF HandlerRelies, QuietPoints
<1> QED BY <1>2, <1>3 DEF GoesOnQuietly

LEMMA RequestGoesOn ==
  ASSUME WholeInv, TableInv, NEW r \in Requests, req[r].pc # "idle", GoesOnQuietly(r),
         UNCHANGED <<job, crStatus, prLinked, approved>>
  PROVE  TableInv' /\ StatusesFollow
BY QuietRelies, RequestGetsOn

\* A request dispatches a job that is not of change control.
LEMMA RequestInsertsOther ==
  ASSUME WholeInv, TableInv, NEW r \in Requests, req[r].pc # "idle", Reply(r),
         NEW n \in Jobs, NEW action \in {"triage", "known_issue_match"}, NEW c, NEW k, NEW forced,
         Enqueue(n, NewJob(action, c, k, forced)), UNCHANGED <<crStatus, prLinked, approved>>
  PROVE  TableInv' /\ StatusesFollow
<1>1. job'[n] = NewJob(action, c, k, forced) /\ \A m \in Jobs \ {n} : job'[m] = job[m]
  BY TableFacts DEF Enqueue, JobTypeOK
<1>2. \A m \in Jobs : ClaimsNothing(m)
  BY <1>1, SameJobClaims, OtherJobClaims
<1>3. \A q \in Requests : HandlerRelies(req'[q])
  BY QuietRelies DEF GoesOnQuietly, TableInv
<1> QED BY <1>2, <1>3, NothingWritten

\* A request is accepted, on a status that entitles it.
LEMMA RequestComes ==
  ASSUME WholeInv, TableInv, NEW r \in Requests, NEW op, NEW c, NEW k, NEW to, NEW point,
         Accept(r, op, c, k, to, point),
         \/ /\ op \notin {"approve", "reject", "complete", "prMerged", "ciPassed"}
            /\ point \notin {"commit"}
            /\ op \in {"ingest", "retry"} => k = None \/ crStatus[k] = "approved"
         \/ op \in {"approve", "reject"} /\ point = "crCheck" /\ crStatus[k] = "approval-pending"
         \/ op = "complete" /\ point = "crCheck" /\ crStatus[k] = "pr-drafted"
         \/ op \in {"prMerged", "ciPassed"} /\ k \in prLinked,
         UNCHANGED <<job, crStatus, prLinked, approved>>
  PROVE  TableInv' /\ StatusesFollow
<1>1. /\ \A q \in Requests \ {r} : req'[q] = req[q]
      /\ req'[r].op = op /\ req'[r].cr = k /\ req'[r].left = {} /\ req'[r].pc = point
  BY TableFacts DEF Accept, RequestTypeOK
<1>2. HandlerRelies(req'[r])
  BY <1>1 DEF HandlerRelies
<1> QED BY <1>1, <1>2, RequestGetsOn
\* The calls that the pipeline and the console accept, and what becomes of them.
LEMMA FrontRequestFollows ==
  ASSUME OneRequest, WholeInv, TableInv, NEW r \in Requests, IngestStep(r) \/ ConsoleStep(r),
         UNCHANGED changeVars
  PROVE  TableInv' /\ StatusesFollow
<1>0. UNCHANGED <<prLinked, approved>>
  BY DEF changeVars
<1>1. ASSUME NEW c \in Cases,
             \/ Escalate(r, c) \/ Forward(r, c) \/ Resolve(r, c) \/ Reopen(r, c)
             \/ DraftClarification(r, c) \/ TriageManual(r, c) \/ SignalReceived(r, c)
             \/ Retry(r, c) \/ SendDraftReply(r, c) \/ CorrectTriage(r, c) \/ IngestCreate(r, c)
      PROVE  TableInv' /\ StatusesFollow
  <2>1. UNCHANGED <<job, crStatus>>
    BY <1>1 DEF Escalate, Forward, Resolve, Reopen, DraftClarification, TriageManual,
       SignalReceived, ConsoleCall, Retry, SendDraftReply, CorrectTriage, IngestCreate, dbVars
  <2>2. \E op \in {"ingest", "escalate", "forward", "resolve", "reopen", "clarify", "triageManual",
                   "signalReceived", "retry", "sendDraftReply", "correctTriage"},
           point \in {"caseCheck", "send", "load"} :
          \E k, to : (k = None \/ crStatus[k] = "approved") /\ Accept(r, op, c, k, to, point)
    <3>1. CASE Retry(r, c)
      BY <3>1 DEF Retry, PrepToRetry
    <3>2. CASE ~Retry(r, c)
      BY <1>1, <3>2 DEF Escalate, Forward, Resolve, Reopen, DraftClarification, TriageManual,
         SignalReceived, ConsoleCall, SendDraftReply, CorrectTriage, IngestCreate
    <3> QED BY <3>1, <3>2
  <2>3. PICK op \in {"ingest", "escalate", "forward", "resolve", "reopen", "clarify", "triageManual",
                     "signalReceived", "retry", "sendDraftReply", "correctTriage"},
             point \in {"caseCheck", "send", "load"} :
          \E k, to : (k = None \/ crStatus[k] = "approved") /\ Accept(r, op, c, k, to, point)
    BY <2>2
  <2>4. PICK k, to : (k = None \/ crStatus[k] = "approved") /\ Accept(r, op, c, k, to, point)
    BY <2>3
  <2>5. /\ op \notin {"approve", "reject", "complete", "prMerged", "ciPassed"}
        /\ point \notin {"commit"}
        /\ op \in {"ingest", "retry"} => k = None \/ crStatus[k] = "approved"
    BY <2>4
  <2> QED BY <1>0, <2>1, <2>4, <2>5, RequestComes
<1>2. CASE \/ CaseCheck(r) \/ CaseWrite(r) \/ RequestFails(r) \/ SendDraftReplyEmail(r)
           \/ SendDraftReplyClear(r) \/ CorrectTriageWrite(r)
  <2>1. /\ req[r].pc # "idle" /\ GoesOnQuietly(r) /\ UNCHANGED <<job, crStatus>>
    BY <1>2 DEF CaseCheck, CaseWrite, RequestFails, SendDraftReplyEmail, SendDraftReplyClear,
       CorrectTriageWrite, Handling, Idle, GoesOnQuietly, QuietPoints, dbVars
  <2> QED BY <1>0, <2>1, RequestGoesOn
<1>3. CASE CorrectTriageLoad(r)
  <2> DEFINE found == {k \in ChangeRequests : crCase[k] = req[r].case /\ crStatus[k] \in ActiveCrStatuses}
  <2>1. /\ req' = [req EXCEPT ![r].pc = "cancel", ![r].left = found]
        /\ req[r].op = "correctTriage" /\ req[r].pc # "idle" /\ UNCHANGED <<job, crStatus>>
    BY <1>3 DEF CorrectTriageLoad, Handling, dbVars
  <2>2. \A k \in found : crStatus[k] \in ActiveCrStatuses
    OBVIOUS
  <2> HIDE DEF found
  <2>3. req \in [Requests -> Request \cup {FreeRequest}] /\ req[r] \in Request
    BY <2>1, TableFacts, HandledIsRequest DEF RequestTypeOK
  <2>4. /\ \A q \in Requests \ {r} : req'[q] = req[q]
        /\ req'[r].op = "correctTriage" /\ req'[r].left = found
    BY <2>1, <2>3 DEF Request
  <2>5. HandlerRelies(req'[r])
    BY <2>2, <2>4 DEF HandlerRelies
  <2> QED BY <1>0, <2>1, <2>4, <2>5, RequestGetsOn
<1>4. CASE CorrectTriageCancel(r)
  <2>1. PICK k \in req[r].left :
          /\ crStatus' = [crStatus EXCEPT ![k] = "rejected"]
          /\ req' = [req EXCEPT ![r].left = @ \ {k}]
    BY <1>4 DEF CorrectTriageCancel
  <2>2. req[r].op = "correctTriage" /\ req[r].pc # "idle" /\ UNCHANGED job
    BY <1>4 DEF CorrectTriageCancel, Handling
  <2>3. req \in [Requests -> Request \cup {FreeRequest}] /\ req[r] \in Request
    BY <2>2, TableFacts, HandledIsRequest DEF RequestTypeOK
  <2>4. k \in ChangeRequests /\ req[r].left \subseteq ChangeRequests
    BY <2>3 DEF Request
  <2>5. req'[r].op = "correctTriage" /\ req'[r].left = req[r].left \ {k}
    BY <2>1, <2>2, <2>3 DEF Request
  <2>6. \A x \in req[r].left : crStatus[x] \in ActiveCrStatuses
    BY DEF TableInv, HandlerRelies
  <2>7. HandlerRelies(req[r])'
    BY <2>1, <2>4, <2>5, <2>6, TableFacts DEF HandlerRelies
  <2> QED BY <1>0, <2>1, <2>2, <2>4, <2>6, <2>7, HandlerWritesStatus
<1>5. CASE CorrectTriageDispatch(r)
  <2>0. PICK c : c = req[r].case
    OBVIOUS
  <2>1. PICK n \in Jobs : Enqueue(n, NewJob("known_issue_match", c, None, TRUE))
    BY <1>5, <2>0 DEF CorrectTriageDispatch
  <2>2. req[r].pc # "idle" /\ Reply(r) /\ UNCHANGED crStatus
    BY <1>5 DEF CorrectTriageDispatch, Handling, dbVars
  <2> QED BY <1>0, <2>1, <2>2, RequestInsertsOther
<1>6. CASE DispatchCaseJob(r)
  <2>1. /\ req[r].pc # "idle" /\ req[r].op \in {"ingest", "retry"} /\ Reply(r)
        /\ UNCHANGED crStatus
    BY <1>6 DEF DispatchCaseJob, dbVars
  <2>2. PICK c, k : c = req[r].case /\ k = req[r].cr
    OBVIOUS
  <2>3. PICK n \in Jobs :
          Enqueue(n, NewJob(IF k = None THEN "triage" ELSE "pr_draft_prep", c, k, FALSE))
    BY <1>6, <2>2 DEF DispatchCaseJob
  <2>4. CASE k = None
    BY <1>0, <2>1, <2>3, <2>4, RequestInsertsOther
  <2>5. CASE k # None
    <3>1. crStatus[k] = "approved"
      BY <2>1, <2>2, <2>5 DEF TableInv, HandlerRelies
    <3> QED BY <1>0, <2>1, <2>3, <2>5, <3>1, DraftInserted
  <2> QED BY <2>4, <2>5
<1> QED BY <1>1, <1>2, <1>3, <1>4, <1>5, <1>6
    DEF IngestStep, ConsoleStep, TransitionCall, SendDraftReplyStep, CorrectTriageStep
\* The handlers of change control that write nothing yet, and the calls they answer.
LEMMA ChangeCallFollows ==
  ASSUME WholeInv, TableInv, NEW r \in Requests,
         \/ \E c \in Cases : SendToChange(r, c)
         \/ \E k \in ChangeRequests :
              Approve(r, k) \/ Reject(r, k) \/ Complete(r, k) \/ PrMerged(r, k) \/ CiPassed(r, k)
         \/ CrCheck(r) \/ LoadCase(r) \/ ApprovePrepCheck(r)
         \/ PrMergedRecord(r) \/ CiPassedRecord(r) \/ CiPassedResolve(r)
  PROVE  TableInv' /\ StatusesFollow
<1>0. UNCHANGED <<job, crStatus, prLinked, approved>>
  BY DEF SendToChange, Approve, Reject, Complete, PrMerged, CiPassed, CrCheck, LoadCase,
     ApprovePrepCheck, PrMergedRecord, CiPassedRecord, CiPassedResolve, dbVars, changeVars
<1>1. CASE \/ \E c \in Cases : SendToChange(r, c)
           \/ \E k \in ChangeRequests :
                Approve(r, k) \/ Reject(r, k) \/ Complete(r, k) \/ PrMerged(r, k) \/ CiPassed(r, k)
  <2>1. ASSUME NEW c \in Cases, SendToChange(r, c) PROVE TableInv' /\ StatusesFollow
    BY <1>0, <2>1, RequestComes DEF SendToChange
  <2>2. ASSUME NEW k \in ChangeRequests,
               Approve(r, k) \/ Reject(r, k) \/ Complete(r, k) \/ PrMerged(r, k) \/ CiPassed(r, k)
        PROVE  TableInv' /\ StatusesFollow
    <3>1. PICK c : c = crCase[k]
      OBVIOUS
    <3>2. CASE Approve(r, k)
      BY <1>0, <3>1, <3>2, RequestComes DEF Approve
    <3>3. CASE Reject(r, k)
      BY <1>0, <3>1, <3>3, RequestComes DEF Reject
    <3>4. CASE Complete(r, k)
      BY <1>0, <3>1, <3>4, RequestComes DEF Complete
    <3>5. CASE PrMerged(r, k) \/ CiPassed(r, k)
      BY <1>0, <3>1, <3>5, RequestComes DEF PrMerged, CiPassed
    <3> QED BY <2>2, <3>2, <3>3, <3>4, <3>5
  <2> QED BY <1>1, <2>1, <2>2
<1>2. CASE \/ LoadCase(r) \/ CiPassedResolve(r)
           \/ (PrMergedRecord(r) \/ CiPassedRecord(r)) /\ Reply(r)
  <2>1. req[r].pc # "idle" /\ GoesOnQuietly(r)
    BY <1>2 DEF LoadCase, CiPassedResolve, PrMergedRecord, CiPassedRecord, Handling,
       GoesOnQuietly, QuietPoints
  <2> QED BY <1>0, <2>1, RequestGoesOn
<1>3. CASE \/ CrCheck(r) \/ ApprovePrepCheck(r)
           \/ (PrMergedRecord(r) \/ CiPassedRecord(r)) /\ Proceed(r, "complete")
  <2>1. req[r].pc # "idle"
    BY <1>3 DEF CrCheck, ApprovePrepCheck, PrMergedRecord, CiPassedRecord, Handling
  <2>2. req \in [Requests -> Request \cup {FreeRequest}] /\ req[r] \in Request
    BY <2>1, TableFacts, HandledIsRequest DEF RequestTypeOK
  <2>3. \A point : Proceed(r, point) =>
          /\ \A q \in Requests \ {r} : req'[q] = req[q]
          /\ req'[r].op = req[r].op /\ req'[r].cr = req[r].cr /\ req'[r].left = req[r].left
          /\ req'[r].pc = point
    BY <2>2 DEF Proceed, Request
  <2>4. HandlerRelies(req[r])
    BY DEF TableInv
  <2>5. /\ \A q \in Requests \ {r} : req'[q] = req[q]
        /\ HandlerRelies(req'[r])
    <3>1. CASE CrCheck(r)
      BY <2>3, <2>4, <3>1 DEF CrCheck, HandlerRelies
    <3>2. CASE ApprovePrepCheck(r)
      BY <2>3, <2>4, <3>2 DEF ApprovePrepCheck, Handling, HandlerRelies
    <3>3. CASE (PrMergedRecord(r) \/ CiPassedRecord(r)) /\ Proceed(r, "complete")
      BY <2>3, <2>4, <3>3 DEF PrMergedRecord, CiPassedRecord, Handling, HandlerRelies
    <3> QED BY <1>3, <3>1, <3>2, <3>3
  <2> QED BY <1>0, <2>5, RequestGetsOn
<1>4. PrMergedRecord(r) \/ CiPassedRecord(r) => Reply(r) \/ Proceed(r, "complete")
  BY DEF PrMergedRecord, CiPassedRecord
<1> QED BY <1>1, <1>2, <1>3, <1>4

\* The handlers of change control that write a status.
LEMMA ChangeWriteFollows ==
  ASSUME OneRequest, WholeInv, TableInv, NEW r \in Requests,
         CrWrite(r) \/ ApprovePrepWrite(r) \/ PrMergedComplete(r) \/ CiPassedComplete(r)
  PROVE  TableInv' /\ StatusesFollow
<1>0. req[r].pc # "idle" /\ UNCHANGED <<job, prLinked>>
  BY DEF CrWrite, ApprovePrepWrite, PrMergedComplete, CiPassedComplete, Handling, changeVars
<1>1. req \in [Requests -> Request \cup {FreeRequest}] /\ req[r] \in Request
  BY <1>0, TableFacts, HandledIsRequest DEF RequestTypeOK
<1>2. PICK k : k = req[r].cr
  OBVIOUS
<1>3. \A point : Proceed(r, point) =>
        req'[r].op = req[r].op /\ req'[r].cr = k /\ req'[r].left = req[r].left /\ req'[r].pc = point
  BY <1>1, <1>2 DEF Proceed, Request
<1>4. HandlerRelies(req[r])
  BY DEF TableInv
<1>5. /\ req[r].op \in {"approve", "reject", "complete", "prMerged", "ciPassed"}
      /\ k \in ChangeRequests
  <2>1. req[r].op \in {"approve", "reject", "complete", "prMerged", "ciPassed"}
    BY DEF CrWrite, CrTarget, ApprovePrepWrite, PrMergedComplete, CiPassedComplete, Handling
  <2> QED BY <1>2, <2>1, TableFacts DEF WholeInv, ApprovalInv, RequestsAreSound
<1>6. req[r].left = {}
  BY <1>4, <1>5 DEF HandlerRelies
<1>7. CASE CrWrite(r) /\ req[r].op = "approve"
  <2>1. /\ crStatus[k] = "approval-pending" /\ crStatus' = [crStatus EXCEPT ![k] = "approved"]
        /\ approved' = approved \cup {k} /\ Proceed(r, "prepCheck")
    BY <1>2, <1>4, <1>7 DEF CrWrite, CrTarget, HandlerRelies
  <2>2. NobodyDrafts(k)
    BY <1>5, <2>1, TableFacts DEF NobodyDrafts, TableInv, StatusesAreDue
  <2>3. HandlerRelies(req[r])'
    BY <1>0, <1>3, <1>5, <1>6, <1>7, <2>1, <2>2, TableFacts DEF HandlerRelies, NobodyDrafts
  <2> QED BY <1>0, <1>5, <2>1, <2>3, HandlerWritesStatus
<1>8. CASE CrWrite(r) /\ req[r].op \in {"reject", "complete"}
  <2>1. PICK s : /\ crStatus' = [crStatus EXCEPT ![k] = s]
                 /\ \/ crStatus[k] = "approval-pending" /\ s = "rejected"
                    \/ crStatus[k] = "pr-drafted" /\ s = "completed"
    <3>1. \/ /\ crStatus[k] = "approval-pending" /\ CrTarget[req[r].op] = "rejected"
          \/ /\ crStatus[k] = "pr-drafted" /\ CrTarget[req[r].op] = "completed"
      BY <1>2, <1>4, <1>8 DEF CrWrite, CrTarget, HandlerRelies
    <3>2. crStatus' = [crStatus EXCEPT ![k] = CrTarget[req[r].op]]
      BY <1>2, <1>8 DEF CrWrite
    <3> QED BY <3>1, <3>2
  <2>2. approved' = approved /\ Proceed(r, "loadCase")
    BY <1>8 DEF CrWrite
  <2>3. HandlerRelies(req[r])'
    BY <1>3, <1>6, <1>8, <2>2 DEF HandlerRelies
  <2>4. "approval-pending" \in ActiveCrStatuses
    BY CrStatusFacts DEF ActiveCrStatuses
  <2> QED BY <1>0, <1>5, <2>1, <2>2, <2>3, <2>4, HandlerWritesStatus
<1>9. CASE ApprovePrepWrite(r)
  <2>1. /\ crStatus[k] = "approved" /\ NobodyDrafts(k)
        /\ crStatus' = [crStatus EXCEPT ![k] = "implementation-prep"]
        /\ Proceed(r, "dispatch") /\ req[r].op = "approve" /\ approved' = approved
    BY <1>2, <1>4, <1>9 DEF ApprovePrepWrite, Handling, HandlerRelies, changeVars
  <2>2. HandlerRelies(req[r])'
    BY <1>0, <1>3, <1>5, <1>6, <2>1, TableFacts DEF HandlerRelies, NobodyDrafts
  <2> QED BY <1>0, <1>5, <2>1, <2>2, HandlerWritesStatus
<1>10. CASE PrMergedComplete(r) \/ CiPassedComplete(r)
  <2>1. /\ k \in prLinked /\ crStatus' = [crStatus EXCEPT ![k] = "completed"]
        /\ Proceed(r, "loadCase") \/ Proceed(r, "resolve")
        /\ req[r].op \in {"prMerged", "ciPassed"} /\ approved' = approved
    BY <1>2, <1>4, <1>10 DEF PrMergedComplete, CiPassedComplete, Handling, HandlerRelies, changeVars
  <2>2. HandlerRelies(req[r])'
    BY <1>3, <1>6, <2>1 DEF HandlerRelies
  <2> QED BY <1>0, <1>5, <2>1, <2>2, HandlerWritesStatus
<1> QED BY <1>5, <1>7, <1>8, <1>9, <1>10 DEF CrWrite, CrTarget

\* The handlers of change control that create a change request or dispatch a job.
LEMMA ChangeDispatchFollows ==
  ASSUME OneRequest, WholeInv, TableInv, NEW r \in Requests,
         SendToChangeCreate(r) \/ SendToChangeCommit(r) \/ ApproveDispatch(r)
  PROVE  TableInv' /\ StatusesFollow
<1>0. req[r].pc # "idle" /\ UNCHANGED <<prLinked, approved>>
  BY DEF SendToChangeCreate, SendToChangeCommit, ApproveDispatch, Handling, changeVars
<1>1. req \in [Requests -> Request \cup {FreeRequest}] /\ req[r] \in Request
  BY <1>0, TableFacts, HandledIsRequest DEF RequestTypeOK
<1>2. HandlerRelies(req[r])
  BY DEF TableInv
<1>3. CASE SendToChangeCreate(r)
  <2>1. PICK k \in ChangeRequests :
          /\ CreateChangeRequest(k, req[r].case)
          /\ req' = [req EXCEPT ![r].cr = k, ![r].pc = "commit"]
    BY <1>3 DEF SendToChangeCreate
  <2>2. crStatus[k] = "none" /\ crStatus' = [crStatus EXCEPT ![k] = "draft"]
    BY <2>1 DEF CreateChangeRequest
  <2>3. req[r].op = "sendToChange" /\ UNCHANGED job
    BY <1>3 DEF SendToChangeCreate, Handling
  <2>4. /\ req'[r].op = "sendToChange" /\ req'[r].cr = k /\ req'[r].left = req[r].left
        /\ req'[r].pc = "commit"
    BY <1>1, <2>1, <2>3 DEF Request
  <2>5. \A i \in Jobs : Prepares(job[i]) => job[i].cr # k
    BY <2>2, TableFacts
  <2>6. req[r].left = {}
    BY <1>2, <2>3 DEF HandlerRelies
  <2>7. HandlerRelies(req[r])'
    BY <2>3, <2>4, <2>5, <2>6 DEF HandlerRelies, Prepares
  <2>8. \A q \in Requests : HandlerRelies(req[q])'
    BY <2>7 DEF OneRequest
  <2> QED BY <1>0, <2>2, <2>3, <2>8, ChangeCreated
<1>4. CASE SendToChangeCommit(r)
  <2>1. PICK c, k : c = req[r].case /\ k = req[r].cr
    OBVIOUS
  <2>2. PICK n \in Jobs : Enqueue(n, NewJob("change_prep", c, k, FALSE))
    BY <1>4, <2>1 DEF SendToChangeCommit
  <2>3. \A i \in Jobs : Prepares(job[i]) => job[i].cr # k
    BY <1>2, <1>4, <2>1 DEF SendToChangeCommit, Handling, HandlerRelies
  <2>4. Reply(r) /\ UNCHANGED crStatus
    BY <1>4 DEF SendToChangeCommit
  <2>5. /\ job'[n].action = "change_prep" /\ job'[n].cr = k /\ job'[n].pc = "queued"
        /\ \A m \in Jobs \ {n} : job'[m] = job[m]
    BY <2>2, TableFacts DEF Enqueue, NewJob, JobTypeOK
  <2>6. \A m \in Jobs \ {n} : ClaimsNothing(m)
    BY <2>5, SameJobClaims
  <2>7. \A m \in Jobs \ {n} : Prepares(job'[m]) => job'[m].cr # k
    BY <2>3, <2>5
  <2>8. HandlerRelies(req'[r]) /\ req'[r].op # "sendToChange"
    <3>1. req'[r] = FreeRequest
      BY <1>1, <2>4 DEF Reply
    <3> QED BY <3>1 DEF FreeRequest, HandlerRelies
  <2>9. \A q \in Requests : /\ HandlerRelies(req'[q])
                            /\ ~(req'[q].op = "sendToChange" /\ req'[q].pc = "commit"
                                   /\ req'[q].cr = k)
    BY <2>8 DEF OneRequest
  <2> QED BY <1>0, <2>4, <2>5, <2>6, <2>7, <2>9, PreparationInserted
<1>5. CASE ApproveDispatch(r)
  <2>1. PICK c, k : c = req[r].case /\ k = req[r].cr
    OBVIOUS
  <2>2. PICK n \in Jobs : Enqueue(n, NewJob("pr_draft_prep", c, k, FALSE))
    BY <1>5, <2>1 DEF ApproveDispatch
  <2>3. crStatus[k] = "implementation-prep" /\ NobodyDrafts(k)
    BY <1>2, <1>5, <2>1 DEF ApproveDispatch, Handling, HandlerRelies
  <2>4. Reply(r) /\ UNCHANGED crStatus
    BY <1>5 DEF ApproveDispatch, dbVars
  <2> QED BY <1>0, <2>2, <2>3, <2>4, DraftInserted
<1> QED BY <1>3, <1>4, <1>5
LEMMA TableInvInit ==
  ASSUME NestFleetInit
  PROVE  TableInv
<1>1. /\ \A i \in Jobs : job[i] = FreeJob
      /\ \A r \in Requests : req[r] = FreeRequest
      /\ \A k \in ChangeRequests : crStatus[k] = "none"
      /\ prLinked = {}
  BY DEF NestFleetInit, FrontlineInit, PlatformInit, ChangeInit
<1>2. \A i \in Jobs : JobRelies(job[i]) /\ ~Prepares(job[i]) /\ ~Drafts(job[i])
  BY <1>1 DEF FreeJob, JobRelies, Prepares, Drafts
<1>3. \A r \in Requests : HandlerRelies(req[r])
  BY <1>1 DEF FreeRequest, HandlerRelies
<1> QED BY <1>1, <1>2, <1>3 DEF TableInv, PreparersAreAlone, DraftersAreAlone, StatusesAreDue

LEMMA TableInvNext ==
  ASSUME OneRequest, WholeInv, TableInv, [NestFleetNext]_nestFleetVars
  PROVE  TableInv' /\ StatusesFollow
<1>1. ASSUME NEW i \in Jobs, JobStep(i) PROVE TableInv' /\ StatusesFollow
  BY <1>1, FrontlineJobFollows, ChangeJobFollows DEF JobStep
<1>2. CASE ConsoleSide
  BY <1>2, FrontRequestFollows DEF ConsoleSide
<1>3. CASE ChangeSide
  <2>1. ASSUME NEW r \in Requests, ChangeRequestStep(r) PROVE TableInv' /\ StatusesFollow
    BY <2>1, ChangeCallFollows, ChangeWriteFollows, ChangeDispatchFollows DEF ChangeRequestStep
  <2>2. ASSUME NEW k \in ChangeRequests, MergeOnGitHub(k) PROVE TableInv' /\ StatusesFollow
    <3>1. UNCHANGED <<job, req, crStatus, prLinked, approved>>
      BY <2>2 DEF MergeOnGitHub, platformVars
    <3>2. \A m \in Jobs : ClaimsNothing(m)
      BY <3>1, SameJobClaims
    <3>3. \A q \in Requests : HandlerRelies(req'[q])
      BY <3>1 DEF TableInv
    <3> QED BY <3>1, <3>2, <3>3, NothingWritten
  <2> QED BY <1>3, <2>1, <2>2 DEF ChangeSide, GitHubStep
<1>4. CASE UNCHANGED nestFleetVars
  <2>1. UNCHANGED <<job, req, crStatus, prLinked, approved>>
    BY <1>4 DEF nestFleetVars, platformVars, changeVars
  <2>2. \A m \in Jobs : ClaimsNothing(m)
    BY <2>1, SameJobClaims
  <2>3. \A q \in Requests : HandlerRelies(req'[q])
    BY <2>1 DEF TableInv
  <2> QED BY <2>1, <2>2, <2>3, NothingWritten
<1> QED BY <1>1, <1>2, <1>3, <1>4 DEF NestFleetNext

\* While one request is handled at a time, beside any jobs, retries and webhooks, the
\* unguarded writes of corrections and webhooks and the writes of workers that come
\* long after their guards cost the status table of cr-state-machine.ts one thing
\* only: a rejected change request comes back, and only by a job that was past its
\* guard when it was rejected or by a passing check suite of its pull request.
THEOREM CrFollowsTableHolds ==
  ASSUME OneRequest
  PROVE  NestFleetSpec => CrFollowsTable
<1>1. NestFleetInit => TableInv
  BY TableInvInit
<1>2. WholeInv /\ TableInv /\ [NestFleetNext]_nestFleetVars => TableInv'
  BY TableInvNext
<1>3. WholeInv /\ TableInv /\ [NestFleetNext]_nestFleetVars =>
        [\A k \in ChangeRequests :
           crStatus[k] # "none" /\ crStatus'[k] # crStatus[k] =>
             IsCrTransitionAllowed(crStatus[k], crStatus'[k]) \/ ComesBack(k)]_changeControlVars
  BY TableInvNext DEF StatusesFollow
<1> QED BY <1>1, <1>2, <1>3, WholeInvHolds, PTL DEF NestFleetSpec, CrFollowsTable
=============================================================================
