------------------------ MODULE ChangeControlProofs ------------------------
(***************************************************************************)
(* Theorems about change control: it is well typed, nothing gets past the  *)
(* approval without a person, and it implements ApprovalGate.              *)
(*                                                                         *)
(* HumanApproval speaks of rows; it is inductive only together with what   *)
(* the requests in flight and the jobs in the queue are entitled to do,    *)
(* because a handler writes on the strength of a status it read earlier.   *)
(***************************************************************************)
EXTENDS ChangeControl, PlatformProofs

\* A row that exists belongs to a case; one that is past the approval, has a
\* pull request or is linked to one has been approved.
RowsAreSound ==
  \A k \in ChangeRequests :
    /\ crStatus[k] # "none" => crCase[k] \in Cases
    /\ k \in approved => crStatus[k] # "none"
    /\ crStatus[k] \in PastApproval \/ prState[k] # "none" \/ k \in prLinked
         => k \in approved

\* A job that will open a pull request works for an approved change request, one
\* that prepares the approval for an existing one.
JobsAreSound ==
  \A i \in Jobs :
    /\ job[i].action = "pr_draft_prep" => job[i].cr \in approved
    /\ job[i].action = "change_prep" =>
         job[i].cr \in ChangeRequests /\ crStatus[job[i].cr] # "none"

\* A request that may still write a status past the approval is about an
\* approved change request, or is the approval.
RequestsAreSound ==
  \A r \in Requests :
    /\ \/ req[r].op \in {"approve", "reject"}
       \/ req[r].op = "sendToChange" /\ req[r].pc = "commit"
       =>
         req[r].cr \in ChangeRequests /\ crStatus[req[r].cr] # "none"
    /\ req[r].op \in {"complete", "prMerged", "ciPassed"} => req[r].cr \in approved
    /\ req[r].op = "approve" /\ req[r].pc \in {"prepCheck", "prepWrite", "dispatch"}
         => req[r].cr \in approved

ApprovalInv ==
  ChangeControlTypeOK /\ RowsAreSound /\ JobsAreSound /\ RequestsAreSound

-----------------------------------------------------------------------------
(* Frame lemmas: what a step has to leave alone.                           *)

\* A step of one job that writes nothing.
LEMMA JobOnly ==
  ASSUME ApprovalInv, NEW i \in Jobs, job[i].pc # "free",
         (\E point \in JobPoints : Goto(i, point)) \/ Finish(i) \/ Fail(i),
         UNCHANGED <<caseStatus, failedJob, crStatus, crCase, req, prState,
                     prLinked, mergedAt, approved>>
  PROVE  ApprovalInv'
  <1>1. /\ JobTypeOK'
        /\ \A m \in Jobs : \/ job'[m] = FreeJob
                           \/ job'[m].action = job[m].action /\ job'[m].cr = job[m].cr
    BY JobMoves DEF ApprovalInv, ChangeControlTypeOK, PlatformTypeOK
  <1>2. ChangeControlTypeOK'
    BY <1>1 DEF ApprovalInv, ChangeControlTypeOK, PlatformTypeOK, RequestTypeOK
  <1>3. RowsAreSound' /\ RequestsAreSound'
    BY DEF ApprovalInv, RowsAreSound, RequestsAreSound
  <1>4. JobsAreSound'
    BY <1>1 DEF ApprovalInv, JobsAreSound, FreeJob
  <1> QED BY <1>2, <1>3, <1>4 DEF ApprovalInv

\* A request that goes on or is answered, and writes nothing.
LEMMA RequestOnly ==
  ASSUME ApprovalInv, NEW r \in Requests, req[r].pc # "idle",
         NEW point \in RequestPoints, Proceed(r, point) \/ Reply(r),
         req[r].op = "approve" /\ point \in {"prepCheck", "prepWrite", "dispatch"}
           => req[r].cr \in approved,
         point # "commit",
         UNCHANGED <<caseStatus, failedJob, crStatus, crCase, job, prState,
                     prLinked, mergedAt, approved>>
  PROVE  ApprovalInv'
  <1>1. /\ RequestTypeOK'
        /\ \A q \in Requests : \/ req'[q] = FreeRequest
                               \/ /\ req'[q].op = req[q].op /\ req'[q].cr = req[q].cr
                                  /\ req'[q].pc = IF q = r THEN point ELSE req[q].pc
    BY RequestMoves DEF ApprovalInv, ChangeControlTypeOK, PlatformTypeOK
  <1>2. ChangeControlTypeOK'
    BY <1>1 DEF ApprovalInv, ChangeControlTypeOK, PlatformTypeOK, JobTypeOK
  <1>3. RowsAreSound' /\ JobsAreSound'
    BY DEF ApprovalInv, RowsAreSound, JobsAreSound
  <1>4. RequestsAreSound'
    BY <1>1 DEF ApprovalInv, RequestsAreSound, FreeRequest
  <1> QED BY <1>2, <1>3, <1>4 DEF ApprovalInv

\* A step that writes the status of existing row k, and may approve that row or
\* link its pull request.
LEMMA StatusWriteSound ==
  ASSUME ApprovalInv, NEW k \in ChangeRequests, crStatus[k] # "none",
         NEW s \in CrStatuses, s \in PastApproval => k \in approved',
         crStatus' = [crStatus EXCEPT ![k] = s],
         approved' \in {approved, approved \cup {k}},
         prLinked' = prLinked \/ (prLinked' = prLinked \cup {k} /\ k \in approved),
         UNCHANGED <<crCase, prState>>
  PROVE  /\ crStatus' \in [ChangeRequests -> CrStatuses \cup {"none"}]
         /\ approved' \subseteq ChangeRequests /\ prLinked' \subseteq ChangeRequests
         /\ \A x \in ChangeRequests : crStatus[x] # "none" => crStatus'[x] # "none"
         /\ RowsAreSound'
  <1>1. "none" \notin CrStatuses
    BY DEF CrStatuses, CR_TRANSITIONS
  <1>2. /\ crStatus' \in [ChangeRequests -> CrStatuses \cup {"none"}]
        /\ approved' \subseteq ChangeRequests /\ prLinked' \subseteq ChangeRequests
    BY DEF ApprovalInv, ChangeControlTypeOK, PlatformTypeOK
  <1>3. \A x \in ChangeRequests : crStatus'[x] = IF x = k THEN s ELSE crStatus[x]
    BY DEF ApprovalInv, ChangeControlTypeOK, PlatformTypeOK
  <1>4. RowsAreSound'
    BY <1>1, <1>3 DEF ApprovalInv, RowsAreSound
  <1> QED BY <1>1, <1>2, <1>3, <1>4

\* A worker that writes a status goes on; what it and the others may do is as
\* before.
LEMMA WorkerWrites ==
  ASSUME ApprovalInv, NEW i \in Jobs, job[i].pc # "free",
         NEW point \in JobPoints, Goto(i, point),
         NEW s \in CrStatuses, s \in PastApproval => job[i].cr \in approved,
         job[i].cr \in ChangeRequests, crStatus[job[i].cr] # "none",
         crStatus' = [crStatus EXCEPT ![job[i].cr] = s],
         \/ prLinked' = prLinked
         \/ prLinked' = prLinked \cup {job[i].cr} /\ job[i].cr \in approved,
         UNCHANGED <<caseStatus, failedJob, crCase, req, prState, mergedAt, approved>>
  PROVE  ApprovalInv'
  <1>1. /\ JobTypeOK'
        /\ \A m \in Jobs : \/ job'[m] = FreeJob
                           \/ job'[m].action = job[m].action /\ job'[m].cr = job[m].cr
    BY JobMoves DEF ApprovalInv, ChangeControlTypeOK, PlatformTypeOK
  <1>2. /\ crStatus' \in [ChangeRequests -> CrStatuses \cup {"none"}]
        /\ approved' \subseteq ChangeRequests /\ prLinked' \subseteq ChangeRequests
        /\ \A x \in ChangeRequests : crStatus[x] # "none" => crStatus'[x] # "none"
        /\ RowsAreSound'
    <2>1. PICK k \in ChangeRequests : k = job[i].cr
      OBVIOUS
    <2>2. /\ crStatus[k] # "none" /\ (s \in PastApproval => k \in approved')
          /\ crStatus' = [crStatus EXCEPT ![k] = s]
      BY <2>1
    <2>3. /\ approved' \in {approved, approved \cup {k}}
          /\ prLinked' = prLinked \/ (prLinked' = prLinked \cup {k} /\ k \in approved)
      BY <2>1
    <2>4. UNCHANGED <<crCase, prState>>
      OBVIOUS
    <2> QED BY <2>2, <2>3, <2>4, StatusWriteSound
  <1>3. ChangeControlTypeOK'
    BY <1>1, <1>2 DEF ApprovalInv, ChangeControlTypeOK, PlatformTypeOK, RequestTypeOK
  <1>4. JobsAreSound'
    BY <1>1, <1>2 DEF ApprovalInv, JobsAreSound, FreeJob
  <1>5. RequestsAreSound'
    BY <1>2 DEF ApprovalInv, RequestsAreSound
  <1> QED BY <1>2, <1>3, <1>4, <1>5 DEF ApprovalInv

\* Likewise for a handler, which may also be the one that approves.
LEMMA HandlerWrites ==
  ASSUME ApprovalInv, NEW r \in Requests, req[r].pc # "idle",
         NEW point \in RequestPoints, Proceed(r, point), point # "commit",
         req[r].op = "approve" /\ point \in {"prepCheck", "prepWrite", "dispatch"}
           => req[r].cr \in approved',
         NEW s \in CrStatuses, s \in PastApproval => req[r].cr \in approved',
         req[r].cr \in ChangeRequests, crStatus[req[r].cr] # "none",
         crStatus' = [crStatus EXCEPT ![req[r].cr] = s],
         approved' \in {approved, approved \cup {req[r].cr}},
         UNCHANGED <<caseStatus, failedJob, crCase, job, prState, prLinked, mergedAt>>
  PROVE  ApprovalInv'
  <1>1. /\ RequestTypeOK'
        /\ \A q \in Requests : \/ req'[q] = FreeRequest
                               \/ /\ req'[q].op = req[q].op /\ req'[q].cr = req[q].cr
                                  /\ req'[q].pc = IF q = r THEN point ELSE req[q].pc
    BY RequestMoves DEF ApprovalInv, ChangeControlTypeOK, PlatformTypeOK
  <1>2. /\ crStatus' \in [ChangeRequests -> CrStatuses \cup {"none"}]
        /\ approved' \subseteq ChangeRequests /\ prLinked' \subseteq ChangeRequests
        /\ \A x \in ChangeRequests : crStatus[x] # "none" => crStatus'[x] # "none"
        /\ RowsAreSound'
    <2>1. PICK k \in ChangeRequests : k = req[r].cr
      OBVIOUS
    <2>2. /\ crStatus[k] # "none" /\ (s \in PastApproval => k \in approved')
          /\ crStatus' = [crStatus EXCEPT ![k] = s]
      BY <2>1
    <2>3. /\ approved' \in {approved, approved \cup {k}}
          /\ prLinked' = prLinked \/ (prLinked' = prLinked \cup {k} /\ k \in approved)
      BY <2>1
    <2>4. UNCHANGED <<crCase, prState>>
      OBVIOUS
    <2> QED BY <2>2, <2>3, <2>4, StatusWriteSound
  <1>3. ChangeControlTypeOK'
    BY <1>1, <1>2 DEF ApprovalInv, ChangeControlTypeOK, PlatformTypeOK, JobTypeOK
  <1>4. JobsAreSound'
    BY <1>2 DEF ApprovalInv, JobsAreSound
  <1>5. RequestsAreSound'
    BY <1>1, <1>2 DEF ApprovalInv, RequestsAreSound, FreeRequest
  <1> QED BY <1>2, <1>3, <1>4, <1>5 DEF ApprovalInv


-----------------------------------------------------------------------------
(* The invariant, component by component.                                  *)

\* Facts about the tables that the cases below use.
LEMMA CrStatusFacts ==
  /\ {"analysis", "approval-pending", "approved", "implementation-prep",
      "pr-drafted", "completed", "rejected"} \subseteq CrStatuses
  /\ "none" \notin CrStatuses
  /\ \A from : IsCrTransitionAllowed(from, "completed") => from \in PastApproval
  /\ \A from : IsCrTransitionAllowed(from, "implementation-prep") => from \in PastApproval
  BY DEF CrStatuses, CR_TRANSITIONS, IsCrTransitionAllowed, PastApproval

\* The points of the handlers of this component.
LEMMA HandlerPoints ==
  {"caseCheck", "caseWrite", "dispatch", "create", "commit", "crCheck", "crWrite",
   "prepCheck", "prepWrite", "loadCase", "record", "complete", "resolve"}
     \subseteq RequestPoints
  BY DEF RequestPoints

\* The change_prep worker.
LEMMA ChangePrepSound ==
  ASSUME ApprovalInv, NEW i \in Jobs,
         \/ ChangePrepStart(i) \/ ChangePrepToAnalysis(i) \/ ChangePrepWriteAnalysis(i)
         \/ ChangePrepToPending(i) \/ ChangePrepWritePending(i)
  PROVE  ApprovalInv'
  <1>1. /\ job[i].pc # "free" /\ job[i].action = "change_prep"
        /\ job[i].cr \in ChangeRequests /\ crStatus[job[i].cr] # "none"
    BY DEF ChangePrepStart, ChangePrepToAnalysis, ChangePrepWriteAnalysis,
           ChangePrepToPending, ChangePrepWritePending, At, ApprovalInv, JobsAreSound
  <1>2. CASE ChangePrepStart(i) \/ ChangePrepToAnalysis(i) \/ ChangePrepToPending(i)
    <2>1. \E point \in JobPoints : Goto(i, point)
      BY <1>2, PointsOfJobs DEF ChangePrepStart, ChangePrepToAnalysis, ChangePrepToPending
    <2> QED BY <1>1, <1>2, <2>1, JobOnly
            DEF ChangePrepStart, ChangePrepToAnalysis, ChangePrepToPending, dbVars, changeVars
  <1>3. ASSUME NEW s \in {"analysis", "approval-pending"},
               NEW point \in JobPoints, Goto(i, point),
               crStatus' = [crStatus EXCEPT ![job[i].cr] = s],
               UNCHANGED <<caseStatus, failedJob, crCase, req, changeVars>>
        PROVE  ApprovalInv'
    <2>1. s \in CrStatuses /\ s \notin PastApproval
      BY <1>3, CrStatusFacts DEF PastApproval
    <2>2. /\ prLinked' = prLinked
          /\ UNCHANGED <<caseStatus, failedJob, crCase, req, prState, mergedAt, approved>>
      BY <1>3 DEF changeVars
    <2> QED BY <1>1, <1>3, <2>1, <2>2, WorkerWrites
  <1>4. CASE ChangePrepWriteAnalysis(i) \/ ChangePrepWritePending(i)
    BY <1>3, <1>4, PointsOfJobs DEF ChangePrepWriteAnalysis, ChangePrepWritePending
  <1> QED BY <1>2, <1>4

\* The pr_draft_prep worker.
LEMMA PrDraftSound ==
  ASSUME ApprovalInv, NEW i \in Jobs,
         \/ PrDraftStart(i) \/ PrDraftGithub(i) \/ PrDraftCheck(i) \/ PrDraftWrite(i)
         \/ PrDraftLoadCase(i) \/ PrDraftCaseCheck(i) \/ PrDraftCaseWrite(i)
  PROVE  ApprovalInv'
  <1>1. /\ job[i].pc # "free" /\ job[i].action = "pr_draft_prep"
        /\ job[i].cr \in approved /\ job[i].cr \in ChangeRequests
        /\ crStatus[job[i].cr] # "none" /\ job[i] \in Job
    <2>1. job[i].pc # "free" /\ job[i].action = "pr_draft_prep"
      BY DEF PrDraftStart, PrDraftGithub, PrDraftCheck, PrDraftWrite, PrDraftLoadCase,
             PrDraftCaseCheck, PrDraftCaseWrite, At
    <2> QED BY <2>1, SlotHoldsJob DEF ApprovalInv, JobsAreSound, RowsAreSound,
                          ChangeControlTypeOK, PlatformTypeOK
  <1>2. CASE PrDraftStart(i) \/ PrDraftCheck(i) \/ PrDraftLoadCase(i) \/ PrDraftCaseCheck(i)
    <2>1. (\E point \in JobPoints : Goto(i, point)) \/ Finish(i)
      BY <1>2, PointsOfJobs DEF PrDraftStart, PrDraftCheck, PrDraftLoadCase, PrDraftCaseCheck
    <2> QED BY <1>1, <1>2, <2>1, JobOnly
            DEF PrDraftStart, PrDraftCheck, PrDraftLoadCase, PrDraftCaseCheck,
                dbVars, changeVars
  <1>3. CASE PrDraftGithub(i)
    <2>1. PICK plan \in {"linked", "unlinked"} :
            job' = [job EXCEPT ![i].plan = plan, ![i].pc = "toDrafted"]
      BY <1>3 DEF PrDraftGithub
    <2>2. /\ JobTypeOK'
          /\ \A m \in Jobs : job'[m].action = job[m].action /\ job'[m].cr = job[m].cr
      <3>1. [job[i] EXCEPT !.plan = plan, !.pc = "toDrafted"] \in Job
        BY <1>1, PointsOfJobs DEF Job, Plans
      <3>2. job' = [job EXCEPT ![i] = [job[i] EXCEPT !.plan = plan, !.pc = "toDrafted"]]
        BY <2>1 DEF ApprovalInv, ChangeControlTypeOK, PlatformTypeOK, JobTypeOK
      <3> QED BY <1>1, <3>1, <3>2 DEF ApprovalInv, ChangeControlTypeOK, PlatformTypeOK,
                                      JobTypeOK, Job
    <2>3. prState' = prState \/ prState' = [prState EXCEPT ![job[i].cr] = "open"]
      BY <1>3 DEF PrDraftGithub
    <2>4. UNCHANGED <<dbVars, req, prLinked, mergedAt, approved>>
      BY <1>3 DEF PrDraftGithub
    <2>5. ChangeControlTypeOK'
      BY <2>2, <2>3, <2>4 DEF dbVars, ApprovalInv, ChangeControlTypeOK, PlatformTypeOK,
                              RequestTypeOK
    <2>6. RowsAreSound'
      BY <1>1, <2>3, <2>4 DEF dbVars, ApprovalInv, RowsAreSound, ChangeControlTypeOK
    <2>7. JobsAreSound' /\ RequestsAreSound'
      BY <2>2, <2>4 DEF dbVars, ApprovalInv, JobsAreSound, RequestsAreSound
    <2> QED BY <2>5, <2>6, <2>7 DEF ApprovalInv
  <1>4. CASE PrDraftWrite(i)
    <2>1. "loadCase" \in JobPoints /\ "pr-drafted" \in CrStatuses
      BY PointsOfJobs, CrStatusFacts
    <2>2. /\ Goto(i, "loadCase")
          /\ crStatus' = [crStatus EXCEPT ![job[i].cr] = "pr-drafted"]
          /\ \/ prLinked' = prLinked
             \/ prLinked' = prLinked \cup {job[i].cr} /\ job[i].cr \in approved
          /\ UNCHANGED <<caseStatus, failedJob, crCase, req, prState, mergedAt, approved>>
      BY <1>1, <1>4 DEF PrDraftWrite
    <2> QED BY <1>1, <2>1, <2>2, WorkerWrites
  <1>5. CASE PrDraftCaseWrite(i)
    <2>1. /\ JobTypeOK'
          /\ \A m \in Jobs : \/ job'[m] = FreeJob
                             \/ job'[m].action = job[m].action /\ job'[m].cr = job[m].cr
      <3>1. Goto(i, "audit") /\ "audit" \in JobPoints
        BY <1>5, PointsOfJobs DEF PrDraftCaseWrite
      <3> QED BY <1>1, <3>1, JobMoves DEF ApprovalInv, ChangeControlTypeOK, PlatformTypeOK
    <2>2. "resolved" \in CaseStatuses
      BY DEF CaseStatuses, CASE_TRANSITIONS
    <2>3. ChangeControlTypeOK'
      BY <1>5, <2>1, <2>2 DEF PrDraftCaseWrite, changeVars, ApprovalInv,
                              ChangeControlTypeOK, PlatformTypeOK, RequestTypeOK
    <2>4. RowsAreSound' /\ JobsAreSound' /\ RequestsAreSound'
      BY <1>5, <2>1 DEF PrDraftCaseWrite, changeVars, ApprovalInv, RowsAreSound,
                        JobsAreSound, RequestsAreSound, FreeJob
    <2> QED BY <2>3, <2>4 DEF ApprovalInv
  <1> QED BY <1>2, <1>3, <1>4, <1>5

\* Accepting a request about change request k.
LEMMA AcceptSound ==
  ASSUME ApprovalInv, NEW r \in Requests, NEW k \in ChangeRequests,
         crStatus[k] # "none",
         NEW op \in {"approve", "reject", "complete", "prMerged", "ciPassed"},
         op \in {"complete", "prMerged", "ciPassed"} => k \in approved,
         NEW to \in CaseStatuses \cup {"none"}, NEW point \in {"crCheck", "record"},
         Accept(r, op, crCase[k], k, to, point),
         UNCHANGED <<dbVars, job, changeVars>>
  PROVE  ApprovalInv'
  <1>1. crCase[k] \in Cases /\ op \in Ops /\ point \in RequestPoints
    BY HandlerPoints DEF ApprovalInv, RowsAreSound, Ops, CaseOps
  <1>2. RequestTypeOK'
    BY <1>1, AcceptType DEF ApprovalInv, ChangeControlTypeOK, PlatformTypeOK
  <1>3. ChangeControlTypeOK'
    BY <1>2 DEF ApprovalInv, ChangeControlTypeOK, PlatformTypeOK, JobTypeOK, dbVars, changeVars
  <1>4. RowsAreSound' /\ JobsAreSound'
    BY DEF ApprovalInv, RowsAreSound, JobsAreSound, dbVars, changeVars
  <1>5. \A q \in Requests : IF q = r THEN req'[q].op = op /\ req'[q].cr = k /\ req'[q].pc = point
                                     ELSE req'[q] = req[q]
    BY DEF Accept, ApprovalInv, ChangeControlTypeOK, PlatformTypeOK, RequestTypeOK
  <1>6. RequestsAreSound'
    BY <1>5 DEF ApprovalInv, RequestsAreSound, dbVars, changeVars
  <1> QED BY <1>3, <1>4, <1>6 DEF ApprovalInv

\* The requests that people and webhooks start.
LEMMA CallsSound ==
  ASSUME ApprovalInv, NEW r \in Requests, NEW k \in ChangeRequests,
         Approve(r, k) \/ Reject(r, k) \/ Complete(r, k) \/ PrMerged(r, k) \/ CiPassed(r, k)
  PROVE  ApprovalInv'
  <1>1. {"none", "awaiting-lead", "resolved"} \subseteq CaseStatuses \cup {"none"}
    BY DEF CaseStatuses, CASE_TRANSITIONS
  <1>2. CASE Approve(r, k)
    BY <1>1, <1>2, AcceptSound DEF Approve
  <1>3. CASE Reject(r, k)
    BY <1>1, <1>3, AcceptSound DEF Reject
  <1>4. CASE Complete(r, k)
    <2>1. k \in approved
      BY <1>4 DEF Complete, ApprovalInv, RowsAreSound, PastApproval
    <2> QED BY <1>1, <1>4, <2>1, AcceptSound DEF Complete
  <1>5. CASE PrMerged(r, k) \/ CiPassed(r, k)
    <2>1. k \in approved /\ crStatus[k] # "none"
      BY <1>5 DEF PrMerged, CiPassed, ApprovalInv, RowsAreSound
    <2> QED BY <1>1, <1>5, <2>1, AcceptSound DEF PrMerged, CiPassed
  <1> QED BY <1>2, <1>3, <1>4, <1>5

\* send-to-change: a request without a change request, then one with a new row,
\* then the job for that row.
LEMMA SendToChangeSound ==
  ASSUME ApprovalInv, NEW r \in Requests,
         \/ \E c \in Cases : SendToChange(r, c)
         \/ SendToChangeCreate(r) \/ SendToChangeCommit(r)
  PROVE  ApprovalInv'
  <1>1. ASSUME NEW c \in Cases, SendToChange(r, c)
        PROVE  ApprovalInv'
    <2>1. "sendToChange" \in Ops /\ "create" \in RequestPoints
      BY HandlerPoints DEF Ops
    <2>2. Accept(r, "sendToChange", c, None, "none", "create")
          /\ UNCHANGED <<dbVars, job, changeVars>>
      BY <1>1 DEF SendToChange
    <2>3. RequestTypeOK'
      BY <2>1, <2>2, AcceptType DEF ApprovalInv, ChangeControlTypeOK, PlatformTypeOK
    <2>4. ChangeControlTypeOK'
      BY <2>2, <2>3 DEF ApprovalInv, ChangeControlTypeOK, PlatformTypeOK, JobTypeOK,
                        dbVars, changeVars
    <2>5. RowsAreSound' /\ JobsAreSound'
      BY <2>2 DEF ApprovalInv, RowsAreSound, JobsAreSound, dbVars, changeVars
    <2>6. \A q \in Requests :
            IF q = r THEN req'[q].op = "sendToChange" /\ req'[q].pc = "create"
                     ELSE req'[q] = req[q]
      BY <2>2 DEF Accept, ApprovalInv, ChangeControlTypeOK, PlatformTypeOK, RequestTypeOK
    <2>7. RequestsAreSound'
      BY <2>2, <2>6 DEF ApprovalInv, RequestsAreSound, dbVars, changeVars
    <2> QED BY <2>4, <2>5, <2>7 DEF ApprovalInv
  <1>2. CASE SendToChangeCreate(r)
    <2>1. req[r] \in Request /\ req[r].op = "sendToChange"
      BY <1>2, HandledIsRequest DEF SendToChangeCreate, Handling, ApprovalInv,
                                    ChangeControlTypeOK, PlatformTypeOK
    <2>2. PICK k \in ChangeRequests :
            /\ CreateChangeRequest(k, req[r].case)
            /\ req' = [req EXCEPT ![r].cr = k, ![r].pc = "commit"]
      BY <1>2 DEF SendToChangeCreate
    <2>3. PICK d \in Cases : d = req[r].case
      BY <2>1 DEF Request
    <2>4. CreateChangeRequest(k, d)
      BY <2>2, <2>3
    <2>5. UNCHANGED <<caseStatus, failedJob, job, prState, prLinked, mergedAt, approved>>
      BY <1>2 DEF SendToChangeCreate, changeVars
    <2>6. /\ crStatus' \in [ChangeRequests -> CrStatuses \cup {"none"}]
          /\ crCase' \in [ChangeRequests -> Cases \cup {None}]
      BY <2>4, CreateChangeRequestType DEF ApprovalInv, ChangeControlTypeOK
    <2>7. /\ crStatus[k] = "none"
          /\ \A x \in ChangeRequests :
               /\ crStatus'[x] = IF x = k THEN "draft" ELSE crStatus[x]
               /\ crCase'[x] = IF x = k THEN d ELSE crCase[x]
      BY <2>4 DEF CreateChangeRequest, ApprovalInv, ChangeControlTypeOK, PlatformTypeOK
    <2>8. RequestTypeOK' /\ \A q \in Requests :
            IF q = r THEN req'[q].op = "sendToChange" /\ req'[q].cr = k
                     ELSE req'[q] = req[q]
      <3>1. [req[r] EXCEPT !.cr = k, !.pc = "commit"] \in Request
        BY <2>1, HandlerPoints DEF Request
      <3>2. req' = [req EXCEPT ![r] = [req[r] EXCEPT !.cr = k, !.pc = "commit"]]
        BY <2>2 DEF ApprovalInv, ChangeControlTypeOK, PlatformTypeOK, RequestTypeOK
      <3> QED BY <2>1, <3>1, <3>2 DEF ApprovalInv, ChangeControlTypeOK, PlatformTypeOK,
                                      RequestTypeOK, Request
    <2>9. ChangeControlTypeOK'
      BY <2>5, <2>6, <2>8 DEF ApprovalInv, ChangeControlTypeOK, PlatformTypeOK, JobTypeOK
    <2>10. RowsAreSound'
      BY <2>5, <2>7 DEF ApprovalInv, RowsAreSound, PastApproval
    <2>11. JobsAreSound'
      BY <2>5, <2>7 DEF ApprovalInv, JobsAreSound
    <2>12. RequestsAreSound'
      BY <2>5, <2>7, <2>8 DEF ApprovalInv, RequestsAreSound
    <2> QED BY <2>9, <2>10, <2>11, <2>12 DEF ApprovalInv
  <1>3. CASE SendToChangeCommit(r)
    <2>1. /\ req[r] \in Request /\ req[r].case \in Cases
          /\ req[r].cr \in ChangeRequests /\ crStatus[req[r].cr] # "none"
      BY <1>3, HandledIsRequest DEF SendToChangeCommit, Handling, ApprovalInv, Request,
           RequestsAreSound, ChangeControlTypeOK, PlatformTypeOK
    <2>2. PICK n \in Jobs : Enqueue(n, NewJob("change_prep", req[r].case, req[r].cr, FALSE))
      BY <1>3 DEF SendToChangeCommit
    <2>3. NewJob("change_prep", req[r].case, req[r].cr, FALSE) \in Job
      <3>1. "change_prep" \in ActionTypes
        BY DEF ActionTypes, WorkerPoints
      <3> QED BY <2>1, <3>1, NewJobType
    <2>4. JobTypeOK'
      BY <2>2, <2>3, EnqueueType DEF ApprovalInv, ChangeControlTypeOK, PlatformTypeOK
    <2>5. \A m \in Jobs : IF m = n THEN job'[m].action = "change_prep" /\ job'[m].cr = req[r].cr
                                   ELSE job'[m] = job[m]
      BY <2>2 DEF Enqueue, NewJob, ApprovalInv, ChangeControlTypeOK, PlatformTypeOK, JobTypeOK
    <2>6. RequestTypeOK' /\ \A q \in Requests : req'[q] = FreeRequest \/ req'[q] = req[q]
      <3>1. Reply(r)
        BY <1>3 DEF SendToChangeCommit
      <3> QED BY <3>1, ReplyType DEF Reply, ApprovalInv, ChangeControlTypeOK, PlatformTypeOK,
                                     RequestTypeOK
    <2>7. /\ caseStatus' \in [Cases -> CaseStatuses \cup {"none"}]
          /\ UNCHANGED <<failedJob, crStatus, crCase, prState, prLinked, mergedAt, approved>>
      <3>1. "in-change" \in CaseStatuses
        BY DEF CaseStatuses, CASE_TRANSITIONS
      <3> QED BY <1>3, <2>1, <3>1 DEF SendToChangeCommit, changeVars, ApprovalInv,
                                      ChangeControlTypeOK, PlatformTypeOK
    <2>8. ChangeControlTypeOK'
      BY <2>4, <2>6, <2>7 DEF ApprovalInv, ChangeControlTypeOK, PlatformTypeOK
    <2>9. RowsAreSound' /\ RequestsAreSound'
      BY <2>6, <2>7 DEF ApprovalInv, RowsAreSound, RequestsAreSound, FreeRequest
    <2>10. JobsAreSound'
      BY <2>1, <2>5, <2>7 DEF ApprovalInv, JobsAreSound
    <2> QED BY <2>8, <2>9, <2>10 DEF ApprovalInv
  <1> QED BY <1>1, <1>2, <1>3

\* Handlers that only go on: the guards, the loads, the bookkeeping of webhooks.
LEMMA HandlersGoOn ==
  ASSUME ApprovalInv, NEW r \in Requests,
         \/ CrCheck(r) \/ ApprovePrepCheck(r) \/ LoadCase(r)
         \/ PrMergedRecord(r) \/ CiPassedRecord(r)
  PROVE  ApprovalInv'
  <1>1. CASE CrCheck(r) \/ LoadCase(r) \/ CiPassedRecord(r)
    <2>1. PICK point \in {"crWrite", "caseCheck", "complete"} : Proceed(r, point) \/ Reply(r)
      BY <1>1 DEF CrCheck, LoadCase, CiPassedRecord
    <2>2. req[r].pc # "idle"
      BY <1>1 DEF CrCheck, LoadCase, CiPassedRecord, Handling
    <2>3. UNCHANGED <<caseStatus, failedJob, crStatus, crCase, job, prState,
                      prLinked, mergedAt, approved>>
      BY <1>1 DEF CrCheck, LoadCase, CiPassedRecord, dbVars, changeVars
    <2> QED BY <2>1, <2>2, <2>3, HandlerPoints, RequestOnly
  <1>2. CASE ApprovePrepCheck(r)
    <2>1. Proceed(r, "prepWrite") /\ req[r].pc # "idle" /\ req[r].cr \in approved
      BY <1>2 DEF ApprovePrepCheck, Handling, ApprovalInv, RequestsAreSound
    <2>2. UNCHANGED <<caseStatus, failedJob, crStatus, crCase, job, prState,
                      prLinked, mergedAt, approved>>
      BY <1>2 DEF ApprovePrepCheck, dbVars, changeVars
    <2> QED BY <2>1, <2>2, HandlerPoints, RequestOnly
  <1>3. CASE PrMergedRecord(r)
    <2>1. /\ req[r].pc # "idle" /\ req[r].cr \in approved
          /\ Proceed(r, "complete") \/ Reply(r)
          /\ mergedAt' = mergedAt \cup {req[r].cr}
          /\ UNCHANGED <<caseStatus, failedJob, crStatus, crCase, job, prState,
                         prLinked, approved>>
      BY <1>3 DEF PrMergedRecord, Handling, ApprovalInv, RequestsAreSound, dbVars
    <2>2. /\ RequestTypeOK'
          /\ \A q \in Requests :
               \/ req'[q] = FreeRequest
               \/ /\ req'[q].op = req[q].op /\ req'[q].cr = req[q].cr
                  /\ req'[q].pc = IF q = r THEN "complete" ELSE req[q].pc
      BY <2>1, HandlerPoints, RequestMoves DEF ApprovalInv, ChangeControlTypeOK, PlatformTypeOK
    <2>3. ChangeControlTypeOK'
      BY <2>1, <2>2 DEF ApprovalInv, ChangeControlTypeOK, PlatformTypeOK, JobTypeOK
    <2>4. RowsAreSound' /\ JobsAreSound'
      BY <2>1 DEF ApprovalInv, RowsAreSound, JobsAreSound
    <2>5. RequestsAreSound'
      BY <2>1, <2>2 DEF ApprovalInv, RequestsAreSound, FreeRequest
    <2> QED BY <2>3, <2>4, <2>5 DEF ApprovalInv
  <1> QED BY <1>1, <1>2, <1>3

\* Handlers that write the status of a change request.
LEMMA HandlersWrite ==
  ASSUME ApprovalInv, NEW r \in Requests,
         CrWrite(r) \/ ApprovePrepWrite(r) \/ PrMergedComplete(r) \/ CiPassedComplete(r)
  PROVE  ApprovalInv'
  <1>1. CASE CrWrite(r) /\ req[r].op = "approve"
    <2>1. /\ Proceed(r, "prepCheck") /\ req[r].pc # "idle"
          /\ crStatus' = [crStatus EXCEPT ![req[r].cr] = "approved"]
          /\ approved' = approved \cup {req[r].cr}
          /\ UNCHANGED <<caseStatus, failedJob, crCase, job, prState, prLinked, mergedAt>>
      BY <1>1 DEF CrWrite, CrTarget
    <2>2. req[r].cr \in ChangeRequests /\ crStatus[req[r].cr] # "none"
      BY <1>1 DEF ApprovalInv, RequestsAreSound
    <2> QED BY <2>1, <2>2, HandlerPoints, CrStatusFacts, HandlerWrites
  <1>2. CASE CrWrite(r) /\ req[r].op = "reject"
    <2>1. /\ Proceed(r, "loadCase") /\ req[r].pc # "idle"
          /\ crStatus' = [crStatus EXCEPT ![req[r].cr] = "rejected"]
          /\ approved' = approved
          /\ UNCHANGED <<caseStatus, failedJob, crCase, job, prState, prLinked, mergedAt>>
      BY <1>2 DEF CrWrite, CrTarget
    <2>2. req[r].cr \in ChangeRequests /\ crStatus[req[r].cr] # "none"
      BY <1>2 DEF ApprovalInv, RequestsAreSound
    <2>3. "rejected" \notin PastApproval
      BY DEF PastApproval
    <2> QED BY <2>1, <2>2, <2>3, HandlerPoints, CrStatusFacts, HandlerWrites
  <1>3. CASE \/ CrWrite(r) /\ req[r].op = "complete"
             \/ PrMergedComplete(r) \/ CiPassedComplete(r)
    <2>1. /\ req[r].cr \in approved /\ req[r].cr \in ChangeRequests
          /\ crStatus[req[r].cr] # "none"
      BY <1>3 DEF PrMergedComplete, CiPassedComplete, Handling, ApprovalInv,
                  RequestsAreSound, RowsAreSound, ChangeControlTypeOK
    <2>2. PICK point \in {"loadCase", "resolve"} : Proceed(r, point)
      BY <1>3 DEF CrWrite, PrMergedComplete, CiPassedComplete
    <2>3. /\ req[r].pc # "idle" /\ req[r].op # "approve"
          /\ crStatus' = [crStatus EXCEPT ![req[r].cr] = "completed"]
          /\ approved' = approved
          /\ UNCHANGED <<caseStatus, failedJob, crCase, job, prState, prLinked, mergedAt>>
      BY <1>3 DEF CrWrite, CrTarget, PrMergedComplete, CiPassedComplete, Handling, changeVars
    <2> QED BY <2>1, <2>2, <2>3, HandlerPoints, CrStatusFacts, HandlerWrites
  <1>4. CASE ApprovePrepWrite(r)
    <2>1. /\ Proceed(r, "dispatch") /\ req[r].pc # "idle" /\ req[r].cr \in approved
          /\ crStatus' = [crStatus EXCEPT ![req[r].cr] = "implementation-prep"]
          /\ approved' = approved
          /\ UNCHANGED <<caseStatus, failedJob, crCase, job, prState, prLinked, mergedAt>>
      BY <1>4 DEF ApprovePrepWrite, Handling, changeVars, ApprovalInv, RequestsAreSound
    <2>2. req[r].cr \in ChangeRequests /\ crStatus[req[r].cr] # "none"
      BY <2>1 DEF ApprovalInv, RowsAreSound, ChangeControlTypeOK
    <2> QED BY <2>1, <2>2, HandlerPoints, CrStatusFacts, HandlerWrites
  <1>5. CrWrite(r) => req[r].op \in {"approve", "reject", "complete"}
    BY DEF CrWrite, CrTarget
  <1> QED BY <1>1, <1>2, <1>3, <1>4, <1>5

\* The approval's dispatch of the job that opens the pull request.
LEMMA ApproveDispatchSound ==
  ASSUME ApprovalInv, NEW r \in Requests, ApproveDispatch(r)
  PROVE  ApprovalInv'
  <1>1. /\ req[r] \in Request /\ req[r].case \in Cases /\ req[r].cr \in ChangeRequests
        /\ req[r].cr \in approved
    BY HandledIsRequest DEF ApproveDispatch, Handling, ApprovalInv, Request,
         RequestsAreSound, ChangeControlTypeOK, PlatformTypeOK
  <1>2. PICK n \in Jobs : Enqueue(n, NewJob("pr_draft_prep", req[r].case, req[r].cr, FALSE))
    BY DEF ApproveDispatch
  <1>3. NewJob("pr_draft_prep", req[r].case, req[r].cr, FALSE) \in Job
    <2>1. "pr_draft_prep" \in ActionTypes
      BY DEF ActionTypes, WorkerPoints
    <2> QED BY <1>1, <2>1, NewJobType
  <1>4. JobTypeOK'
    BY <1>2, <1>3, EnqueueType DEF ApprovalInv, ChangeControlTypeOK, PlatformTypeOK
  <1>5. \A m \in Jobs : IF m = n THEN job'[m].action = "pr_draft_prep" /\ job'[m].cr = req[r].cr
                                 ELSE job'[m] = job[m]
    BY <1>2 DEF Enqueue, NewJob, ApprovalInv, ChangeControlTypeOK, PlatformTypeOK, JobTypeOK
  <1>6. RequestTypeOK' /\ \A q \in Requests : req'[q] = FreeRequest \/ req'[q] = req[q]
    <2>1. Reply(r)
      BY DEF ApproveDispatch
    <2> QED BY <2>1, ReplyType DEF Reply, ApprovalInv, ChangeControlTypeOK, PlatformTypeOK,
                                   RequestTypeOK
  <1>7. UNCHANGED <<caseStatus, failedJob, crStatus, crCase, prState, prLinked, mergedAt, approved>>
    BY DEF ApproveDispatch, dbVars, changeVars
  <1>8. ChangeControlTypeOK'
    BY <1>4, <1>6, <1>7 DEF ApprovalInv, ChangeControlTypeOK, PlatformTypeOK
  <1>9. RowsAreSound' /\ RequestsAreSound'
    BY <1>6, <1>7 DEF ApprovalInv, RowsAreSound, RequestsAreSound, FreeRequest
  <1>10. JobsAreSound'
    BY <1>1, <1>5, <1>7 DEF ApprovalInv, JobsAreSound
  <1> QED BY <1>8, <1>9, <1>10 DEF ApprovalInv

\* The webhook's write of the case.
LEMMA CiPassedResolveSound ==
  ASSUME ApprovalInv, NEW r \in Requests, CiPassedResolve(r)
  PROVE  ApprovalInv'
  <1>1. RequestTypeOK' /\ \A q \in Requests : req'[q] = FreeRequest \/ req'[q] = req[q]
    <2>1. Reply(r)
      BY DEF CiPassedResolve
    <2> QED BY <2>1, ReplyType DEF Reply, ApprovalInv, ChangeControlTypeOK, PlatformTypeOK,
                                   RequestTypeOK
  <1>2. "resolved" \in CaseStatuses
    BY DEF CaseStatuses, CASE_TRANSITIONS
  <1>3. /\ caseStatus' \in [Cases -> CaseStatuses \cup {"none"}]
        /\ UNCHANGED <<failedJob, crStatus, crCase, job, prState, prLinked, mergedAt, approved>>
    BY <1>2 DEF CiPassedResolve, changeVars, ApprovalInv, ChangeControlTypeOK, PlatformTypeOK
  <1>4. ChangeControlTypeOK'
    BY <1>1, <1>3 DEF ApprovalInv, ChangeControlTypeOK, PlatformTypeOK, JobTypeOK
  <1>5. RowsAreSound' /\ JobsAreSound' /\ RequestsAreSound'
    BY <1>1, <1>3 DEF ApprovalInv, RowsAreSound, JobsAreSound, RequestsAreSound, FreeRequest
  <1> QED BY <1>4, <1>5 DEF ApprovalInv

\* The queue's own steps.
LEMMA QueueSound ==
  ASSUME ApprovalInv, NEW i \in Jobs, SharedJobStep(i)
  PROVE  ApprovalInv'
  <1>1. PlatformTypeOK'
    BY QueueStepType DEF SharedJobStep, ApprovalInv, ChangeControlTypeOK
  <1>2. /\ job[i].pc # "free" /\ (Finish(i) \/ Fail(i))
        /\ UNCHANGED <<crStatus, crCase, req, prState, prLinked, mergedAt, approved>>
    BY DEF SharedJobStep, WorkerFinish, JobFails, DeadLetter, Running, dbVars, changeVars
  <1>3. \A m \in Jobs : \/ job'[m] = FreeJob
                        \/ job'[m].action = job[m].action /\ job'[m].cr = job[m].cr
    BY <1>2, JobMoves DEF ApprovalInv, ChangeControlTypeOK, PlatformTypeOK
  <1>4. ChangeControlTypeOK'
    BY <1>1, <1>2 DEF ApprovalInv, ChangeControlTypeOK
  <1>5. RowsAreSound' /\ JobsAreSound' /\ RequestsAreSound'
    BY <1>2, <1>3 DEF ApprovalInv, RowsAreSound, JobsAreSound, RequestsAreSound, FreeJob
  <1> QED BY <1>4, <1>5 DEF ApprovalInv

\* The end of a request on its case, and its failure.
LEMMA CaseStepsSound ==
  ASSUME ApprovalInv, NEW r \in Requests, SharedRequestStep(r)
  PROVE  ApprovalInv'
  <1>1. PlatformTypeOK'
    BY CaseRequestStepType DEF SharedRequestStep, ApprovalInv, ChangeControlTypeOK
  <1>2. /\ req[r].pc # "idle"
        /\ UNCHANGED <<crStatus, crCase, job, prState, prLinked, mergedAt, approved>>
    BY DEF SharedRequestStep, CaseCheck, CaseWrite, RequestFails, Idle, dbVars, changeVars
  <1>3. \/ Proceed(r, "caseWrite") \/ Reply(r)
        \/ Proceed(r, "dispatch") /\ req[r].op # "approve"
    BY DEF SharedRequestStep, CaseCheck, CaseWrite, RequestFails
  <1>4. PICK point \in {"caseWrite", "dispatch"} :
          /\ Proceed(r, point) \/ Reply(r)
          /\ point = "dispatch" => req[r].op # "approve"
    BY <1>3
  <1>5. \A q \in Requests : \/ req'[q] = FreeRequest
                            \/ /\ req'[q].op = req[q].op /\ req'[q].cr = req[q].cr
                               /\ req'[q].pc = IF q = r THEN point ELSE req[q].pc
    BY <1>2, <1>4, HandlerPoints, RequestMoves DEF ApprovalInv, ChangeControlTypeOK, PlatformTypeOK
  <1>6. ChangeControlTypeOK'
    BY <1>1, <1>2 DEF ApprovalInv, ChangeControlTypeOK
  <1>7. RowsAreSound' /\ JobsAreSound'
    BY <1>2 DEF ApprovalInv, RowsAreSound, JobsAreSound
  <1>8. RequestsAreSound'
    BY <1>2, <1>4, <1>5 DEF ApprovalInv, RequestsAreSound, FreeRequest
  <1> QED BY <1>6, <1>7, <1>8 DEF ApprovalInv

\* A merge at GitHub.
LEMMA MergeSound ==
  ASSUME ApprovalInv, NEW k \in ChangeRequests, MergeOnGitHub(k)
  PROVE  ApprovalInv'
  <1>1. /\ prState[k] = "open" /\ prState' = [prState EXCEPT ![k] = "merged"]
        /\ UNCHANGED <<caseStatus, failedJob, crStatus, crCase, job, req,
                       prLinked, mergedAt, approved>>
    BY DEF MergeOnGitHub, platformVars
  <1>2. ChangeControlTypeOK'
    BY <1>1 DEF ApprovalInv, ChangeControlTypeOK, PlatformTypeOK, JobTypeOK, RequestTypeOK
  <1>3. RowsAreSound'
    BY <1>1 DEF ApprovalInv, RowsAreSound, ChangeControlTypeOK
  <1>4. JobsAreSound' /\ RequestsAreSound'
    BY <1>1 DEF ApprovalInv, JobsAreSound, RequestsAreSound
  <1> QED BY <1>2, <1>3, <1>4 DEF ApprovalInv

-----------------------------------------------------------------------------
(* The theorems.                                                           *)

\* The component starts in the invariant.
LEMMA ApprovalInvInit ==
  ASSUME ChangeControlInit
  PROVE  ApprovalInv
  <1>1. "awaiting-lead" \in CaseStatuses
    BY DEF CaseStatuses, CASE_TRANSITIONS
  <1>2. ChangeControlTypeOK
    BY <1>1 DEF ChangeControlInit, ChangeInit, ChangeControlTypeOK, PlatformTypeOK,
                JobTypeOK, RequestTypeOK
  <1>3. RowsAreSound
    BY DEF ChangeControlInit, ChangeInit, RowsAreSound, PastApproval
  <1>4. JobsAreSound /\ RequestsAreSound
    BY DEF ChangeControlInit, JobsAreSound, RequestsAreSound, FreeJob, FreeRequest
  <1> QED BY <1>2, <1>3, <1>4 DEF ApprovalInv

\* Every step keeps the invariant.
LEMMA ApprovalInvNext ==
  ASSUME ApprovalInv, [ChangeControlNext]_changeControlVars
  PROVE  ApprovalInv'
  <1>1. ASSUME NEW i \in Jobs, ChangeJobStep(i)
        PROVE  ApprovalInv'
    BY <1>1, ChangePrepSound, PrDraftSound DEF ChangeJobStep
  <1>2. ASSUME NEW i \in Jobs, SharedJobStep(i)
        PROVE  ApprovalInv'
    BY <1>2, QueueSound
  <1>3. ASSUME NEW r \in Requests, ChangeRequestStep(r)
        PROVE  ApprovalInv'
    BY <1>3, SendToChangeSound, CallsSound, HandlersGoOn, HandlersWrite,
       ApproveDispatchSound, CiPassedResolveSound DEF ChangeRequestStep
  <1>4. ASSUME NEW r \in Requests, SharedRequestStep(r)
        PROVE  ApprovalInv'
    BY <1>4, CaseStepsSound
  <1>5. ASSUME GitHubStep
        PROVE  ApprovalInv'
    BY <1>5, MergeSound DEF GitHubStep
  <1>6. ASSUME UNCHANGED changeControlVars
        PROVE  ApprovalInv'
    BY <1>6 DEF changeControlVars, platformVars, changeVars, ApprovalInv,
                ChangeControlTypeOK, PlatformTypeOK, JobTypeOK, RequestTypeOK,
                RowsAreSound, JobsAreSound, RequestsAreSound
  <1> QED BY <1>1, <1>2, <1>3, <1>4, <1>5, <1>6 DEF ChangeControlNext

\* The invariant holds in every behaviour.
THEOREM ApprovalInvariant == ChangeControlSpec => []ApprovalInv
  <1>1. ChangeControlInit => ApprovalInv
    BY ApprovalInvInit
  <1>2. ApprovalInv /\ [ChangeControlNext]_changeControlVars => ApprovalInv'
    BY ApprovalInvNext
  <1> QED BY <1>1, <1>2, PTL DEF ChangeControlSpec

\* Every variable of change control keeps its type: approvals.ts, pr-drafts.ts,
\* github.ts and the two workers never write a status outside the tables.
THEOREM ChangeControlTypeCorrect == ChangeControlSpec => []ChangeControlTypeOK
  <1>1. ApprovalInv => ChangeControlTypeOK
    BY DEF ApprovalInv
  <1> QED BY <1>1, ApprovalInvariant, PTL

\* For any number of change requests, concurrent requests and jobs, any retry
\* limit and any interleaving, nothing gets past the approval of a change request
\* and no pull request is opened for it unless a lead approved it.
THEOREM HumanApprovalHolds == ChangeControlSpec => []HumanApproval
  <1>1. ApprovalInv => HumanApproval
    BY DEF ApprovalInv, RowsAreSound, HumanApproval
  <1> QED BY <1>1, ApprovalInvariant, PTL

-----------------------------------------------------------------------------
(* Refinement: change control implements the approval gate.                *)

\* A write of one status delivers, recalls or leaves the gate as it is.
LEMMA StatusIsGateStep ==
  ASSUME ApprovalInv, NEW k \in ChangeRequests, NEW s,
         crStatus' = [crStatus EXCEPT ![k] = s],
         s = "completed" => k \in approved,
         approved' = approved, prState' = prState
  PROVE  Gate!GateNext
  <1>1. \A x \in ChangeRequests : crStatus'[x] = IF x = k THEN s ELSE crStatus[x]
    BY DEF ApprovalInv, ChangeControlTypeOK, PlatformTypeOK
  <1>2. CASE s = "completed"
    <2>1. Gate!Deliver(k)
      BY <1>1, <1>2 DEF Gate!Deliver
    <2> QED BY <2>1 DEF Gate!GateNext
  <1>3. CASE s # "completed"
    <2>1. Gate!Recall(k)
      BY <1>1, <1>3 DEF Gate!Recall
    <2> QED BY <2>1 DEF Gate!GateNext
  <1> QED BY <1>2, <1>3

\* A lead's approval sanctions; approving a change request that has gone further
\* in the meantime takes its delivery back.
LEMMA ApprovalIsGateStep ==
  ASSUME ApprovalInv, NEW k \in ChangeRequests,
         crStatus' = [crStatus EXCEPT ![k] = "approved"],
         approved' = approved \cup {k}, prState' = prState
  PROVE  Gate!GateNext
  <1>1. \A x \in ChangeRequests : crStatus'[x] = IF x = k THEN "approved" ELSE crStatus[x]
    BY DEF ApprovalInv, ChangeControlTypeOK, PlatformTypeOK
  <1>2. CASE k \in approved
    <2>1. Gate!Recall(k)
      BY <1>1, <1>2 DEF Gate!Recall
    <2> QED BY <2>1 DEF Gate!GateNext
  <1>3. CASE k \notin approved
    <2>1. crStatus[k] # "completed"
      BY <1>3 DEF ApprovalInv, RowsAreSound, PastApproval
    <2>2. Gate!Sanction(k)
      BY <1>1, <2>1 DEF Gate!Sanction
    <2> QED BY <2>2 DEF Gate!GateNext
  <1> QED BY <1>2, <1>3

\* Opening or merging the pull request of an approved change request publishes.
LEMMA PullRequestIsGateStep ==
  ASSUME ApprovalInv, NEW k \in approved, NEW s \in {"open", "merged"},
         prState' = [prState EXCEPT ![k] = s],
         approved' = approved, crStatus' = crStatus
  PROVE  Gate!GateNext
  <1>1. k \in ChangeRequests
    BY DEF ApprovalInv, ChangeControlTypeOK
  <1>2. \A x \in ChangeRequests : prState'[x] = IF x = k THEN s ELSE prState[x]
    BY DEF ApprovalInv, ChangeControlTypeOK
  <1>3. Gate!Publish(k)
    BY <1>1, <1>2 DEF Gate!Publish
  <1> QED BY <1>1, <1>3 DEF Gate!GateNext

\* A step that touches none of the three is a stutter.
LEMMA OtherIsGateStutter ==
  ASSUME UNCHANGED <<crStatus, prState, approved>>
  PROVE  UNCHANGED Gate!gateVars
  BY DEF Gate!gateVars

\* Each step of a job.
LEMMA JobIsGateStep ==
  ASSUME ApprovalInv, NEW i \in Jobs, ChangeJobStep(i) \/ SharedJobStep(i)
  PROVE  Gate!GateNext \/ UNCHANGED Gate!gateVars
  <1>1. CASE \/ ChangePrepStart(i) \/ ChangePrepToAnalysis(i) \/ ChangePrepToPending(i)
             \/ PrDraftStart(i) \/ PrDraftCheck(i) \/ PrDraftLoadCase(i)
             \/ PrDraftCaseCheck(i) \/ PrDraftCaseWrite(i) \/ SharedJobStep(i)
    BY <1>1, OtherIsGateStutter
       DEF ChangePrepStart, ChangePrepToAnalysis, ChangePrepToPending, PrDraftStart,
           PrDraftCheck, PrDraftLoadCase, PrDraftCaseCheck, PrDraftCaseWrite,
           SharedJobStep, WorkerFinish, JobFails, DeadLetter, dbVars, changeVars
  <1>2. CASE ChangePrepWriteAnalysis(i) \/ ChangePrepWritePending(i)
    <2>1. PICK k \in ChangeRequests : k = job[i].cr
      BY <1>2 DEF ChangePrepWriteAnalysis, ChangePrepWritePending, At, ApprovalInv, JobsAreSound
    <2>2. PICK s \in {"analysis", "approval-pending"} : crStatus' = [crStatus EXCEPT ![k] = s]
      BY <1>2, <2>1 DEF ChangePrepWriteAnalysis, ChangePrepWritePending
    <2>3. approved' = approved /\ prState' = prState
      BY <1>2 DEF ChangePrepWriteAnalysis, ChangePrepWritePending, changeVars
    <2> QED BY <2>2, <2>3, StatusIsGateStep
  <1>3. CASE PrDraftGithub(i) \/ PrDraftWrite(i)
    <2>1. PICK k \in approved : k = job[i].cr
      BY <1>3 DEF PrDraftGithub, PrDraftWrite, At, ApprovalInv, JobsAreSound
    <2>2. CASE PrDraftGithub(i)
      <3>1. crStatus' = crStatus /\ approved' = approved
        BY <2>2 DEF PrDraftGithub, dbVars
      <3>2. prState' = prState \/ prState' = [prState EXCEPT ![k] = "open"]
        BY <2>1, <2>2 DEF PrDraftGithub
      <3> QED BY <3>1, <3>2, PullRequestIsGateStep, OtherIsGateStutter
    <2>3. CASE PrDraftWrite(i)
      <3>1. crStatus' = [crStatus EXCEPT ![k] = "pr-drafted"]
        BY <2>1, <2>3 DEF PrDraftWrite
      <3>2. approved' = approved /\ prState' = prState /\ k \in ChangeRequests
        BY <2>3 DEF PrDraftWrite, ApprovalInv, ChangeControlTypeOK
      <3> QED BY <3>1, <3>2, StatusIsGateStep
    <2> QED BY <1>3, <2>2, <2>3
  <1> QED BY <1>1, <1>2, <1>3 DEF ChangeJobStep

\* Each step of a request.
LEMMA RequestIsGateStep ==
  ASSUME ApprovalInv, NEW r \in Requests, ChangeRequestStep(r) \/ SharedRequestStep(r)
  PROVE  Gate!GateNext \/ UNCHANGED Gate!gateVars
  <1>1. CASE \/ \E c \in Cases : SendToChange(r, c)
             \/ \E k \in ChangeRequests :
                  Approve(r, k) \/ Reject(r, k) \/ Complete(r, k) \/ PrMerged(r, k) \/ CiPassed(r, k)
             \/ SendToChangeCommit(r) \/ CrCheck(r) \/ LoadCase(r) \/ ApprovePrepCheck(r)
             \/ ApproveDispatch(r) \/ PrMergedRecord(r) \/ CiPassedRecord(r)
             \/ CiPassedResolve(r) \/ SharedRequestStep(r)
    BY <1>1, OtherIsGateStutter
       DEF SendToChange, Approve, Reject, Complete, PrMerged, CiPassed, SendToChangeCommit,
           CrCheck, LoadCase, ApprovePrepCheck, ApproveDispatch, PrMergedRecord,
           CiPassedRecord, CiPassedResolve, SharedRequestStep, CaseCheck, CaseWrite,
           RequestFails, dbVars, changeVars
  <1>2. CASE SendToChangeCreate(r)
    <2>1. PICK k \in ChangeRequests : crStatus' = [crStatus EXCEPT ![k] = "draft"]
      BY <1>2 DEF SendToChangeCreate, CreateChangeRequest
    <2>2. approved' = approved /\ prState' = prState
      BY <1>2 DEF SendToChangeCreate, changeVars
    <2> QED BY <2>1, <2>2, StatusIsGateStep
  <1>3. CASE CrWrite(r)
    <2>1. req[r].op \in {"approve", "reject", "complete"}
      BY <1>3 DEF CrWrite, CrTarget
    <2>2. PICK k \in ChangeRequests : k = req[r].cr
      BY <2>1 DEF ApprovalInv, RequestsAreSound, ChangeControlTypeOK
    <2>3. prState' = prState
      BY <1>3 DEF CrWrite
    <2>4. CASE req[r].op = "approve"
      <3>1. crStatus' = [crStatus EXCEPT ![k] = "approved"] /\ approved' = approved \cup {k}
        BY <1>3, <2>2, <2>4 DEF CrWrite, CrTarget
      <3> QED BY <2>3, <3>1, ApprovalIsGateStep
    <2>5. CASE req[r].op = "reject"
      <3>1. crStatus' = [crStatus EXCEPT ![k] = "rejected"] /\ approved' = approved
        BY <1>3, <2>2, <2>5 DEF CrWrite, CrTarget
      <3> QED BY <2>3, <3>1, StatusIsGateStep
    <2>6. CASE req[r].op = "complete"
      <3>1. crStatus' = [crStatus EXCEPT ![k] = "completed"] /\ approved' = approved
        BY <1>3, <2>2, <2>6 DEF CrWrite, CrTarget
      <3>2. k \in approved
        BY <2>2, <2>6 DEF ApprovalInv, RequestsAreSound
      <3> QED BY <2>3, <3>1, <3>2, StatusIsGateStep
    <2> QED BY <2>1, <2>4, <2>5, <2>6
  <1>4. CASE ApprovePrepWrite(r) \/ PrMergedComplete(r) \/ CiPassedComplete(r)
    <2>1. req[r].cr \in approved
      BY <1>4 DEF ApprovePrepWrite, PrMergedComplete, CiPassedComplete, Handling,
                  ApprovalInv, RequestsAreSound
    <2>2. PICK k \in ChangeRequests : k = req[r].cr
      BY <2>1 DEF ApprovalInv, ChangeControlTypeOK
    <2>3. PICK s \in {"implementation-prep", "completed"} :
            crStatus' = [crStatus EXCEPT ![k] = s]
      BY <1>4, <2>2 DEF ApprovePrepWrite, PrMergedComplete, CiPassedComplete
    <2>4. approved' = approved /\ prState' = prState
      BY <1>4 DEF ApprovePrepWrite, PrMergedComplete, CiPassedComplete, changeVars
    <2> QED BY <2>1, <2>2, <2>3, <2>4, StatusIsGateStep
  <1> QED BY <1>1, <1>2, <1>3, <1>4 DEF ChangeRequestStep

\* Change control implements the approval gate: its rows, handlers, workers and
\* webhooks do nothing that sanctioning, publishing, delivering and recalling
\* change requests one at a time, in that order of entitlement, would not do.
THEOREM GateImplemented == ChangeControlSpec => ImplementsGate
  <1>1. ChangeControlInit => Gate!GateInit
    BY DEF ChangeControlInit, ChangeInit, Gate!GateInit
  <1>2. ApprovalInv /\ [ChangeControlNext]_changeControlVars
          => [Gate!GateNext]_(Gate!gateVars)
    <2> SUFFICES ASSUME ApprovalInv, [ChangeControlNext]_changeControlVars
                 PROVE  Gate!GateNext \/ UNCHANGED Gate!gateVars
      OBVIOUS
    <2>1. CASE \E i \in Jobs : ChangeJobStep(i) \/ SharedJobStep(i)
      BY <2>1, JobIsGateStep
    <2>2. CASE \E r \in Requests : ChangeRequestStep(r) \/ SharedRequestStep(r)
      BY <2>2, RequestIsGateStep
    <2>3. CASE GitHubStep
      <3>1. PICK k \in ChangeRequests : MergeOnGitHub(k)
        BY <2>3 DEF GitHubStep
      <3>2. k \in approved
        BY <3>1 DEF MergeOnGitHub, ApprovalInv, RowsAreSound
      <3> QED BY <3>1, <3>2, PullRequestIsGateStep DEF MergeOnGitHub, platformVars
    <2>4. CASE UNCHANGED changeControlVars
      BY <2>4, OtherIsGateStutter DEF changeControlVars, platformVars, changeVars
    <2> QED BY <2>1, <2>2, <2>3, <2>4 DEF ChangeControlNext
  <1> QED BY <1>1, <1>2, ApprovalInvariant, PTL
          DEF ChangeControlSpec, ImplementsGate, Gate!GateSpec
=============================================================================
