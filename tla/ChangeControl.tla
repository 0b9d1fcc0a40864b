--------------------------- MODULE ChangeControl ---------------------------
(***************************************************************************)
(* The life of a change request: opened for a case, framed by the          *)
(* change_prep worker, approved or rejected by a lead, turned into a       *)
(* GitHub pull request by the pr_draft_prep worker, and completed by a     *)
(* lead, by the merge webhook or by a passing check suite.                 *)
(***************************************************************************)
EXTENDS Platform

CONSTANT AutoComplete  \* auto_complete_on_ci_pass and a tier that allows it

ASSUME ChangeAssumption == AutoComplete \in BOOLEAN

VARIABLES
  prState,   \* the pull request of a change request at GitHub
  prLinked,  \* change requests whose github_pr_number is set
  mergedAt,  \* change requests whose merged_at is set
  approved   \* history: change requests that a lead's approve call has approved

changeVars == <<prState, prLinked, mergedAt, approved>>
changeControlVars == <<platformVars, changeVars>>

-----------------------------------------------------------------------------
(* api/v1/cases.ts: send-to-change                                         *)

SendToChange(r, c) ==
  /\ caseStatus[c] = "awaiting-lead"
  /\ Accept(r, "sendToChange", c, None, "none", "create")
  /\ UNCHANGED <<dbVars, job, changeVars>>

SendToChangeCreate(r) ==
  /\ Handling(r, "sendToChange", "create")
  /\ \E k \in ChangeRequests :
       /\ CreateChangeRequest(k, req[r].case)
       /\ req' = [req EXCEPT ![r].cr = k, ![r].pc = "commit"]
  /\ UNCHANGED <<caseStatus, failedJob, job, changeVars>>

\* Mutant of SendToChangeCommit: the wrong job, past the approval.
SendPastApproval(r) ==
  /\ Handling(r, "sendToChange", "commit")
  /\ IsCaseTransitionAllowed(caseStatus[req[r].case], "in-change")
  /\ caseStatus' = [caseStatus EXCEPT ![req[r].case] = "in-change"]
  /\ \E n \in Jobs : Enqueue(n, NewJob("pr_draft_prep", req[r].case, req[r].cr, FALSE))
  /\ Reply(r)
  /\ UNCHANGED <<failedJob, crStatus, crCase, changeVars>>

\* transitionAndDispatch(change_prep)
SendToChangeCommit(r) ==
  /\ Handling(r, "sendToChange", "commit")
  /\ IsCaseTransitionAllowed(caseStatus[req[r].case], "in-change")
  /\ caseStatus' = [caseStatus EXCEPT ![req[r].case] = "in-change"]
  /\ \E n \in Jobs : Enqueue(n, NewJob("change_prep", req[r].case, req[r].cr, FALSE))
  /\ Reply(r)
  /\ UNCHANGED <<failedJob, crStatus, crCase, changeVars>>

-----------------------------------------------------------------------------
(* workers/change-prep-worker.ts                                           *)

\* Only a draft is moved to analysis: a retry goes on from where it stopped.
ChangePrepStart(i) ==
  /\ At(i, "change_prep", "queued")
  /\ Goto(i, IF crStatus[job[i].cr] = "draft" THEN "toAnalysis" ELSE "agent")
  /\ UNCHANGED <<dbVars, req, changeVars>>

ChangePrepToAnalysis(i) ==
  /\ At(i, "change_prep", "toAnalysis")
  /\ IsCrTransitionAllowed(crStatus[job[i].cr], "analysis")
  /\ Goto(i, "writeAnalysis")
  /\ UNCHANGED <<dbVars, req, changeVars>>

ChangePrepWriteAnalysis(i) ==
  /\ At(i, "change_prep", "writeAnalysis")
  /\ crStatus' = [crStatus EXCEPT ![job[i].cr] = "analysis"]
  /\ Goto(i, "agent")
  /\ UNCHANGED <<caseStatus, failedJob, crCase, req, changeVars>>

\* The agent answered and the GitHub issue was tried; the guard reads the row.
ChangePrepToPending(i) ==
  /\ At(i, "change_prep", "agent")
  /\ IsCrTransitionAllowed(crStatus[job[i].cr], "approval-pending")
  /\ Goto(i, "writePending")
  /\ UNCHANGED <<dbVars, req, changeVars>>

ChangePrepWritePending(i) ==
  /\ At(i, "change_prep", "writePending")
  /\ crStatus' = [crStatus EXCEPT ![job[i].cr] = "approval-pending"]
  /\ Goto(i, "audit")
  /\ UNCHANGED <<caseStatus, failedJob, crCase, req, changeVars>>

-----------------------------------------------------------------------------
(* api/v1/approvals.ts and api/v1/pr-drafts.ts                             *)

Approve(r, k) ==
  /\ crStatus[k] = "approval-pending"
  /\ Accept(r, "approve", crCase[k], k, "none", "crCheck")
  /\ UNCHANGED <<dbVars, job, changeVars>>

Reject(r, k) ==
  /\ crStatus[k] = "approval-pending"
  /\ Accept(r, "reject", crCase[k], k, "awaiting-lead", "crCheck")
  /\ UNCHANGED <<dbVars, job, changeVars>>

Complete(r, k) ==
  /\ crStatus[k] = "pr-drafted"
  /\ Accept(r, "complete", crCase[k], k, "resolved", "crCheck")
  /\ UNCHANGED <<dbVars, job, changeVars>>

CrTarget == [ approve |-> "approved", reject |-> "rejected", complete |-> "completed" ]

\* transitionChangeRequest(): read and guard ...
CrCheck(r) ==
  /\ req[r].pc = "crCheck"
  /\ IsCrTransitionAllowed(crStatus[req[r].cr], CrTarget[req[r].op])
  /\ Proceed(r, "crWrite")
  /\ UNCHANGED <<dbVars, job, changeVars>>

\* ... then write, without looking at the row again.
CrWrite(r) ==
  /\ req[r].op \in DOMAIN CrTarget /\ req[r].pc = "crWrite"
  /\ crStatus' = [crStatus EXCEPT ![req[r].cr] = CrTarget[req[r].op]]
  /\ approved' = IF req[r].op = "approve" THEN approved \cup {req[r].cr} ELSE approved
  /\ Proceed(r, IF req[r].op = "approve" THEN "prepCheck" ELSE "loadCase")
  /\ UNCHANGED <<caseStatus, failedJob, crCase, job, prState, prLinked, mergedAt>>

\* withTransaction: the transition runs on a pool connection, not on tx, so it
\* is durable before the job is inserted and stays when the insert fails.
ApprovePrepCheck(r) ==
  /\ Handling(r, "approve", "prepCheck")
  /\ IsCrTransitionAllowed(crStatus[req[r].cr], "implementation-prep")
  /\ Proceed(r, "prepWrite")
  /\ UNCHANGED <<dbVars, job, changeVars>>

ApprovePrepWrite(r) ==
  /\ Handling(r, "approve", "prepWrite")
  /\ crStatus' = [crStatus EXCEPT ![req[r].cr] = "implementation-prep"]
  /\ Proceed(r, "dispatch")
  /\ UNCHANGED <<caseStatus, failedJob, crCase, job, changeVars>>

ApproveDispatch(r) ==
  /\ Handling(r, "approve", "dispatch")
  /\ \E n \in Jobs : Enqueue(n, NewJob("pr_draft_prep", req[r].case, req[r].cr, FALSE))
  /\ Reply(r)
  /\ UNCHANGED <<dbVars, changeVars>>

\* The case follows its change request, unless it is already there.
LoadCase(r) ==
  /\ req[r].pc = "loadCase"
  /\ IF caseStatus[req[r].case] \in (IF req[r].op = "reject" THEN {"awaiting-lead"}
                                                             ELSE {"resolved", "closed"})
     THEN Reply(r) ELSE Proceed(r, "caseCheck")
  /\ UNCHANGED <<dbVars, job, changeVars>>

-----------------------------------------------------------------------------
(* workers/pr-draft-prep-worker.ts                                         *)

\* Mutant of PrDraftStart: the worker abstains in its own entry status.
PrDraftAbstains(i) ==
  /\ At(i, "pr_draft_prep", "queued")
  /\ IF crStatus[job[i].cr] \in {"implementation-prep", "pr-drafted"}
     THEN Finish(i) ELSE Goto(i, "agent")
  /\ UNCHANGED <<dbVars, req, changeVars>>

\* The only status that stops the worker is the one it is about to write.
PrDraftStart(i) ==
  /\ At(i, "pr_draft_prep", "queued")
  /\ IF crStatus[job[i].cr] = "pr-drafted" THEN Finish(i) ELSE Goto(i, "agent")
  /\ UNCHANGED <<dbVars, req, changeVars>>

\* The agent answered; branch and pull request are created, best effort.
\* GitHub refuses a second open pull request for the branch, so a retry after
\* a first success goes on without a number.
PrDraftGithub(i) ==
  /\ At(i, "pr_draft_prep", "agent")
  /\ \/ /\ prState[job[i].cr] # "open"
        /\ prState' = [prState EXCEPT ![job[i].cr] = "open"]
        /\ job' = [job EXCEPT ![i].plan = "linked", ![i].pc = "toDrafted"]
     \/ /\ job' = [job EXCEPT ![i].plan = "unlinked", ![i].pc = "toDrafted"]
        /\ UNCHANGED prState
  /\ UNCHANGED <<dbVars, req, prLinked, mergedAt, approved>>

PrDraftCheck(i) ==
  /\ At(i, "pr_draft_prep", "toDrafted")
  /\ IsCrTransitionAllowed(crStatus[job[i].cr], "pr-drafted")
  /\ Goto(i, "writeDrafted")
  /\ UNCHANGED <<dbVars, req, changeVars>>

PrDraftWrite(i) ==
  /\ At(i, "pr_draft_prep", "writeDrafted")
  /\ crStatus' = [crStatus EXCEPT ![job[i].cr] = "pr-drafted"]
  /\ prLinked' = IF job[i].plan = "linked" THEN prLinked \cup {job[i].cr} ELSE prLinked
  /\ Goto(i, "loadCase")
  /\ UNCHANGED <<caseStatus, failedJob, crCase, req, prState, mergedAt, approved>>

PrDraftLoadCase(i) ==
  /\ At(i, "pr_draft_prep", "loadCase")
  /\ Goto(i, IF caseStatus[job[i].case] = "resolved" THEN "audit" ELSE "toResolved")
  /\ UNCHANGED <<dbVars, req, changeVars>>

PrDraftCaseCheck(i) ==
  /\ At(i, "pr_draft_prep", "toResolved")
  /\ IsCaseTransitionAllowed(caseStatus[job[i].case], "resolved")
  /\ Goto(i, "writeResolved")
  /\ UNCHANGED <<dbVars, req, changeVars>>

PrDraftCaseWrite(i) ==
  /\ At(i, "pr_draft_prep", "writeResolved")
  /\ caseStatus' = [caseStatus EXCEPT ![job[i].case] = "resolved"]
  /\ Goto(i, "audit")
  /\ UNCHANGED <<failedJob, crStatus, crCase, req, changeVars>>

-----------------------------------------------------------------------------
(* api/webhooks/github.ts.  GitHub is the environment: a person merges an  *)
(* open pull request, and deliveries may come late, twice, or never.       *)

MergeOnGitHub(k) ==
  /\ prState[k] = "open"
  /\ prState' = [prState EXCEPT ![k] = "merged"]
  /\ UNCHANGED <<platformVars, prLinked, mergedAt, approved>>

\* handlePrMerged: the change request is found by the number of its pull
\* request; a second delivery is skipped by merged_at.
PrMerged(r, k) ==
  /\ prState[k] = "merged" /\ k \in prLinked /\ k \notin mergedAt
  /\ Accept(r, "prMerged", crCase[k], k, "resolved", "record")
  /\ UNCHANGED <<dbVars, job, changeVars>>

PrMergedRecord(r) ==
  /\ Handling(r, "prMerged", "record")
  /\ mergedAt' = mergedAt \cup {req[r].cr}
  /\ IF req[r].seen = "pr-drafted" THEN Proceed(r, "complete") ELSE Reply(r)
  /\ UNCHANGED <<dbVars, job, prState, prLinked, approved>>

\* An unguarded write, decided on the status loaded two statements earlier.
PrMergedComplete(r) ==
  /\ Handling(r, "prMerged", "complete")
  /\ crStatus' = [crStatus EXCEPT ![req[r].cr] = "completed"]
  /\ Proceed(r, "loadCase")
  /\ UNCHANGED <<caseStatus, failedJob, crCase, job, changeVars>>

\* Mutant of CiPassed: the change request need not own the pull request.
CiPassedAnywhere(r, k) ==
  /\ crStatus[k] # "none"
  /\ Accept(r, "ciPassed", crCase[k], k, "none", "record")
  /\ UNCHANGED <<dbVars, job, changeVars>>

\* handleCheckSuiteEvent, conclusion success: found by the number as well.
CiPassed(r, k) ==
  /\ k \in prLinked
  /\ Accept(r, "ciPassed", crCase[k], k, "none", "record")
  /\ UNCHANGED <<dbVars, job, changeVars>>

\* handleCiPassed: the update of ci_status returns the row it wrote.  (ci_status
\* itself and handleCiFailed, which writes nothing else, decide nothing here.)
CiPassedRecord(r) ==
  /\ Handling(r, "ciPassed", "record")
  /\ IF AutoComplete /\ crStatus[req[r].cr] # "completed"
     THEN Proceed(r, "complete") ELSE Reply(r)
  /\ UNCHANGED <<dbVars, job, prState, prLinked, mergedAt, approved>>

CiPassedComplete(r) ==
  /\ Handling(r, "ciPassed", "complete")
  /\ crStatus' = [crStatus EXCEPT ![req[r].cr] = "completed"]
  /\ Proceed(r, "resolve")
  /\ UNCHANGED <<caseStatus, failedJob, crCase, job, changeVars>>

\* transitionCase(caseId, null, "resolved"): no guard at all.
CiPassedResolve(r) ==
  /\ Handling(r, "ciPassed", "resolve")
  /\ caseStatus' = [caseStatus EXCEPT ![req[r].case] = "resolved"]
  /\ Reply(r)
  /\ UNCHANGED <<failedJob, crStatus, crCase, job, changeVars>>

-----------------------------------------------------------------------------

ChangeJobStep(i) ==
  \/ ChangePrepStart(i) \/ ChangePrepToAnalysis(i) \/ ChangePrepWriteAnalysis(i)
  \/ ChangePrepToPending(i) \/ ChangePrepWritePending(i)
  \/ PrDraftStart(i) \/ PrDraftGithub(i) \/ PrDraftCheck(i) \/ PrDraftWrite(i)
  \/ PrDraftLoadCase(i) \/ PrDraftCaseCheck(i) \/ PrDraftCaseWrite(i)

ChangeRequestStep(r) ==
  \/ \E c \in Cases : SendToChange(r, c)
  \/ \E k \in ChangeRequests :
       Approve(r, k) \/ Reject(r, k) \/ Complete(r, k) \/ PrMerged(r, k) \/ CiPassed(r, k)
  \/ SendToChangeCreate(r) \/ SendToChangeCommit(r)
  \/ CrCheck(r) \/ CrWrite(r) \/ LoadCase(r)
  \/ ApprovePrepCheck(r) \/ ApprovePrepWrite(r) \/ ApproveDispatch(r)
  \/ PrMergedRecord(r) \/ PrMergedComplete(r)
  \/ CiPassedRecord(r) \/ CiPassedComplete(r) \/ CiPassedResolve(r)

GitHubStep == \E k \in ChangeRequests : MergeOnGitHub(k)

ChangeInit ==
  /\ prState = [k \in ChangeRequests |-> "none"]
  /\ prLinked = {}
  /\ mergedAt = {}
  /\ approved = {}

\* On its own the component starts with cases the pipeline has left to a lead.  The
\* corrections of correctTriage(), which reject change requests past every guard, are
\* the console's: what depends on them is stated of NestFleet.
ChangeControlInit ==
  /\ caseStatus = [c \in Cases |-> "awaiting-lead"]
  /\ failedJob = [c \in Cases |-> "none"]
  /\ crStatus = [k \in ChangeRequests |-> "none"]
  /\ crCase = [k \in ChangeRequests |-> None]
  /\ job = [i \in Jobs |-> FreeJob]
  /\ req = [r \in Requests |-> FreeRequest]
  /\ ChangeInit

SharedJobStep(i) ==
  (WorkerFinish(i) \/ JobFails(i) \/ DeadLetter(i)) /\ UNCHANGED changeVars

SharedRequestStep(r) ==
  (CaseCheck(r) \/ CaseWrite(r) \/ RequestFails(r)) /\ UNCHANGED changeVars

ChangeControlNext ==
  \/ \E i \in Jobs : ChangeJobStep(i) \/ SharedJobStep(i)
  \/ \E r \in Requests : ChangeRequestStep(r) \/ SharedRequestStep(r)
  \/ GitHubStep

ChangeControlSpec == ChangeControlInit /\ [][ChangeControlNext]_changeControlVars

\* As in Frontline: pg-boss keeps working on its jobs; nothing else is fair.
ChangeControlLiveSpec ==
  /\ ChangeControlSpec
  /\ \A i \in Jobs : WF_changeControlVars(ChangeJobStep(i) \/ SharedJobStep(i))

-----------------------------------------------------------------------------
(* Properties.                                                             *)

\* The rows, jobs and requests of change control have their types; in particular no
\* job makes more attempts than pg-boss allows.
ChangeControlTypeOK ==
  /\ PlatformTypeOK
  /\ prState \in [ChangeRequests -> {"none", "open", "merged"}]
  /\ prLinked \subseteq ChangeRequests
  /\ mergedAt \subseteq ChangeRequests
  /\ approved \subseteq ChangeRequests

PastApproval == {"approved", "implementation-prep", "pr-drafted", "completed"}

\* lifecycle 6.3, "approval-pending -> approved requires human lead approval":
\* whatever races, retries and webhooks do, no change request gets past the
\* approval and no pull request is opened unless a lead approved that request.
HumanApproval ==
  \A k \in ChangeRequests :
    crStatus[k] \in PastApproval \/ prState[k] # "none" => k \in approved

\* What a worker writes once it has passed its guard, whatever the status has become.
StatusWritten ==
  [ writeAnalysis |-> "analysis", writePending |-> "approval-pending",
    writeDrafted |-> "pr-drafted" ]

\* A rejected change request comes back: by a job that was past its guard when the
\* request was rejected, or by a passing check suite of its pull request.
ComesBack(k) ==
  /\ crStatus[k] = "rejected"
  /\ \/ \E i \in Jobs : /\ job[i].cr = k /\ job[i].pc \in DOMAIN StatusWritten
                        /\ crStatus'[k] = StatusWritten[job[i].pc]
     \/ k \in prLinked /\ crStatus'[k] = "completed"

\* cr-state-machine.ts:9 wants every status update to go through
\* transitionChangeRequest(), and correct-triage.ts:128 and github.ts:444, 639 write
\* without it.  While one request is handled at a time, beside any jobs and retries,
\* this is all that it costs: a status leaves CR_TRANSITIONS only where a rejected
\* change request comes back, and that only by work that was under way before.
CrFollowsTable ==
  [][\A k \in ChangeRequests :
       crStatus[k] # "none" /\ crStatus'[k] # crStatus[k] =>
         IsCrTransitionAllowed(crStatus[k], crStatus'[k]) \/ ComesBack(k)]_changeControlVars

\* approvals.ts:100, "Atomic: transition CR approved -> implementation-prep +
\* dispatch pr_draft_prep": a change request left in implementation-prep by its
\* approval has a job, or its case shows the failure of that job.
PrepHasJob ==
  \A k \in ChangeRequests : crStatus[k] = "implementation-prep" =>
    \/ \E i \in Jobs : job[i].action = "pr_draft_prep" /\ job[i].cr = k
    \/ \E r \in Requests : Handling(r, "approve", "dispatch") /\ req[r].cr = k
    \/ caseStatus[crCase[k]] = "processing-failed"

\* A dispatched pr_draft_prep job comes to an end that a person can see.
PrepIsSettled ==
  \A k \in ChangeRequests :
    crStatus[k] = "implementation-prep"
      /\ (\E i \in Jobs : job[i].action = "pr_draft_prep" /\ job[i].cr = k)
    ~> \/ crStatus[k] # "implementation-prep"
       \/ caseStatus[crCase[k]] = "processing-failed"

\* ApprovalGate is what all of this promises: see there.
Gate == INSTANCE ApprovalGate WITH
          Changes    <- ChangeRequests,
          sanctioned <- approved,
          published  <- {k \in ChangeRequests : prState[k] # "none"},
          delivered  <- {k \in ChangeRequests : crStatus[k] = "completed"}

\* Change control implements the approval gate: each of its steps sanctions,
\* publishes, delivers or recalls one change request that may be, or none.
ImplementsGate == Gate!GateSpec

=============================================================================
