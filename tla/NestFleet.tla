----------------------------- MODULE NestFleet -----------------------------
(***************************************************************************)
(* The whole case-to-change system: the pipeline and the console on one    *)
(* side, change control and GitHub on the other, over the same cases,      *)
(* change requests, job queue and requests.  Its properties are those that *)
(* need both sides.                                                        *)
(***************************************************************************)
EXTENDS Console, ChangeControl

nestFleetVars == <<platformVars, frontVars, changeVars>>

NestFleetInit == FrontlineInit /\ ChangeInit

JobStep(i) ==
  \/ FrontlineJobStep(i) /\ UNCHANGED changeVars
  \/ ChangeJobStep(i) /\ UNCHANGED frontVars

ConsoleSide ==
  /\ \E r \in Requests : IngestStep(r) \/ ConsoleStep(r)
  /\ UNCHANGED changeVars

\* A run uses the change-side operations it names; what GitHub sends is not an
\* operation people choose.
ChangeSide ==
  /\ \/ \E r \in Requests :
        /\ ChangeRequestStep(r)
        /\ req'[r].op \in Operations \cup {"none", "prMerged", "ciPassed"}
     \/ GitHubStep
  /\ UNCHANGED frontVars

NestFleetNext == (\E i \in Jobs : JobStep(i)) \/ ConsoleSide \/ ChangeSide

NestFleetSpec == NestFleetInit /\ [][NestFleetNext]_nestFleetVars

-----------------------------------------------------------------------------
(* Its properties are those of Frontline, Console and ChangeControl;       *)
(* HumanApproval is checked here against the console's operations as well. *)

\* docs/backlog.md says that a retry dispatches pr_draft_prep: once the job has
\* failed for good on a change request that waits for its draft, the endpoint
\* has a change request to dispatch it for.  It looks for status approved, which
\* the request left in the transaction that dispatched the job.
FailedPrepIsRetried ==
  \A k \in ChangeRequests :
    /\ crStatus[k] = "implementation-prep"
    /\ caseStatus[crCase[k]] = "processing-failed"
    /\ failedJob[crCase[k]] = "pr_draft_prep"
    => PrepToRetry(crCase[k]) # {}
=============================================================================
