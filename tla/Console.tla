------------------------------ MODULE Console ------------------------------
(***************************************************************************)
(* The operator endpoints of api/v1/cases.ts and the triage correction of  *)
(* domain/correct-triage.ts, run beside the automatic pipeline they steer. *)
(* The entry check of an endpoint and everything it does afterwards are    *)
(* separate statements: the pipeline may act in between.                   *)
(***************************************************************************)
EXTENDS Frontline

CONSTANT Operations   \* the operations people use in a run (Ops for all of them)

ASSUME ConsoleAssumption == Operations \subseteq Ops

\* An endpoint accepts a case in one of the statuses entry, answers 400 in any
\* other, and goes on to the guarded transition of the case.
ConsoleCall(r, op, c, entry, to) ==
  /\ op \in Operations
  /\ caseStatus[c] \in entry
  /\ Accept(r, op, c, None, to, "caseCheck")
  /\ UNCHANGED <<dbVars, job, frontVars>>

Escalate(r, c) == ConsoleCall(r, "escalate", c, CaseStatuses, "awaiting-lead")
Forward(r, c) == ConsoleCall(r, "forward", c, {"awaiting-lead"}, "in-resolution")
Resolve(r, c) == ConsoleCall(r, "resolve", c, CaseStatuses \ {"resolved"}, "resolved")
Reopen(r, c) == ConsoleCall(r, "reopen", c, {"resolved"}, "awaiting-lead")

\* The endpoint returns the question; the case then waits for its reporter.
DraftClarification(r, c) == ConsoleCall(r, "clarify", c, {"enriching"}, "awaiting-user")

\* The lead's triage, stored without dispatching the Steward's job.
TriageManual(r, c) == ConsoleCall(r, "triageManual", c, {"enriching"}, "triaged")

\* The reporter has answered; no triage job is dispatched here.
SignalReceived(r, c) == ConsoleCall(r, "signalReceived", c, {"awaiting-user"}, "enriching")

\* The change requests the retry of a failed pr_draft_prep looks among.
PrepToRetry(c) == {k \in ChangeRequests : crCase[k] = c /\ crStatus[k] = "approved"}

\* Retry of a failed case: back to triage, except after a failed pr_draft_prep.
Retry(r, c) ==
  /\ "retry" \in Operations
  /\ caseStatus[c] = "processing-failed"
  /\ IF failedJob[c] = "pr_draft_prep"
     THEN \E k \in PrepToRetry(c) : Accept(r, "retry", c, k, "in-change", "caseCheck")
     ELSE Accept(r, "retry", c, None, "enriching", "caseCheck")
  /\ UNCHANGED <<dbVars, job, frontVars>>

\* send-draft-reply: the text comes with the request, the stored draft is not
\* looked at; it is cleared once the email is out.
SendDraftReply(r, c) ==
  /\ "sendDraftReply" \in Operations
  /\ caseStatus[c] \in {"awaiting-lead", "in-resolution"}
  /\ Accept(r, "sendDraftReply", c, None, "none", "send")
  /\ UNCHANGED <<dbVars, job, frontVars>>

SendDraftReplyEmail(r) ==
  /\ Handling(r, "sendDraftReply", "send")
  /\ replies[req[r].case] < MaxReplies
  /\ replies' = [replies EXCEPT ![req[r].case] = @ + 1]
  /\ Proceed(r, "clear")
  /\ UNCHANGED <<dbVars, job, draft>>

SendDraftReplyClear(r) ==
  /\ Handling(r, "sendDraftReply", "clear")
  /\ draft' = [draft EXCEPT ![req[r].case] = FALSE]
  /\ Reply(r)
  /\ UNCHANGED <<dbVars, job, replies>>

-----------------------------------------------------------------------------
(* correctTriage()                                                         *)

ActiveCrStatuses == CrStatuses \ {"completed", "rejected"}

CorrectTriage(r, c) ==
  /\ "correctTriage" \in Operations
  /\ caseStatus[c] \notin {"none", "resolved", "processing-failed"}
  /\ Accept(r, "correctTriage", c, None, "triaged", "load")
  /\ UNCHANGED <<dbVars, job, frontVars>>

\* Mutant of CorrectTriageLoad: every change request of the case is cancelled.
CorrectTriageLoadAll(r) ==
  /\ Handling(r, "correctTriage", "load")
  /\ req' = [req EXCEPT ![r].pc = "cancel",
                        ![r].left = {k \in ChangeRequests : crCase[k] = req[r].case}]
  /\ UNCHANGED <<dbVars, job, frontVars>>

CorrectTriageLoad(r) ==
  /\ Handling(r, "correctTriage", "load")
  /\ req' = [req EXCEPT ![r].pc = "cancel",
                        ![r].left = {k \in ChangeRequests :
                                       crCase[k] = req[r].case
                                         /\ crStatus[k] \in ActiveCrStatuses}]
  /\ UNCHANGED <<dbVars, job, frontVars>>

\* One unguarded update for each change request that was active when loaded.
CorrectTriageCancel(r) ==
  /\ Handling(r, "correctTriage", "cancel")
  /\ \E k \in req[r].left :
       /\ crStatus' = [crStatus EXCEPT ![k] = "rejected"]
       /\ req' = [req EXCEPT ![r].left = @ \ {k}]
  /\ UNCHANGED <<caseStatus, failedJob, crCase, job, frontVars>>

\* updateCase() directly, past the guard of transitionCase().
CorrectTriageWrite(r) ==
  /\ Handling(r, "correctTriage", "cancel")
  /\ req[r].left = {}
  /\ caseStatus' = [caseStatus EXCEPT ![req[r].case] = "triaged"]
  /\ Proceed(r, "dispatch")
  /\ UNCHANGED <<failedJob, crStatus, crCase, job, frontVars>>

\* The Steward job carries the correction as its triage_hint.
CorrectTriageDispatch(r) ==
  /\ Handling(r, "correctTriage", "dispatch")
  /\ \E n \in Jobs : Enqueue(n, NewJob("known_issue_match", req[r].case, None, TRUE))
  /\ Reply(r)
  /\ UNCHANGED <<dbVars, frontVars>>

-----------------------------------------------------------------------------

\* A call of an endpoint that moves its case by one transition.
TransitionCall(r) ==
  \E c \in Cases :
     \/ Escalate(r, c) \/ Forward(r, c) \/ Resolve(r, c) \/ Reopen(r, c)
     \/ DraftClarification(r, c) \/ TriageManual(r, c) \/ SignalReceived(r, c)
     \/ Retry(r, c)

SendDraftReplyStep(r) ==
  (\E c \in Cases : SendDraftReply(r, c)) \/ SendDraftReplyEmail(r) \/ SendDraftReplyClear(r)

CorrectTriageStep(r) ==
  \/ \E c \in Cases : CorrectTriage(r, c)
  \/ CorrectTriageLoad(r) \/ CorrectTriageCancel(r)
  \/ CorrectTriageWrite(r) \/ CorrectTriageDispatch(r)

ConsoleStep(r) == TransitionCall(r) \/ SendDraftReplyStep(r) \/ CorrectTriageStep(r)

ConsoleNext == FrontlineNext \/ \E r \in Requests : ConsoleStep(r)

ConsoleSpec == FrontlineInit /\ [][ConsoleNext]_frontlineVars

\* What people do to a case that is being triaged or routed, apart from sending its
\* draft and correcting its triage.
RoutingNext == FrontlineNext \/ \E r \in Requests : TransitionCall(r)

RoutingSpec == FrontlineInit /\ [][RoutingNext]_frontlineVars /\ FrontlineFairness

-----------------------------------------------------------------------------
(* Properties.  TriagedHasSteward (Frontline) is checked here as well, for *)
(* the operations other than the two that set triaged without a job of the *)
(* same transaction.                                                       *)

\* A failed case can always say which job failed: the retry endpoint decides
\* by that name, and clears it, while dead letters and other retries come in.
FailedNamesJob ==
  \A c \in Cases : caseStatus[c] = "processing-failed" => failedJob[c] # "none"

\* Every case whose triage job has not done its work gets somewhere, whatever
\* people do to it meanwhile: it leaves enriching, by triage, by hand or as failed.
EnrichingIsSettled ==
  \A c \in Cases :
    /\ caseStatus[c] = "enriching"
    /\ \E i \in Jobs : Serves(i, "triage", c) /\ job[i].pc # "audit"
    ~> caseStatus[c] # "enriching"
=============================================================================
