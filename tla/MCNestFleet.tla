---------------------------- MODULE MCNestFleet ----------------------------
(***************************************************************************)
(* Instances of NestFleet for TLC.                                         *)
(***************************************************************************)
EXTENDS NestFleet, TLC

Symmetry == Permutations(Jobs) \cup Permutations(ChangeRequests)

\* The operations that hand a case on to change control, decide about it there, or
\* answer it.  Changes are completed by GitHub's deliveries here.
TeamOperations ==
  {"approve", "reject", "correctTriage", "sendToChange", "sendDraftReply", "triageManual"}

\* Approving a change request and retrying the case it belongs to.
RetryOperations == {"approve", "retry"}
=============================================================================
