----------------------------- MODULE MCConsole -----------------------------
(***************************************************************************)
(* Instances of Console for TLC: which operations people use in a run.     *)
(***************************************************************************)
EXTENDS Console

\* What people do to a case that is being triaged or routed: none of these sets
\* triaged outside the transaction that inserts the Steward's job.
TriageOperations ==
  {"retry", "resolve", "escalate", "clarify", "signalReceived", "reopen", "forward"}
=============================================================================
