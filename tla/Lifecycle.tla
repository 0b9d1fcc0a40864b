----------------------------- MODULE Lifecycle -----------------------------
(***************************************************************************)
(* The two transition tables every status update of NestFleet is meant to  *)
(* respect: cases (domain/case-state-machine.ts) and change requests       *)
(* (domain/cr-state-machine.ts).  Statuses keep the names of the source;   *)
(* "none" is not a status: it stands for a row that does not exist yet.    *)
(***************************************************************************)

CASE_TRANSITIONS ==
  [ s \in {"new", "enriching", "triaged", "awaiting-user", "awaiting-lead",
           "in-resolution", "in-change", "pr-drafting", "resolved", "closed",
           "processing-failed"} |->
    CASE s = "new"           -> {"enriching", "closed"}
      [] s = "enriching"     -> {"triaged", "awaiting-user", "in-resolution", "closed"}
      [] s = "triaged"       -> {"in-resolution", "awaiting-lead", "in-change", "resolved"}
      [] s = "awaiting-user" -> {"enriching", "resolved", "closed"}
      [] s = "awaiting-lead" -> {"in-resolution", "in-change", "resolved", "closed"}
      [] s = "in-resolution" -> {"resolved", "awaiting-user", "awaiting-lead", "in-change"}
      [] s = "in-change"     -> {"pr-drafting", "awaiting-lead", "resolved", "closed"}
      [] s = "pr-drafting"   -> {"resolved", "awaiting-lead", "closed"}
      [] s = "resolved"      -> {"closed", "awaiting-user", "awaiting-lead"}
      [] s = "closed"        -> {}
      [] s = "processing-failed" -> {"enriching", "resolved", "closed"} ]

CaseStatuses == DOMAIN CASE_TRANSITIONS

IsCaseTransitionAllowed(from, to) ==
  from \in CaseStatuses /\ to \in CASE_TRANSITIONS[from]

CR_TRANSITIONS ==
  [ s \in {"draft", "analysis", "approval-pending", "approved",
           "implementation-prep", "pr-drafted", "completed", "rejected"} |->
    CASE s = "draft"               -> {"analysis", "rejected"}
      [] s = "analysis"            -> {"approval-pending", "rejected"}
      [] s = "approval-pending"    -> {"approved", "rejected"}
      [] s = "approved"            -> {"implementation-prep", "rejected"}
      [] s = "implementation-prep" -> {"pr-drafted", "rejected"}
      [] s = "pr-drafted"          -> {"completed", "rejected"}
      [] s \in {"completed", "rejected"} -> {} ]

CrStatuses == DOMAIN CR_TRANSITIONS

IsCrTransitionAllowed(from, to) ==
  from \in CrStatuses /\ to \in CR_TRANSITIONS[from]
=============================================================================
