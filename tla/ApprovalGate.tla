---------------------------- MODULE ApprovalGate ----------------------------
(***************************************************************************)
(* What change control promises, without requests, jobs and statuses:      *)
(* people sanction change requests one at a time, and only a sanctioned    *)
(* one is ever published as a pull request, merged or counted as           *)
(* delivered.  A sanction and a publication are never taken back; a        *)
(* delivery may be, by a rejection that was decided earlier.               *)
(***************************************************************************)
CONSTANT Changes

VARIABLES sanctioned, published, delivered

gateVars == <<sanctioned, published, delivered>>

Sanction(k) ==
  /\ sanctioned' = sanctioned \cup {k}
  /\ UNCHANGED <<published, delivered>>

Publish(k) ==
  /\ k \in sanctioned
  /\ published' = published \cup {k}
  /\ UNCHANGED <<sanctioned, delivered>>

Deliver(k) ==
  /\ k \in sanctioned
  /\ delivered' = delivered \cup {k}
  /\ UNCHANGED <<sanctioned, published>>

\* A write decided on a status that was read before the delivery.
Recall(k) ==
  /\ delivered' = delivered \ {k}
  /\ UNCHANGED <<sanctioned, published>>

GateInit == sanctioned = {} /\ published = {} /\ delivered = {}

GateNext ==
  \E k \in Changes : Sanction(k) \/ Publish(k) \/ Deliver(k) \/ Recall(k)

GateSpec == GateInit /\ [][GateNext]_gateVars
=============================================================================
