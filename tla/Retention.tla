----------------------------- MODULE Retention -----------------------------
(***************************************************************************)
(* What is kept of a case: the knowledge a lead proposes, reviews and      *)
(* publishes from it, and the erasure of the case with rows that name it,  *)
(* beside handlers that add such rows.  Only the knowledge assets have a   *)
(* foreign key to the case.  Two requests may be handled at the same time; *)
(* a request that is not handled to its end has failed.                    *)
(***************************************************************************)
EXTENDS FiniteSets

CONSTANTS
  LinkedRows, \* rows with data of the case that other tables can come to hold
  Table,      \* LinkedRows -> Tables
  Assets,     \* knowledge assets
  Callers     \* bound: requests and jobs alive at the same time

\* Where the schema has data of a case: the tables with its id, its conversations,
\* and the notifications and audit events with the id of its change request.
Tables == {"notifications", "signals", "conversations", "change_requests", "audit_events",
           "agent_runs", "cr_notifications", "cr_audit_events"}

ASSUME RetentionAssumption == Table \in [LinkedRows -> Tables]

VARIABLES
  caseStands,  \* the row of the case is there
  held,        \* the rows with data of the case: neither deleted nor anonymised
  asset,       \* knowledge_assets.status
  caller,      \* what a request is doing
  written      \* history: every row there ever was

retentionVars == <<caseStands, held, asset, caller, written>>

AssetStatuses == {"none", "proposed", "approved", "rejected", "published"}
ErasurePoints == {"notifications", "signals", "conversations", "change_requests",
                  "audit_events", "case"}
CallPoints == {"free", "insert", "approve", "reject", "publish"} \cup ErasurePoints

\* listed: what there was when an erasure loaded the case.  removed: what its
\* transaction has deleted or anonymised.
Caller == [pc : CallPoints, asset : Assets \cup {"none"}, listed : SUBSET LinkedRows,
           removed : SUBSET LinkedRows]
NoCaller == [pc |-> "free", asset |-> "none", listed |-> {}, removed |-> {}]

CallerAt(i, point) == caller[i].pc = point
RowsOf(table) == {r \in held : Table[r] = table}

-----------------------------------------------------------------------------
(* Handlers and workers that write a row for a case they have loaded.      *)

LoadForWrite(i) ==
  /\ CallerAt(i, "free") /\ caseStands
  /\ caller' = [caller EXCEPT ![i] = [NoCaller EXCEPT !.pc = "insert"]]
  /\ UNCHANGED <<caseStands, held, asset, written>>

\* A conversation is older than its case: no handler adds one.
WriteRow(i) ==
  /\ CallerAt(i, "insert")
  /\ \E r \in LinkedRows \ written :
       /\ Table[r] # "conversations"
       /\ held' = held \cup {r} /\ written' = written \cup {r}
  /\ caller' = [caller EXCEPT ![i] = NoCaller]
  /\ UNCHANGED <<caseStands, asset>>

-----------------------------------------------------------------------------
(* Erasure.                                                                *)

\* deleteCase() loads the case, and with it the list of its conversations.
EraseLoad(i) ==
  /\ CallerAt(i, "free") /\ caseStands
  /\ caller' = [caller EXCEPT ![i] =
       [NoCaller EXCEPT !.pc = "notifications", !.listed = held]]
  /\ UNCHANGED <<caseStands, held, asset, written>>

\* Mutant of NextTable: the DELETE of the change requests is left out.
NextTableShort == [notifications |-> "signals", signals |-> "conversations",
                   conversations |-> "audit_events", change_requests |-> "audit_events",
                   audit_events |-> "case"]

\* The statements of the transaction, in their order.
NextTable == [notifications |-> "signals", signals |-> "conversations",
              conversations |-> "change_requests", change_requests |-> "audit_events",
              audit_events |-> "case"]

\* One DELETE, or the UPDATE of the audit events, sees what is committed by then;
\* conversations are deleted by the list.
EraseTable(i, table) ==
  /\ CallerAt(i, table)
  /\ LET known == IF table = "conversations" THEN caller[i].listed ELSE LinkedRows
     IN caller' = [caller EXCEPT ![i] =
          [caller[i] EXCEPT !.pc = NextTable[table],
                            !.removed = @ \cup (RowsOf(table) \cap known)]]
  /\ UNCHANGED <<caseStands, held, asset, written>>

\* The case itself, and COMMIT.  An asset that names the case makes the DELETE
\* fail; an insert of one that comes after it waits for the commit and fails.
EraseCase(i) ==
  /\ CallerAt(i, "case") /\ \A a \in Assets : asset[a] = "none"
  /\ caseStands' = FALSE /\ held' = held \ caller[i].removed
  /\ caller' = [caller EXCEPT ![i] = NoCaller]
  /\ UNCHANGED <<asset, written>>

\* A statement fails, the asset's foreign key does, or the process ends: ROLLBACK.
CallerFails(i) ==
  /\ ~CallerAt(i, "free") /\ caller' = [caller EXCEPT ![i] = NoCaller]
  /\ UNCHANGED <<caseStands, held, asset, written>>

-----------------------------------------------------------------------------
(* Knowledge assets.  The audit event after each write may fail; the asset *)
(* keeps its new status then.                                              *)

\* The insert of a new asset fails when its case is gone.
Propose(a) ==
  /\ asset[a] = "none" /\ caseStands
  /\ asset' = [asset EXCEPT ![a] = "proposed"]
  /\ UNCHANGED <<caseStands, held, caller, written>>

\* Mutant of ReviewLoad: publish asks for any asset that was not rejected.
ReviewLoadLax(i, a, op) ==
  /\ CallerAt(i, "free")
  /\ IF op = "publish" THEN asset[a] \in {"proposed", "approved"} ELSE asset[a] = "proposed"
  /\ caller' = [caller EXCEPT ![i] = [NoCaller EXCEPT !.pc = op, !.asset = a]]
  /\ UNCHANGED <<caseStands, held, asset, written>>

\* approve and reject read a proposed asset, publish an approved one ...
ReviewLoad(i, a, op) ==
  /\ CallerAt(i, "free")
  /\ asset[a] = IF op = "publish" THEN "approved" ELSE "proposed"
  /\ caller' = [caller EXCEPT ![i] = [NoCaller EXCEPT !.pc = op, !.asset = a]]
  /\ UNCHANGED <<caseStands, held, asset, written>>

\* ... and write what they decided, whatever the status is by then.
ReviewWrite(i, op) ==
  /\ CallerAt(i, op)
  /\ asset' = [asset EXCEPT ![caller[i].asset] =
       CASE op = "approve" -> "approved" [] op = "reject" -> "rejected"
         [] op = "publish" -> "published"]
  /\ caller' = [caller EXCEPT ![i] = NoCaller]
  /\ UNCHANGED <<caseStands, held, written>>

-----------------------------------------------------------------------------
RetentionInit ==
  /\ caseStands = TRUE
  /\ written = {r \in LinkedRows : Table[r] = "conversations"} /\ held = written
  /\ asset = [a \in Assets |-> "none"]
  /\ caller = [i \in Callers |-> NoCaller]

RetentionNext ==
  \/ \E i \in Callers :
       \/ LoadForWrite(i) \/ WriteRow(i) \/ CallerFails(i)
       \/ EraseLoad(i) \/ EraseCase(i)
       \/ \E table \in ErasurePoints \ {"case"} : EraseTable(i, table)
       \/ \E op \in {"approve", "reject", "publish"} :
            ReviewWrite(i, op) \/ \E a \in Assets : ReviewLoad(i, a, op)
  \/ \E a \in Assets : Propose(a)

RetentionSpec == RetentionInit /\ [][RetentionNext]_retentionVars

-----------------------------------------------------------------------------
(* Properties.                                                             *)

\* The case, its rows, the assets and the requests have their types.
RetentionTypeOK ==
  /\ caseStands \in BOOLEAN /\ held \subseteq LinkedRows /\ written \subseteq LinkedRows
  /\ asset \in [Assets -> AssetStatuses]
  /\ caller \in [Callers -> Caller]

\* The kinds of rows that deleteCase() does not reach.  The runs of agents keep
\* their output, although audit.ts:10 and ADR-026 say that an erasure redacts it:
\* eraseAgentRunOutput() is called nowhere.
NotErased == {"agent_runs", "cr_notifications", "cr_audit_events"}

\* What an erasure found when it loaded the case is deleted or anonymised when the
\* case is gone, whatever handlers and other erasures do meanwhile, but for the
\* kinds of NotErased: no other table of the schema is missed.  Rows written by a
\* handler that loaded the case before may stay, too.
ErasureMissesOnlyKnown ==
  [][caseStands /\ ~caseStands' =>
       \E i \in Callers :
         /\ CallerAt(i, "case")
         /\ \A r \in caller[i].listed \cap held' : Table[r] \in NotErased]_retentionVars

\* No asset is published that no lead approved, whatever reviews race: a published
\* asset was approved before, in this step or an earlier one.
PublishedIsReviewed ==
  [][\A a \in Assets : asset[a] = "proposed" => asset'[a] # "published"]_retentionVars
=============================================================================
