----------------------- MODULE AdministrationProofs -----------------------
(***************************************************************************)
(* Theorems about what administrators and leads do: the permissions of     *)
(* roles, the erasure of cases and the review of knowledge, the settings   *)
(* of a product, and its memory; and about the prompts of its agents.      *)
(***************************************************************************)
EXTENDS Permissions, Retention, Settings, Knowledge, AgentRuns, FiniteSetTheorems, TLAPS

-----------------------------------------------------------------------------
(* Permissions.                                                            *)

\* What each request carries: once it has resolved what it was asked, or read a
\* source, a closed set; while it resolves, nothing beyond the least closed set.
RequestIsSound(x) ==
  /\ x.asked \subseteq x.perms
  /\ x.pc \notin {"idle", "resolve", "source"} => Closed(x.perms)
  /\ x.pc # "idle" =>
       \A s \in SUBSET PermissionIds : Closed(s) /\ x.asked \subseteq s => x.perms \subseteq s

RowsAreClosed == \A r \in EditableRoles : \A b \in rows[r] : Closed(b)

PermissionsInv ==
  /\ PermissionsTypeOK
  /\ RowsAreClosed
  /\ \A e \in Edits : RequestIsSound(edit[e])

\* What is held of a role is a set of permissions, and closed, when the batches of
\* its rows are.
LEMMA ClosedHeld ==
  ASSUME PermissionsTypeOK, RowsAreClosed, NEW r \in EditableRoles
  PROVE  Held(r) \in Batch /\ Closed(Held(r))
<1>1. rows[r] \in SUBSET Batch
  BY DEF PermissionsTypeOK
<1>2. ASSUME NEW p \in UNION rows[r]
      PROVE  Requires[p] \subseteq UNION rows[r]
  BY <1>1 DEF RowsAreClosed, Closed
<1> QED BY <1>1, <1>2 DEF Held, Closed, Batch

\* What a role grants is then closed, too.
LEMMA ClosedGrants ==
  ASSUME PermissionsTypeOK, RowsAreClosed, NEW r \in AllRoles
  PROVE  Closed(Grants(r))
<1>1. CASE r \in EditableRoles /\ Held(r) # {}
  BY <1>1, ClosedHeld DEF Grants
<1>2. CASE ~(r \in EditableRoles /\ Held(r) # {})
  <2>1. Closed({})
    BY DEF Closed
  <2>2. r \in DefaultRoles => Closed(DefaultGrants[r])
    BY PermissionsAssumption
  <2> QED BY <1>2, <2>1, <2>2 DEF Grants
<1> QED BY <1>1, <1>2

\* A request that waits for nothing is sound.
LEMMA NoEditIsSound ==
  NoEdit \in Edit /\ RequestIsSound(NoEdit)
<1>1. FirstRole \in CustomRoles
  BY PermissionsAssumption DEF FirstRole
<1>2. FirstRole \in EditableRoles
  BY <1>1, PermissionsAssumption DEF EditableRoles, AllRoles
<1> QED BY <1>1, <1>2 DEF NoEdit, Edit, EditPoints, AllRoles, Batch, RequestIsSound

\* Requests replaced by sound ones of their type keep the invariant, when the
\* rows and roles stay.
LEMMA EditEffect ==
  ASSUME PermissionsInv, NEW e \in Edits, NEW x \in Edit, RequestIsSound(x),
         edit' = [edit EXCEPT ![e] = x], UNCHANGED rows,
         roles' \subseteq used', used' \subseteq CustomRoles
  PROVE  PermissionsInv'
<1>1. PermissionsTypeOK'
  BY DEF PermissionsInv, PermissionsTypeOK
<1>2. RowsAreClosed'
  BY DEF PermissionsInv, RowsAreClosed
<1>3. ASSUME NEW f \in Edits PROVE RequestIsSound(edit'[f])
  BY DEF PermissionsInv, PermissionsTypeOK
<1> QED BY <1>1, <1>2, <1>3 DEF PermissionsInv, RequestIsSound

\* One pass of the resolution adds only what every closed set with the asked
\* permissions contains.
LEMMA OnePass ==
  ASSUME NEW s \in Batch, NEW t \in Batch, Closed(t), s \subseteq t
  PROVE  RequiredBy(s) \in Batch /\ RequiredBy(s) \subseteq t
BY PermissionsAssumption DEF Closed, RequiredBy, Batch

\* The steps of one request keep the invariant.
LEMMA EditKeepsInv ==
  ASSUME PermissionsInv, NEW e \in Edits, EditStep(e)
  PROVE  PermissionsInv'
<1> DEFINE x == edit[e]
<1>0. x \in Edit /\ RequestIsSound(x) /\ roles \subseteq used /\ used \subseteq CustomRoles
  BY DEF PermissionsInv, PermissionsTypeOK
<1>1. CASE CloneGrants(e)
  <2> DEFINE perms == IF x.source \in DEFAULT_ROLE_IDS THEN DefaultGrants[x.source]
                      ELSE Held(x.source)
             y == [x EXCEPT !.pc = "delete", !.asked = perms, !.perms = perms]
  <2>1. perms \in Batch /\ Closed(perms)
    <3>1. x.source \in AllRoles
      BY <1>0 DEF Edit
    <3>2. CASE x.source \in DEFAULT_ROLE_IDS
      BY <3>1, <3>2, PermissionsAssumption DEF AllRoles, Batch
    <3>3. CASE x.source \notin DEFAULT_ROLE_IDS
      <4>1. x.source \in EditableRoles
        BY <3>1, <3>3 DEF EditableRoles
      <4> QED BY <3>3, <4>1, ClosedHeld DEF PermissionsInv
    <3> QED BY <3>2, <3>3
  <2>2. y \in Edit /\ RequestIsSound(y)
    BY <1>0, <2>1 DEF Edit, EditPoints, RequestIsSound, Batch
  <2>3. CASE edit' = [edit EXCEPT ![e] = y]
    BY <1>1, <1>0, <2>2, <2>3, EditEffect DEF CloneGrants
  <2>4. CASE edit' = [edit EXCEPT ![e] = NoEdit]
    BY <1>1, <1>0, <2>4, NoEditIsSound, EditEffect DEF CloneGrants
  <2> QED BY <1>1, <2>3, <2>4 DEF CloneGrants
<1>2. CASE ResolveDependencies(e)
  <2> DEFINE s == x.perms
             y == [x EXCEPT !.perms = s \cup RequiredBy(s)]
             z == [x EXCEPT !.pc = "delete"]
  <2>1. x.pc = "resolve" /\ s \in Batch /\ x.asked \in Batch
    BY <1>0, <1>2 DEF ResolveDependencies, EditAt, Edit
  <2>2. CASE edit' = [edit EXCEPT ![e] = y]
    <3>1. RequiredBy(s) \in Batch
      BY <2>1, PermissionsAssumption DEF RequiredBy, Batch
    <3>2. y \in Edit
      BY <1>0, <2>1, <3>1 DEF Edit, Batch
    <3>3. y.pc = "resolve" /\ y.asked = x.asked /\ y.perms = s \cup RequiredBy(s)
      BY <1>0, <2>1 DEF Edit
    <3>4. ASSUME NEW t \in SUBSET PermissionIds, Closed(t), x.asked \subseteq t
          PROVE  y.perms \subseteq t
      BY <1>0, <2>1, <3>3, <3>4, OnePass DEF RequestIsSound, Batch
    <3>5. RequestIsSound(y)
      BY <1>0, <3>3, <3>4 DEF RequestIsSound
    <3> QED BY <1>0, <1>2, <2>2, <3>2, <3>5, EditEffect DEF ResolveDependencies
  <2>3. CASE RequiredBy(s) \subseteq s /\ edit' = [edit EXCEPT ![e] = z]
    <3>1. Closed(s)
      BY <2>3 DEF Closed, RequiredBy
    <3>2. z \in Edit /\ z.pc = "delete" /\ z.asked = x.asked /\ z.perms = s
      BY <1>0, <2>1 DEF Edit, EditPoints
    <3>3. RequestIsSound(z)
      BY <1>0, <2>1, <3>1, <3>2 DEF RequestIsSound
    <3> QED BY <1>0, <1>2, <2>3, <3>2, <3>3, EditEffect DEF ResolveDependencies
  <2> QED BY <1>2, <2>2, <2>3 DEF ResolveDependencies
<1>3. CASE BeginDelete(e)
  <2> DEFINE y == [x EXCEPT !.pc = "deleteRows", !.seen = rows[x.role]]
  <2>1. x.pc = "delete" /\ rows[x.role] \in SUBSET Batch
    BY <1>0, <1>3 DEF BeginDelete, EditAt, PermissionsInv, PermissionsTypeOK, Edit
  <2>2. y \in Edit /\ y.pc = "deleteRows" /\ y.asked = x.asked /\ y.perms = x.perms
    BY <1>0, <2>1 DEF Edit, EditPoints
  <2>3. RequestIsSound(y)
    BY <1>0, <2>1, <2>2 DEF RequestIsSound
  <2> QED BY <1>0, <1>3, <2>2, <2>3, EditEffect DEF BeginDelete
<1>4. CASE DeleteRows(e)
  <2> DEFINE y == [x EXCEPT !.deleted = x.seen,
                            !.pc = IF x.perms = {} THEN "commit" ELSE "insert"]
  <2>1. x.pc = "deleteRows"
    BY <1>4 DEF DeleteRows, EditAt
  <2>2. y \in Edit /\ y.pc \in {"commit", "insert"} /\ y.asked = x.asked /\ y.perms = x.perms
    BY <1>0, <2>1 DEF Edit, EditPoints
  <2>3. RequestIsSound(y)
    BY <1>0, <2>1, <2>2 DEF RequestIsSound
  <2> QED BY <1>0, <1>4, <2>2, <2>3, EditEffect DEF DeleteRows
<1>5. CASE InsertRows(e)
  <2> DEFINE y == [x EXCEPT !.pc = "commit"]
  <2>1. x.pc = "insert"
    BY <1>5 DEF InsertRows, EditAt
  <2>2. y \in Edit /\ y.pc = "commit" /\ y.asked = x.asked /\ y.perms = x.perms
    BY <1>0, <2>1 DEF Edit, EditPoints
  <2>3. RequestIsSound(y)
    BY <1>0, <2>1, <2>2 DEF RequestIsSound
  <2> QED BY <1>0, <1>5, <2>2, <2>3, EditEffect DEF InsertRows
<1>6. CASE CommitEdit(e)
  <2> DEFINE r == x.role
             old == x.deleted
  <2>1. x.pc = "commit" /\ r \in EditableRoles /\ x.perms \in Batch /\ old \subseteq Batch
    BY <1>0, <1>6 DEF CommitEdit, EditAt, Edit
  <2>2. rows' = [rows EXCEPT ![r] = (rows[r] \ old) \cup ({x.perms} \ {{}})]
    BY <1>6, <2>1 DEF CommitEdit, PermissionsInv, PermissionsTypeOK
  <2>3. rows' \in [EditableRoles -> SUBSET Batch]
    BY <2>1, <2>2 DEF PermissionsInv, PermissionsTypeOK
  <2>4. Closed(x.perms)
    BY <1>0, <2>1 DEF RequestIsSound
  <2>5. RowsAreClosed'
    <3> SUFFICES ASSUME NEW q \in EditableRoles, NEW b \in rows'[q] PROVE Closed(b)
      BY DEF RowsAreClosed, Closed
    <3>1. b \in rows[q] \/ b = x.perms
      BY <2>1, <2>2 DEF PermissionsInv, PermissionsTypeOK
    <3> QED BY <3>1, <2>4 DEF PermissionsInv, RowsAreClosed
  <2>6. ASSUME NEW f \in Edits PROVE edit'[f] \in Edit /\ RequestIsSound(edit'[f])
    <3>1. edit[f] \in Edit /\ RequestIsSound(edit[f])
      BY DEF PermissionsInv, PermissionsTypeOK
    <3>2. CASE f = e
      BY <3>2, <1>6, NoEditIsSound DEF CommitEdit
    <3>3. CASE f # e /\ edit[f].role = r
      <4> DEFINE y == [edit[f] EXCEPT !.seen = edit[f].seen \ old]
      <4>1. edit'[f] = y
        BY <3>3, <1>6, <3>1 DEF CommitEdit, Edit
      <4>2. y \in Edit /\ y.pc = edit[f].pc /\ y.asked = edit[f].asked
                       /\ y.perms = edit[f].perms
        BY <3>1 DEF Edit
      <4> QED BY <3>1, <4>1, <4>2 DEF RequestIsSound
    <3>4. CASE f # e /\ edit[f].role # r
      BY <3>4, <1>6, <3>1 DEF CommitEdit
    <3> QED BY <3>2, <3>3, <3>4
  <2>7. edit' \in [Edits -> Edit]
    <3>1. edit' = [f \in Edits |-> edit'[f]]
      BY <1>6 DEF CommitEdit
    <3> QED BY <3>1, <2>6
  <2>8. PermissionsTypeOK'
    BY <1>0, <1>6, <2>3, <2>7 DEF CommitEdit, PermissionsTypeOK
  <2> QED BY <2>5, <2>6, <2>8 DEF PermissionsInv, RequestIsSound
<1>7. CASE EditFails(e)
  BY <1>0, <1>7, NoEditIsSound, EditEffect DEF EditFails
<1> QED BY <1>1, <1>2, <1>3, <1>4, <1>5, <1>6, <1>7 DEF EditStep

\* A new request is sound.
LEMMA NewRequestIsSound ==
  ASSUME NEW r \in EditableRoles, NEW asked \in Asked
  PROVE  LET x == [NoEdit EXCEPT !.pc = "resolve", !.role = r, !.asked = asked, !.perms = asked]
         IN x \in Edit /\ RequestIsSound(x)
<1>1. FirstRole \in CustomRoles
  BY PermissionsAssumption DEF FirstRole
<1> QED BY <1>1, PermissionsAssumption DEF NoEdit, Edit, EditPoints, AllRoles, Batch,
                                           RequestIsSound

\* A clone starts with nothing asked for.
LEMMA NewCloneIsSound ==
  ASSUME NEW r \in CustomRoles, NEW source \in AllRoles
  PROVE  LET y == [NoEdit EXCEPT !.pc = "source", !.role = r, !.source = source]
         IN y \in Edit /\ RequestIsSound(y)
<1>1. FirstRole \in CustomRoles
  BY PermissionsAssumption DEF FirstRole
<1>2. r \in EditableRoles
  BY PermissionsAssumption DEF EditableRoles, AllRoles
<1> QED BY <1>1, <1>2 DEF NoEdit, Edit, EditPoints, AllRoles, Batch, RequestIsSound

\* The invariant of the permission studio.
LEMMA PermissionsInvHolds ==
  PermissionsSpec => []PermissionsInv
<1>1. PermissionsInit => PermissionsInv
  BY NoEditIsSound DEF PermissionsInit, PermissionsInv, PermissionsTypeOK, RowsAreClosed
<1>2. ASSUME PermissionsInv, PermissionsNext PROVE PermissionsInv'
  <2>1. ASSUME NEW r \in CustomRoles, CreateRole(r) \/ DeleteRole(r) PROVE PermissionsInv'
    BY <1>2, <2>1 DEF CreateRole, DeleteRole, PermissionsInv, PermissionsTypeOK, RowsAreClosed,
                      RequestIsSound
  <2>2. ASSUME NEW e \in Edits, NEW r \in EditableRoles, EditRole(e, r) PROVE PermissionsInv'
    <3>1. PICK asked \in Asked :
            edit' = [edit EXCEPT ![e] = [NoEdit EXCEPT !.pc = "resolve", !.role = r,
                                                       !.asked = asked, !.perms = asked]]
      BY <2>2 DEF EditRole
    <3>2. UNCHANGED <<roles, used, rows>> /\ roles \subseteq used /\ used \subseteq CustomRoles
      BY <1>2, <2>2 DEF EditRole, PermissionsInv, PermissionsTypeOK
    <3> QED BY <1>2, <3>1, <3>2, NewRequestIsSound, EditEffect
  <2>3. ASSUME NEW e \in Edits, NEW r \in CustomRoles, NEW source \in AllRoles,
               CloneRole(e, r, source)
        PROVE  PermissionsInv'
    <3>1. UNCHANGED rows /\ roles' \subseteq used' /\ used' \subseteq CustomRoles
      BY <1>2, <2>3 DEF CloneRole, PermissionsInv, PermissionsTypeOK
    <3> QED BY <1>2, <2>3, <3>1, NewCloneIsSound, EditEffect DEF CloneRole
  <2>4. ASSUME NEW e \in Edits, EditStep(e) PROVE PermissionsInv'
    BY <1>2, <2>4, EditKeepsInv
  <2> QED BY <1>2, <2>1, <2>2, <2>3, <2>4 DEF PermissionsNext
<1>3. ASSUME PermissionsInv, UNCHANGED permissionVars PROVE PermissionsInv'
  BY <1>3 DEF permissionVars, PermissionsInv, PermissionsTypeOK, RowsAreClosed
<1> QED BY <1>1, <1>2, <1>3, PTL DEF PermissionsSpec

\* The rows of the permission studio and its requests have their types, whatever
\* requests overlap.
THEOREM PermissionsTypeCorrect == PermissionsSpec => []PermissionsTypeOK
<1>1. PermissionsInv => PermissionsTypeOK
  BY DEF PermissionsInv
<1> QED BY <1>1, PermissionsInvHolds, PTL

\* A role that grants a permission grants what it requires, for any dependency
\* table and any number of roles and concurrent requests (resolveDependencies(),
\* setRolePermissions()).
THEOREM GrantsAreClosedHolds ==
  PermissionsSpec => []GrantsAreClosed
<1>1. PermissionsInv => GrantsAreClosed
  BY ClosedGrants DEF PermissionsInv, GrantsAreClosed
<1> QED BY <1>1, PermissionsInvHolds, PTL

\* What an edit writes is the least closed set with what was asked
\* (resolveDependencies(): a fixed point, and the least one).
THEOREM WritesLeastClosureHolds ==
  PermissionsSpec => []WritesLeastClosure
<1>1. PermissionsInv => WritesLeastClosure
  BY DEF PermissionsInv, RequestIsSound, WritesLeastClosure
<1> QED BY <1>1, PermissionsInvHolds, PTL

-----------------------------------------------------------------------------
(* Retention.                                                              *)

\* The erasure x has passed the statement on a table.
Passed(x, table) ==
  \/ x.pc = "case" /\ table \in ErasurePoints
  \/ x.pc = "audit_events"
       /\ table \in {"notifications", "signals", "conversations", "change_requests"}
  \/ x.pc = "change_requests" /\ table \in {"notifications", "signals", "conversations"}
  \/ x.pc = "conversations" /\ table \in {"notifications", "signals"}
  \/ x.pc = "signals" /\ table = "notifications"

\* What an erasure found and passed is deleted by its transaction, or gone; what
\* a publication has read was reviewed.
CallerIsSound(x) ==
  /\ x.listed \subseteq written
  /\ \A r \in x.listed : Passed(x, Table[r]) /\ r \in held => r \in x.removed
  /\ x.pc \in {"approve", "reject", "publish"} => x.asset \in Assets
  /\ x.pc = "publish" => asset[x.asset] # "proposed" /\ asset[x.asset] # "none"

RetentionInv ==
  /\ RetentionTypeOK /\ held \subseteq written
  /\ \A i \in Callers : CallerIsSound(caller[i])

\* A free caller is sound.
LEMMA NoCallerIsSound == NoCaller \in Caller /\ CallerIsSound(NoCaller)
BY DEF NoCaller, Caller, CallPoints, ErasurePoints, CallerIsSound, Passed

\* A step that replaces the state of one caller by a sound one, and neither adds
\* rows nor takes a review back, keeps the invariant.
LEMMA CallerEffect ==
  ASSUME RetentionInv, NEW i \in Callers, NEW x \in Caller,
         caller' = [caller EXCEPT ![i] = x],
         CallerIsSound(x)', RetentionTypeOK', held' \subseteq written',
         written \subseteq written',
         \A r \in written : r \in held' => r \in held,
         \A a \in Assets : asset[a] \notin {"none", "proposed"} =>
                             asset'[a] \notin {"none", "proposed"}
  PROVE  RetentionInv'
<1> SUFFICES ASSUME NEW j \in Callers PROVE CallerIsSound(caller[j])'
  BY DEF RetentionInv
<1>1. CASE j = i
  BY <1>1 DEF RetentionInv, RetentionTypeOK
<1>2. CASE j # i
  <2>1. caller'[j] = caller[j] /\ CallerIsSound(caller[j]) /\ caller[j] \in Caller
    BY <1>2 DEF RetentionInv, RetentionTypeOK
  <2>2. \A r \in caller[j].listed : Passed(caller[j], Table[r]) /\ r \in held' => r \in caller[j].removed
    BY <2>1 DEF CallerIsSound
  <2>3. caller[j].pc = "publish" => asset'[caller[j].asset] \notin {"none", "proposed"}
    BY <2>1 DEF CallerIsSound
  <2> QED BY <2>1, <2>2, <2>3 DEF CallerIsSound, Passed
<1> QED BY <1>1, <1>2

\* Every step keeps the invariant.
LEMMA RetentionStep ==
  ASSUME RetentionInv, RetentionNext
  PROVE  RetentionInv'
<1>0. RetentionTypeOK /\ held \subseteq written
  BY DEF RetentionInv
<1>1. ASSUME NEW i \in Callers, LoadForWrite(i) PROVE RetentionInv'
  <2> DEFINE x == [NoCaller EXCEPT !.pc = "insert"]
  <2>1. x \in Caller /\ CallerIsSound(x)'
    BY DEF NoCaller, Caller, CallPoints, ErasurePoints, CallerIsSound, Passed
  <2>2. RetentionTypeOK'
    BY <1>0, <1>1, <2>1 DEF LoadForWrite, RetentionTypeOK
  <2> QED BY <1>0, <1>1, <2>1, <2>2, CallerEffect DEF LoadForWrite
<1>2. ASSUME NEW i \in Callers, WriteRow(i) PROVE RetentionInv'
  <2>1. NoCaller \in Caller /\ CallerIsSound(NoCaller)'
    BY DEF NoCaller, Caller, CallPoints, ErasurePoints, CallerIsSound, Passed
  <2>2. RetentionTypeOK'
    BY <1>0, <1>2, <2>1 DEF WriteRow, RetentionTypeOK
  <2> QED BY <1>0, <1>2, <2>1, <2>2, CallerEffect DEF WriteRow
<1>3. ASSUME NEW i \in Callers, CallerFails(i) PROVE RetentionInv'
  <2>1. NoCaller \in Caller /\ CallerIsSound(NoCaller)'
    BY DEF NoCaller, Caller, CallPoints, ErasurePoints, CallerIsSound, Passed
  <2>2. RetentionTypeOK'
    BY <1>0, <1>3, <2>1 DEF CallerFails, RetentionTypeOK
  <2> QED BY <1>0, <1>3, <2>1, <2>2, CallerEffect DEF CallerFails
<1>4. ASSUME NEW i \in Callers, EraseLoad(i) PROVE RetentionInv'
  <2> DEFINE x == [NoCaller EXCEPT !.pc = "notifications", !.listed = held]
  <2>1. x \in Caller
    BY <1>0 DEF NoCaller, Caller, CallPoints, ErasurePoints, RetentionTypeOK
  <2>2. CallerIsSound(x)'
    BY <1>0, <1>4 DEF EraseLoad, NoCaller, CallerIsSound, Passed
  <2>3. RetentionTypeOK'
    BY <1>0, <1>4, <2>1 DEF EraseLoad, RetentionTypeOK
  <2> QED BY <1>0, <1>4, <2>1, <2>2, <2>3, CallerEffect DEF EraseLoad
<1>5. ASSUME NEW i \in Callers, EraseCase(i) PROVE RetentionInv'
  <2>1. NoCaller \in Caller /\ CallerIsSound(NoCaller)'
    BY DEF NoCaller, Caller, CallPoints, ErasurePoints, CallerIsSound, Passed
  <2>2. RetentionTypeOK'
    BY <1>0, <1>5, <2>1 DEF EraseCase, RetentionTypeOK
  <2> QED BY <1>0, <1>5, <2>1, <2>2, CallerEffect DEF EraseCase
<1>6. ASSUME NEW i \in Callers, NEW table \in ErasurePoints \ {"case"}, EraseTable(i, table)
      PROVE  RetentionInv'
  <2> DEFINE known == IF table = "conversations" THEN caller[i].listed ELSE LinkedRows
             more == RowsOf(table) \cap known
             y == [caller[i] EXCEPT !.pc = NextTable[table],
                                    !.removed = caller[i].removed \cup more]
  <2>1. caller[i] \in Caller /\ caller[i].pc = table /\ CallerIsSound(caller[i])
    BY <1>0, <1>6 DEF RetentionInv, RetentionTypeOK, EraseTable, CallerAt
  <2>2. NextTable[table] \in ErasurePoints
    BY DEF NextTable, ErasurePoints
  <2>3. more \subseteq LinkedRows
    BY <1>0 DEF RowsOf, RetentionTypeOK
  <2>4. y \in Caller /\ y.pc = NextTable[table] /\ y.listed = caller[i].listed
          /\ y.removed = caller[i].removed \cup more
    BY <2>1, <2>2, <2>3 DEF Caller, CallPoints
  <2>5. caller' = [caller EXCEPT ![i] = y]
    BY <1>6 DEF EraseTable
  <2>6. PICK x \in Caller :
          /\ x.pc = NextTable[table] /\ x.listed = caller[i].listed
          /\ x.removed = caller[i].removed \cup more /\ caller' = [caller EXCEPT ![i] = x]
    BY <2>4, <2>5
  <2>7. ASSUME NEW r \in x.listed, Passed(x, Table[r]), r \in held PROVE r \in x.removed
    <3>1. Table[r] \in Tables /\ r \in LinkedRows
      BY <2>6, <2>7, RetentionAssumption DEF Caller
    <3>2. CASE Table[r] = table
      BY <2>6, <2>7, <3>1, <3>2 DEF RowsOf
    <3>3. CASE Table[r] # table
      <4>1. Passed(caller[i], Table[r])
        BY <2>1, <2>6, <2>7, <3>1, <3>3 DEF Passed, NextTable, Tables, ErasurePoints
      <4> QED BY <2>1, <2>6, <2>7, <4>1 DEF CallerIsSound
    <3> QED BY <3>2, <3>3
  <2>8. UNCHANGED <<caseStands, held, asset, written>>
    BY <1>6 DEF EraseTable
  <2>9. CallerIsSound(x)'
    <3>1. x.pc \notin {"approve", "reject", "publish"}
      BY <2>2, <2>6 DEF ErasurePoints
    <3> QED BY <2>1, <2>6, <2>7, <2>8, <3>1 DEF CallerIsSound, Passed
  <2>10. RetentionTypeOK'
    BY <1>0, <2>6, <2>8 DEF RetentionTypeOK
  <2> QED BY <1>0, <2>6, <2>8, <2>9, <2>10, CallerEffect
<1>7. ASSUME NEW i \in Callers, NEW op \in {"approve", "reject", "publish"}, NEW a \in Assets,
             ReviewLoad(i, a, op)
      PROVE  RetentionInv'
  <2> DEFINE x == [NoCaller EXCEPT !.pc = op, !.asset = a]
  <2>1. x \in Caller /\ x.pc = op /\ x.asset = a /\ x.listed = {}
    BY DEF NoCaller, Caller, CallPoints
  <2>2. UNCHANGED <<caseStands, held, asset, written>> /\ caller' = [caller EXCEPT ![i] = x]
    BY <1>7 DEF ReviewLoad
  <2>3. op = "publish" => asset[a] = "approved"
    BY <1>7 DEF ReviewLoad
  <2>4. CallerIsSound(x)'
    BY <2>1, <2>2, <2>3 DEF CallerIsSound
  <2>5. RetentionTypeOK'
    BY <1>0, <2>1, <2>2 DEF RetentionTypeOK
  <2> QED BY <1>0, <2>1, <2>2, <2>4, <2>5, CallerEffect
<1>8. ASSUME NEW i \in Callers, NEW op \in {"approve", "reject", "publish"}, ReviewWrite(i, op)
      PROVE  RetentionInv'
  <2>1. NoCaller \in Caller /\ CallerIsSound(NoCaller)'
    BY DEF NoCaller, Caller, CallPoints, ErasurePoints, CallerIsSound, Passed
  <2>2. PICK s \in {"approved", "rejected", "published"} :
          asset' = [asset EXCEPT ![caller[i].asset] = s]
    BY <1>8 DEF ReviewWrite
  <2>3. RetentionTypeOK'
    BY <1>0, <1>8, <2>1, <2>2 DEF ReviewWrite, RetentionTypeOK, AssetStatuses
  <2>4. \A a \in Assets : asset[a] \notin {"none", "proposed"} =>
                            asset'[a] \notin {"none", "proposed"}
    BY <1>0, <2>2 DEF RetentionTypeOK
  <2> QED BY <1>0, <1>8, <2>1, <2>3, <2>4, CallerEffect DEF ReviewWrite
<1>9. ASSUME NEW a \in Assets, Propose(a) PROVE RetentionInv'
  <2>1. RetentionTypeOK'
    BY <1>0, <1>9 DEF Propose, RetentionTypeOK, AssetStatuses
  <2>2. ASSUME NEW i \in Callers PROVE CallerIsSound(caller[i])'
    <3>1. CallerIsSound(caller[i])
      BY DEF RetentionInv
    <3>2. UNCHANGED <<caseStands, held, caller, written>>
      BY <1>9 DEF Propose
    <3>3. caller[i].pc = "publish" => caller[i].asset \in Assets
                                        /\ asset'[caller[i].asset] \notin {"none", "proposed"}
      BY <1>0, <1>9, <3>1 DEF Propose, CallerIsSound, RetentionTypeOK
    <3> QED BY <3>1, <3>2, <3>3 DEF CallerIsSound, Passed
  <2> QED BY <1>0, <1>9, <2>1, <2>2 DEF Propose, RetentionInv
<1> QED BY <1>1, <1>2, <1>3, <1>4, <1>5, <1>6, <1>7, <1>8, <1>9 DEF RetentionNext

\* The invariant of retention.
LEMMA RetentionInvHolds ==
  RetentionSpec => []RetentionInv
<1>1. RetentionInit => RetentionInv
  BY NoCallerIsSound DEF RetentionInit, RetentionInv, RetentionTypeOK, AssetStatuses
<1>2. ASSUME RetentionInv, UNCHANGED retentionVars PROVE RetentionInv'
  BY <1>2 DEF retentionVars, RetentionInv, RetentionTypeOK, CallerIsSound, Passed
<1> QED BY <1>1, <1>2, RetentionStep, PTL DEF RetentionSpec

\* The rows of a case, the knowledge assets and those who change them have their
\* types.
THEOREM RetentionTypeCorrect == RetentionSpec => []RetentionTypeOK
<1>1. RetentionInv => RetentionTypeOK
  BY DEF RetentionInv
<1> QED BY <1>1, RetentionInvHolds, PTL

\* What an erasure found when it loaded the case is deleted or anonymised when the
\* case is gone, whatever handlers and other erasures do meanwhile, in every table
\* with data of the case but the runs of agents and what has the id of the change
\* request (deleteCase()).
THEOREM ErasureMissesOnlyKnownHolds ==
  RetentionSpec => ErasureMissesOnlyKnown
<1>1. ASSUME RetentionInv, [RetentionNext]_retentionVars
      PROVE  caseStands /\ ~caseStands' =>
               \E i \in Callers :
                 /\ CallerAt(i, "case")
                 /\ \A r \in caller[i].listed \cap held' : Table[r] \in NotErased
  <2> SUFFICES ASSUME caseStands, ~caseStands'
               PROVE  \E i \in Callers :
                        /\ CallerAt(i, "case")
                        /\ \A r \in caller[i].listed \cap held' : Table[r] \in NotErased
    OBVIOUS
  <2>1. PICK i \in Callers : EraseCase(i)
    BY <1>1 DEF RetentionNext, retentionVars, LoadForWrite, WriteRow, CallerFails, EraseLoad,
                EraseTable, ReviewLoad, ReviewWrite, Propose
  <2>2. CallerIsSound(caller[i]) /\ caller[i].pc = "case" /\ held' = held \ caller[i].removed
    BY <1>1, <2>1 DEF EraseCase, CallerAt, RetentionInv
  <2>3. ASSUME NEW r \in caller[i].listed, r \in held' PROVE Table[r] \in NotErased
    <3>1. r \in held /\ r \notin caller[i].removed /\ Table[r] \in Tables
      BY <1>1, <2>2, <2>3, RetentionAssumption DEF RetentionInv, RetentionTypeOK
    <3>2. Table[r] \notin ErasurePoints
      BY <2>2, <3>1 DEF CallerIsSound, Passed
    <3> QED BY <3>1, <3>2 DEF Tables, ErasurePoints, NotErased
  <2> QED BY <2>2, <2>3 DEF CallerAt
<1> QED BY <1>1, RetentionInvHolds, PTL DEF RetentionSpec, ErasureMissesOnlyKnown

\* No asset is published that no lead approved, whatever reviews race (the
\* approve, reject and publish endpoints).
THEOREM PublishedIsReviewedHolds ==
  RetentionSpec => PublishedIsReviewed
<1>1. ASSUME RetentionInv, [RetentionNext]_retentionVars
      PROVE  \A a \in Assets : asset[a] = "proposed" => asset'[a] # "published"
  <2> SUFFICES ASSUME NEW a \in Assets, asset[a] = "proposed", asset'[a] = "published"
               PROVE  FALSE
    OBVIOUS
  <2>0. asset \in [Assets -> AssetStatuses]
    BY <1>1 DEF RetentionInv, RetentionTypeOK
  <2>1. PICK i \in Callers, op \in {"approve", "reject", "publish"} : ReviewWrite(i, op)
    BY <1>1, <2>0 DEF RetentionNext, retentionVars, LoadForWrite, WriteRow, CallerFails,
                EraseLoad, EraseTable, EraseCase, ReviewLoad, Propose
  <2>2. op = "publish" /\ caller[i].asset = a /\ caller[i].pc = "publish"
    BY <2>0, <2>1 DEF ReviewWrite, CallerAt
  <2>3. CallerIsSound(caller[i])
    BY <1>1 DEF RetentionInv
  <2> QED BY <2>2, <2>3 DEF CallerIsSound
<1> QED BY <1>1, RetentionInvHolds, PTL DEF RetentionSpec, PublishedIsReviewed

-----------------------------------------------------------------------------
(* Settings.                                                               *)

Fits(l) == l.explicit \/ l.embedding = DefaultModel[l.provider]

SettingsInv ==
  /\ SettingsTypeOK /\ Fits(llm)
  /\ \A i \in Updates : Fits(update[i].llm)

\* What a request merges fits the provider, when what it has read does.
LEMMA MergeLlmFits ==
  ASSUME NEW i \in Updates, update[i] \in Update, Fits(update[i].llm)
  PROVE  MergeLlm(i) \in Llm /\ Fits(MergeLlm(i))
<1> DEFINE e == update[i]
           p == IF e.provider = Unset THEN e.llm.provider ELSE e.provider
<1>0. e.llm \in Llm /\ e.provider \in Providers \cup {Unset} /\ e.embedding \in Models \cup {Unset}
  BY DEF Update
<1>1. CASE e.embedding # Unset
  <2>1. p \in Providers /\ e.embedding \in Models
    BY <1>0, <1>1 DEF Llm
  <2>2. MergeLlm(i) = [provider |-> p, embedding |-> e.embedding, explicit |-> TRUE]
    BY <1>1 DEF MergeLlm
  <2> QED BY <2>1, <2>2 DEF Llm, Fits
<1>2. CASE e.embedding = Unset /\ e.provider = Unset
  BY <1>0, <1>2 DEF MergeLlm
<1>3. CASE e.embedding = Unset /\ e.provider # Unset
  <2>1. e.provider \in Providers /\ DefaultModel[e.provider] \in Models
    BY <1>0, <1>3, SettingsAssumption
  <2>2. MergeLlm(i) = [provider |-> e.provider, embedding |-> DefaultModel[e.provider],
                       explicit |-> FALSE]
    BY <1>3 DEF MergeLlm
  <2> QED BY <2>1, <2>2 DEF Llm, Fits
<1> QED BY <1>1, <1>2, <1>3

\* A request replaced by one of its type, whose row fits, keeps the invariant
\* together with a row that fits.
LEMMA UpdateStepEffect ==
  ASSUME SettingsInv, NEW i \in Updates, NEW x \in Update, Fits(x.llm),
         update' = [update EXCEPT ![i] = x],
         policy' \in [Fields -> Updates \cup {Unset}], llm' \in Llm, Fits(llm')
  PROVE  SettingsInv'
<1>1. ASSUME NEW j \in Updates PROVE update'[j] \in Update /\ Fits(update'[j].llm)
  BY DEF SettingsInv, SettingsTypeOK
<1>2. update' \in [Updates -> Update]
  BY DEF SettingsInv, SettingsTypeOK
<1> QED BY <1>1, <1>2 DEF SettingsInv, SettingsTypeOK, Fits

\* Every step keeps the invariant.
LEMMA SettingsStep ==
  ASSUME SettingsInv, SettingsNext
  PROVE  SettingsInv'
<1>0. PICK i \in Updates :
        \/ PutSettings(i) \/ GenerateKey(i) \/ ValidateLlm(i) \/ LoadProduct(i)
        \/ SaveProduct(i) \/ UpdateFails(i)
  BY DEF SettingsNext
<1> DEFINE e == update[i]
<1>1. /\ e \in Update /\ Fits(e.llm) /\ e.llm \in Llm
      /\ policy \in [Fields -> Updates \cup {Unset}] /\ llm \in Llm /\ Fits(llm)
  BY DEF SettingsInv, SettingsTypeOK, Update
<1>2. ASSUME NEW fields \in SUBSET Fields, NEW p \in Providers \cup {Unset},
             NEW m \in Models \cup {Unset}, Asks(i, fields, p, m), UNCHANGED <<policy, llm>>
      PROVE  SettingsInv'
  <2> DEFINE x == [e EXCEPT !.pc = "validate", !.fields = fields, !.provider = p,
                            !.embedding = m]
  <2>1. x \in Update /\ x.llm = e.llm
    BY <1>1 DEF Update, UpdatePoints
  <2>2. update' = [update EXCEPT ![i] = x]
    BY <1>2 DEF Asks
  <2> QED BY <1>1, <1>2, <2>1, <2>2, UpdateStepEffect
<1>3. ASSUME NEW point \in UpdatePoints, update' = [update EXCEPT ![i] = [e EXCEPT !.pc = point]],
             policy' \in [Fields -> Updates \cup {Unset}], llm' \in Llm, Fits(llm')
      PROVE  SettingsInv'
  <2>1. [e EXCEPT !.pc = point] \in Update /\ [e EXCEPT !.pc = point].llm = e.llm
    BY <1>1 DEF Update
  <2> QED BY <1>1, <1>3, <2>1, UpdateStepEffect
<1>4. CASE PutSettings(i)
  <2>1. PICK fields \in SectionSets, p \in Providers \cup {Unset}, m \in Models \cup {Unset} :
          Asks(i, fields, p, m)
    BY <1>4 DEF PutSettings
  <2>2. fields \in SUBSET Fields
    BY SettingsAssumption DEF Fields
  <2> QED BY <1>2, <1>4, <2>1, <2>2 DEF PutSettings
<1>5. CASE GenerateKey(i)
  <2>1. PICK k \in Keys : Asks(i, {k}, Unset, Unset)
    BY <1>5 DEF GenerateKey
  <2>2. {k} \in SUBSET Fields
    BY DEF Fields
  <2> QED BY <1>2, <1>5, <2>1, <2>2 DEF GenerateKey
<1>6. CASE ValidateLlm(i)
  <2>1. PICK point \in {"load", "done"} : update' = [update EXCEPT ![i] = [e EXCEPT !.pc = point]]
    BY <1>6 DEF ValidateLlm
  <2>2. point \in UpdatePoints
    BY DEF UpdatePoints
  <2> QED BY <1>1, <1>3, <1>6, <2>1, <2>2 DEF ValidateLlm
<1>7. CASE LoadProduct(i)
  <2> DEFINE x == [e EXCEPT !.pc = "write", !.policy = policy, !.llm = llm]
  <2>1. x \in Update /\ x.llm = llm
    BY <1>1 DEF Update, UpdatePoints
  <2> QED BY <1>1, <1>7, <2>1, UpdateStepEffect DEF LoadProduct
<1>8. CASE SaveProduct(i)
  <2>1. MergePolicy(i) \in [Fields -> Updates \cup {Unset}]
    <3>1. e.policy \in [Fields -> Updates \cup {Unset}]
      BY <1>1 DEF Update
    <3> QED BY <3>1 DEF MergePolicy
  <2>2. policy' \in [Fields -> Updates \cup {Unset}]
    BY <1>1, <1>8, <2>1 DEF SaveProduct
  <2>3. llm' \in Llm /\ Fits(llm')
    BY <1>1, <1>8, MergeLlmFits DEF SaveProduct
  <2> QED BY <1>3, <1>8, <2>2, <2>3 DEF SaveProduct, UpdatePoints
<1>9. CASE UpdateFails(i)
  BY <1>1, <1>3, <1>9 DEF UpdateFails, UpdatePoints
<1> QED BY <1>0, <1>4, <1>5, <1>6, <1>7, <1>8, <1>9

\* The invariant holds throughout.
LEMMA SettingsInvHolds == SettingsSpec => []SettingsInv
<1>1. SettingsInit => SettingsInv
  <2> SUFFICES ASSUME SettingsInit PROVE SettingsInv
    OBVIOUS
  <2>1. policy \in [Fields -> Updates \cup {Unset}] /\ llm \in Llm /\ Fits(llm)
    BY DEF SettingsInit, Fits
  <2>2. ASSUME NEW i \in Updates PROVE update[i] \in Update /\ update[i].llm = llm
    BY <2>1 DEF SettingsInit, Update, UpdatePoints
  <2>3. update \in [Updates -> Update]
    BY <2>2 DEF SettingsInit
  <2> QED BY <2>1, <2>2, <2>3 DEF SettingsInv, SettingsTypeOK
<1>2. SettingsInv /\ UNCHANGED settingsVars => SettingsInv'
  BY DEF settingsVars, SettingsInv, SettingsTypeOK, Fits
<1> QED BY <1>1, <1>2, SettingsStep, PTL DEF SettingsSpec

\* The policy bundle, its versions and the requests that merge sections into it have
\* their types.
THEOREM SettingsTypeCorrect == SettingsSpec => []SettingsTypeOK
<1>1. SettingsInv => SettingsTypeOK
  BY DEF SettingsInv
<1> QED BY <1>1, SettingsInvHolds, PTL

\* "When provider changes, always reset embedding to provider defaults unless the
\* user explicitly sent an embeddingModel" (settings.ts:591), for any requests and
\* any interleaving of them.
THEOREM EmbeddingFitsProviderHolds ==
  SettingsSpec => []EmbeddingFitsProvider
<1>1. SettingsInv => EmbeddingFitsProvider
  BY DEF SettingsInv, Fits, EmbeddingFitsProvider
<1> QED BY <1>1, SettingsInvHolds, PTL

\* What was saved and what a request has read of it.

Events == {"read", "write"} \X Updates
Happened(e) == \E n \in 1..Len(history) : history[n] = e

\* A later request has written f, or one that had read the policy before i's write.
Superseded(i, f) ==
  \E j \in Updates : /\ Before(<<"write", i>>, <<"write", j>>)
                     /\ (f \in update[j].fields \/ Overlap(i, j))

HistoryIsSound ==
  /\ history \in Seq(Events)
  /\ \A i \in Updates : Wrote(i) => update[i].pc = "done"
  /\ \A i \in Updates : update[i].pc = "write" => Happened(<<"read", i>>)

\* The copy of the policy that request j is about to merge into lacks what i saved
\* only if i saved it after j had read, or if it was gone by then.
CopyIsSound(j) ==
  \A i \in Updates : Wrote(i) =>
    \A f \in update[i].fields :
      \/ update[j].policy[f] = i
      \/ Superseded(i, f)
      \/ Before(<<"read", j>>, <<"write", i>>)

SavedInv ==
  /\ HistoryIsSound
  /\ \A j \in Updates : update[j].pc = "write" => CopyIsSound(j)
  /\ SavedUnlessOverlapped

\* An event is the last in the history it is added to.
LEMMA HistoryGrows ==
  ASSUME history \in Seq(Events), NEW e \in Events, history' = Append(history, e),
         NEW a, NEW b
  PROVE  /\ history' \in Seq(Events)
         /\ Happened(a)' <=> Happened(a) \/ a = e
         /\ Before(a, b)' <=> Before(a, b) \/ (Happened(a) /\ b = e)
<1> DEFINE L == Len(history)
<1>1. /\ L \in Nat /\ history' \in Seq(Events) /\ Len(history') = L + 1
      /\ history'[L + 1] = e
      /\ \A n \in 1..L : history'[n] = history[n]
  OBVIOUS
<1> HIDE DEF L
<1>2. 1..(L + 1) = (1..L) \cup {L + 1}
  BY <1>1
<1>3. Happened(a)' <=> Happened(a) \/ a = e
  BY <1>1, <1>2 DEF Happened, L
<1>4. Before(a, b) => Before(a, b)'
  <2> SUFFICES ASSUME Before(a, b) PROVE Before(a, b)'
    OBVIOUS
  <2>1. PICK m \in 1..L, n \in 1..L : m < n /\ history[m] = a /\ history[n] = b
    BY DEF Before, L
  <2> QED BY <1>1, <1>2, <2>1 DEF Before
<1>5. Happened(a) /\ b = e => Before(a, b)'
  <2> SUFFICES ASSUME Happened(a), b = e PROVE Before(a, b)'
    OBVIOUS
  <2>1. PICK m \in 1..L : history[m] = a
    BY DEF Happened, L
  <2>2. m < L + 1 /\ m \in 1..(L + 1) /\ L + 1 \in 1..(L + 1)
    BY <1>1, <2>1
  <2> QED BY <1>1, <2>1, <2>2 DEF Before
<1>6. Before(a, b)' => Before(a, b) \/ (Happened(a) /\ b = e)
  <2> SUFFICES ASSUME Before(a, b)' PROVE Before(a, b) \/ (Happened(a) /\ b = e)
    OBVIOUS
  <2>1. PICK m \in 1..(L + 1), n \in 1..(L + 1) :
          m < n /\ history'[m] = a /\ history'[n] = b
    BY <1>1 DEF Before
  <2>2. m \in 1..L /\ history[m] = a
    BY <1>1, <2>1
  <2>3. CASE n \in 1..L
    BY <1>1, <2>1, <2>2, <2>3 DEF Before, L
  <2>4. CASE n = L + 1
    BY <1>1, <2>1, <2>2, <2>4 DEF Happened, L
  <2> QED BY <1>2, <2>1, <2>3, <2>4
<1> QED BY <1>1, <1>3, <1>4, <1>5, <1>6

\* What happens before a write has been written.
LEMMA WrittenBefore ==
  ASSUME NEW i \in Updates, NEW j \in Updates, Before(<<"write", i>>, <<"write", j>>)
  PROVE  Wrote(j)
BY DEF Before, Wrote

\* A value that was superseded stays so, when the requests that have written keep
\* their fields and the history keeps its events.
LEMMA SupersededStays ==
  ASSUME NEW i \in Updates, NEW f, Superseded(i, f),
         \A j \in Updates : Wrote(j) => update'[j].fields = update[j].fields,
         \/ UNCHANGED history
         \/ /\ history \in Seq(Events)
            /\ \E e \in Events : history' = Append(history, e)
  PROVE  Superseded(i, f)'
<1>1. PICK j \in Updates : /\ Before(<<"write", i>>, <<"write", j>>)
                           /\ (f \in update[j].fields \/ Overlap(i, j))
  BY DEF Superseded
<1>2. update'[j].fields = update[j].fields
  BY <1>1, WrittenBefore
<1>3. /\ Before(<<"write", i>>, <<"write", j>>)'
      /\ Before(<<"read", j>>, <<"write", i>>) => Before(<<"read", j>>, <<"write", i>>)'
  <2>1. CASE UNCHANGED history
    BY <1>1, <2>1 DEF Before
  <2>2. CASE history \in Seq(Events) /\ \E e \in Events : history' = Append(history, e)
    <3>1. PICK e \in Events : history' = Append(history, e)
      BY <2>2
    <3> QED BY <1>1, <2>2, <3>1, HistoryGrows
  <2> QED BY <2>1, <2>2
<1> QED BY <1>1, <1>2, <1>3 DEF Superseded, Overlap

\* A step in which a request that has not written moves on, without an event and
\* without a write.
LEMMA NoEventStep ==
  ASSUME SettingsTypeOK, SavedInv, NEW i \in Updates, NEW x \in Update,
         update' = [update EXCEPT ![i] = x], UNCHANGED <<policy, history>>,
         update[i].pc # "done", x.pc # "write"
  PROVE  SavedInv'
<1>1. \A j \in Updates : update'[j] = IF j = i THEN x ELSE update[j]
  BY DEF SettingsTypeOK
<1>2. ~Wrote(i)
  BY DEF SavedInv, HistoryIsSound
<1>3. \A j \in Updates : Wrote(j)' <=> Wrote(j)
  BY DEF Wrote
<1>4. \A j \in Updates : Wrote(j) => update'[j] = update[j]
  BY <1>1, <1>2
<1>5. HistoryIsSound'
  BY <1>1, <1>3, <1>4 DEF SavedInv, HistoryIsSound, Happened
<1>6. \A j \in Updates : \A f : Superseded(j, f) => Superseded(j, f)'
  BY <1>4, SupersededStays
<1>7. ASSUME NEW j \in Updates, update'[j].pc = "write"
      PROVE  CopyIsSound(j)'
  <2>1. update'[j] = update[j] /\ CopyIsSound(j)
    BY <1>1, <1>7 DEF SavedInv
  <2> QED BY <1>3, <1>4, <1>6, <2>1 DEF CopyIsSound, Before
<1>8. SavedUnlessOverlapped'
  <2>1. \A j \in Updates : Wrote(j) => \A f \in update[j].fields : policy[f] = j \/ Superseded(j, f)
    BY DEF SavedInv, SavedUnlessOverlapped, Superseded
  <2>2. \A j \in Updates : Wrote(j)' =>
          \A f \in update'[j].fields : policy'[f] = j \/ Superseded(j, f)'
    BY <1>3, <1>4, <1>6, <2>1
  <2> QED BY <2>2 DEF SavedUnlessOverlapped, Superseded
<1> QED BY <1>5, <1>7, <1>8 DEF SavedInv

\* A request reads the policy as it is: what it lacks has been superseded.
LEMMA ReadStep ==
  ASSUME SettingsTypeOK, SavedInv, NEW i \in Updates, LoadProduct(i)
  PROVE  SavedInv'
<1> DEFINE e == <<"read", i>>
           x == [update[i] EXCEPT !.pc = "write", !.policy = policy, !.llm = llm]
<1>1. /\ e \in Events /\ history \in Seq(Events) /\ history' = Append(history, e)
      /\ policy' = policy /\ update[i].pc = "load"
  BY DEF LoadProduct, Events, SavedInv, HistoryIsSound, UpdateAt
<1>2. \A j \in Updates : update'[j] = IF j = i THEN x ELSE update[j]
  BY DEF SettingsTypeOK, LoadProduct
<1>3. x.pc = "write" /\ x.policy = policy /\ x.fields = update[i].fields
  BY DEF SettingsTypeOK, Update
<1> HIDE DEF x
<1>4. ~Wrote(i)
  BY <1>1 DEF SavedInv, HistoryIsSound
<1>5. \A j \in Updates : Wrote(j)' <=> Wrote(j)
  <2> TAKE j \in Updates
  <2>1. Happened(<<"write", j>>)' <=> Happened(<<"write", j>>) \/ <<"write", j>> = e
    BY <1>1, HistoryGrows
  <2> QED BY <2>1 DEF Happened, Wrote
<1>6. \A j \in Updates : Wrote(j) => update'[j] = update[j]
  BY <1>2, <1>4
<1>7. \A j \in Updates : \A f : Superseded(j, f) => Superseded(j, f)'
  BY <1>1, <1>6, SupersededStays
<1>8. HistoryIsSound'
  <2>1. \A j \in Updates : Happened(<<"read", j>>)' <=> Happened(<<"read", j>>) \/ j = i
    <3> TAKE j \in Updates
    <3>1. Happened(<<"read", j>>)' <=> Happened(<<"read", j>>) \/ <<"read", j>> = e
      BY <1>1, HistoryGrows
    <3> QED BY <3>1
  <2>2. history' \in Seq(Events)
    BY <1>1, HistoryGrows
  <2> QED BY <1>2, <1>5, <1>6, <2>1, <2>2 DEF SavedInv, HistoryIsSound
<1>9. \A j \in Updates : Wrote(j)' =>
        \A f \in update'[j].fields : policy[f] = j \/ Superseded(j, f)'
  <2>1. \A j \in Updates : Wrote(j) => \A f \in update[j].fields : policy[f] = j \/ Superseded(j, f)
    BY DEF SavedInv, SavedUnlessOverlapped, Superseded
  <2> QED BY <1>5, <1>6, <1>7, <2>1
<1>10. ASSUME NEW j \in Updates, update'[j].pc = "write"
       PROVE  CopyIsSound(j)'
  <2>1. CASE j = i
    BY <1>2, <1>3, <1>9, <2>1 DEF CopyIsSound
  <2>2. CASE j # i
    <3>1. update'[j] = update[j] /\ CopyIsSound(j)
      BY <1>2, <1>10, <2>2 DEF SavedInv
    <3>2. \A k \in Updates : Before(<<"read", j>>, <<"write", k>>)
            => Before(<<"read", j>>, <<"write", k>>)'
      BY <1>1, HistoryGrows
    <3> QED BY <1>5, <1>6, <1>7, <3>1, <3>2 DEF CopyIsSound
  <2> QED BY <2>1, <2>2
<1>11. SavedUnlessOverlapped'
  BY <1>1, <1>9 DEF SavedUnlessOverlapped, Superseded
<1> QED BY <1>8, <1>10, <1>11 DEF SavedInv

\* A request writes: what it keeps of its copy is there, and what the copy lacked
\* was superseded before, or is now, by a request that overlapped.
LEMMA WriteStep ==
  ASSUME SettingsTypeOK, SavedInv, NEW i \in Updates, SaveProduct(i)
  PROVE  SavedInv'
<1> DEFINE e == <<"write", i>>
<1>1. /\ e \in Events /\ history \in Seq(Events) /\ history' = Append(history, e)
      /\ update[i].pc = "write"
  BY DEF SaveProduct, Events, SavedInv, HistoryIsSound, UpdateAt
<1>2. \A j \in Updates : /\ update'[j].fields = update[j].fields
                         /\ update'[j].policy = update[j].policy
                         /\ update'[j].pc = IF j = i THEN "done" ELSE update[j].pc
  BY DEF SettingsTypeOK, Update, SaveProduct
<1>3. ~Wrote(i)
  BY <1>1 DEF SavedInv, HistoryIsSound
<1>4. \A j \in Updates : Wrote(j)' <=> Wrote(j) \/ j = i
  <2> TAKE j \in Updates
  <2>1. Happened(<<"write", j>>)' <=> Happened(<<"write", j>>) \/ <<"write", j>> = e
    BY <1>1, HistoryGrows
  <2> QED BY <2>1 DEF Happened, Wrote
<1>5. \A j \in Updates : \A f : Superseded(j, f) => Superseded(j, f)'
  BY <1>1, <1>2, SupersededStays
<1>6. HistoryIsSound'
  <2>1. history' \in Seq(Events)
    BY <1>1, HistoryGrows
  <2>2. \A j \in Updates : Happened(<<"read", j>>) => Happened(<<"read", j>>)'
    BY <1>1, HistoryGrows
  <2> QED BY <1>2, <1>4, <2>1, <2>2 DEF SavedInv, HistoryIsSound
<1>7. ASSUME NEW j \in Updates, update'[j].pc = "write"
      PROVE  CopyIsSound(j)'
  <2>1. j # i /\ update[j].pc = "write" /\ CopyIsSound(j) /\ Happened(<<"read", j>>)
    BY <1>2, <1>7 DEF SavedInv, HistoryIsSound
  <2>2. \A k \in Updates : Before(<<"read", j>>, <<"write", k>>)
          => Before(<<"read", j>>, <<"write", k>>)'
    BY <1>1, HistoryGrows
  <2>3. Before(<<"read", j>>, <<"write", i>>)'
    BY <1>1, <2>1, HistoryGrows
  <2> QED BY <1>2, <1>4, <1>5, <2>1, <2>2, <2>3 DEF CopyIsSound
<1>8. ASSUME NEW j \in Updates, Wrote(j)', NEW f \in update'[j].fields
      PROVE  policy'[f] = j \/ Superseded(j, f)'
  <2>0. f \in Fields /\ f \in update[j].fields
    BY <1>2, <1>8 DEF SettingsTypeOK, Update
  <2>1. CASE j = i
    BY <2>0, <2>1 DEF SaveProduct, MergePolicy
  <2>2. CASE j # i /\ update[i].fields = {}
    <3>1. policy' = policy
      BY <2>2 DEF SaveProduct
    <3>2. policy[f] = j \/ Superseded(j, f)
      BY <1>4, <1>8, <2>0, <2>2 DEF SavedInv, SavedUnlessOverlapped, Superseded
    <3> QED BY <1>5, <3>1, <3>2
  <2>3. CASE j # i /\ update[i].fields # {}
    <3>1. policy'[f] = IF f \in update[i].fields THEN i ELSE update[i].policy[f]
      BY <2>0, <2>3 DEF SaveProduct, MergePolicy
    <3>2. Wrote(j) /\ Happened(<<"write", j>>)
      BY <1>4, <1>8, <2>3 DEF Wrote, Happened
    <3>3. Before(<<"write", j>>, <<"write", i>>)'
      BY <1>1, <3>2, HistoryGrows
    <3>4. CASE f \in update[i].fields
      BY <1>2, <3>3, <3>4 DEF Superseded
    <3>5. CASE f \notin update[i].fields
      <4>1. \/ update[i].policy[f] = j
            \/ Superseded(j, f)
            \/ Before(<<"read", i>>, <<"write", j>>)
        BY <1>1, <2>0, <3>2 DEF SavedInv, CopyIsSound
      <4>2. CASE Before(<<"read", i>>, <<"write", j>>)
        <5>1. Before(<<"read", i>>, <<"write", j>>)'
          BY <1>1, <4>2, HistoryGrows
        <5> QED BY <3>3, <5>1 DEF Superseded, Overlap
      <4> QED BY <1>5, <3>1, <3>5, <4>1, <4>2
    <3> QED BY <3>4, <3>5
  <2> QED BY <2>1, <2>2, <2>3
<1>9. SavedUnlessOverlapped'
  BY <1>8 DEF SavedUnlessOverlapped, Superseded
<1> QED BY <1>6, <1>7, <1>9 DEF SavedInv

\* Settings and keys that were saved are lost to an overlapping request alone, for
\* any requests, sections and interleaving: SettingsSpec has no other way.
THEOREM SavedUnlessOverlappedHolds ==
  SettingsSpec => []SavedUnlessOverlapped
<1>1. SettingsInit => SavedInv
  <2> SUFFICES ASSUME SettingsInit PROVE SavedInv
    OBVIOUS
  <2>1. history = <<>> /\ Len(history) = 0
    BY DEF SettingsInit
  <2>2. \A i \in Updates : ~Wrote(i) /\ update[i].pc = "todo"
    BY <2>1 DEF SettingsInit, Wrote
  <2>3. history \in Seq(Events)
    BY <2>1
  <2> QED BY <2>2, <2>3 DEF SavedInv, HistoryIsSound, SavedUnlessOverlapped
<1>2. SettingsInv /\ SavedInv /\ [SettingsNext]_settingsVars => SavedInv'
  <2> SUFFICES ASSUME SettingsInv, SavedInv, [SettingsNext]_settingsVars PROVE SavedInv'
    OBVIOUS
  <2>1. SettingsTypeOK
    BY DEF SettingsInv
  <2>2. CASE UNCHANGED settingsVars
    <3>1. /\ HistoryIsSound <=> HistoryIsSound'
          /\ SavedUnlessOverlapped <=> SavedUnlessOverlapped'
      BY <2>2 DEF settingsVars, HistoryIsSound, SavedUnlessOverlapped, Happened, Wrote, Before,
                  Overlap
    <3>2. \A j \in Updates : CopyIsSound(j) <=> CopyIsSound(j)'
      BY <2>2 DEF settingsVars, CopyIsSound, Superseded, Wrote, Before, Overlap
    <3> QED BY <2>2, <3>1, <3>2 DEF settingsVars, SavedInv
  <2>3. CASE SettingsNext
    <3>1. PICK i \in Updates :
            \/ PutSettings(i) \/ GenerateKey(i) \/ ValidateLlm(i) \/ LoadProduct(i)
            \/ SaveProduct(i) \/ UpdateFails(i)
      BY <2>3 DEF SettingsNext
    <3>2. CASE PutSettings(i) \/ GenerateKey(i)
      <4>1. PICK x \in Update : update' = [update EXCEPT ![i] = x] /\ x.pc = "validate"
        <5>1. SettingsTypeOK'
          BY <2>3, SettingsStep DEF SettingsInv
        <5>2. PICK fields, p, m : Asks(i, fields, p, m)
          BY <3>2 DEF PutSettings, GenerateKey
        <5>3. update'[i] \in Update /\ update'[i].pc = "validate"
          BY <2>1, <5>1, <5>2 DEF Asks, SettingsTypeOK, Update
        <5>4. update' = [update EXCEPT ![i] = update'[i]]
          BY <2>1, <5>2 DEF Asks, SettingsTypeOK
        <5> QED BY <5>3, <5>4
      <4>2. UNCHANGED <<policy, history>> /\ update[i].pc = "todo"
        BY <3>2 DEF PutSettings, GenerateKey, UpdateAt
      <4> QED BY <2>1, <4>1, <4>2, NoEventStep
    <3>3. CASE ValidateLlm(i) \/ UpdateFails(i)
      <4>1. PICK point \in {"load", "done"} :
              update' = [update EXCEPT ![i] = [update[i] EXCEPT !.pc = point]]
        BY <3>3 DEF ValidateLlm, UpdateFails
      <4>2. /\ [update[i] EXCEPT !.pc = point] \in Update
            /\ [update[i] EXCEPT !.pc = point].pc = point
        BY <2>1 DEF SettingsTypeOK, Update, UpdatePoints
      <4>3. UNCHANGED <<policy, history>> /\ update[i].pc # "done"
        BY <3>3 DEF ValidateLlm, UpdateFails, UpdateAt
      <4> QED BY <2>1, <4>1, <4>2, <4>3, NoEventStep
    <3> QED BY <2>1, <3>1, <3>2, <3>3, ReadStep, WriteStep
  <2> QED BY <2>2, <2>3
<1>3. SavedInv => SavedUnlessOverlapped
  BY DEF SavedInv
<1> QED BY <1>1, <1>2, <1>3, SettingsInvHolds, PTL DEF SettingsSpec

-----------------------------------------------------------------------------
(* Product memory.                                                         *)

\* A retrieval has read the flag of every chunk it holds that a conflict names,
\* which it knew and which is still open.
QueryIsSound(x) ==
  /\ x.pc # "idle" => /\ \A c \in x.known : conflict[c].status # "none"
                      /\ \A c \in x.known \cap OpenConflicts : \A y \in x.pack :
                           y.chunk \in conflict[c].pair => y.flag = TRUE
  /\ x.pc = "done" => ((\E y \in x.pack : y.flag = TRUE) => x.outcome = "hardAbstain")

ConflictsArePairs ==
  /\ \A c \in OpenConflicts : conflict[c].pair \in Similar
  /\ \A j \in Detections : detection[j].pc = "record" => detection[j].pair \in Similar

MemoryInv ==
  /\ KnowledgeTypeOK /\ OpenConflictIsFlagged /\ ConflictsArePairs
  /\ \A q \in Queries : QueryIsSound(query[q])

\* What a search reads has the type of a pack, and the flags of now.
LEMMA ReadIsSound ==
  ASSUME NEW found, found \subseteq stored, KnowledgeTypeOK
  PROVE  /\ Read(found) \subseteq [chunk : Chunks, flag : BOOLEAN]
         /\ \A y \in Read(found) : y.chunk \in flagged => y.flag = TRUE
BY DEF Read, KnowledgeTypeOK

\* A step that leaves the conflicts, the chunks and the queries alone keeps the
\* invariant, when its ingestions and detections have their types.
LEMMA QuietStep ==
  ASSUME MemoryInv, UNCHANGED <<conflict, flagged, query>>,
         stored \subseteq stored', stored' \subseteq Chunks,
         ingestion' \in [Ingestions -> Ingestion], detection' \in [Detections -> Detection],
         \A j \in Detections : detection'[j].pc = "record" => detection'[j].pair \in Similar
  PROVE  MemoryInv'
<1>1. KnowledgeTypeOK'
  BY DEF MemoryInv, KnowledgeTypeOK
<1>2. OpenConflictIsFlagged' /\ ConflictsArePairs'
  BY DEF MemoryInv, OpenConflictIsFlagged, ConflictsArePairs, OpenConflicts
<1>3. \A q \in Queries : QueryIsSound(query[q])'
  BY DEF MemoryInv, QueryIsSound, OpenConflicts
<1> QED BY <1>1, <1>2, <1>3 DEF MemoryInv

\* So does a step that gives one query a sound state.
LEMMA QueryStep ==
  ASSUME MemoryInv, NEW q \in Queries, NEW x \in Query, QueryIsSound(x),
         query' = [query EXCEPT ![q] = x],
         UNCHANGED <<stored, flagged, conflict, ingestion, detection>>
  PROVE  MemoryInv'
<1>1. KnowledgeTypeOK'
  BY DEF MemoryInv, KnowledgeTypeOK
<1>2. OpenConflictIsFlagged' /\ ConflictsArePairs'
  BY DEF MemoryInv, OpenConflictIsFlagged, ConflictsArePairs, OpenConflicts
<1>3. ASSUME NEW r \in Queries PROVE QueryIsSound(query'[r])
  BY DEF MemoryInv, KnowledgeTypeOK
<1>4. \A r \in Queries : QueryIsSound(query[r])'
  BY <1>3 DEF QueryIsSound, OpenConflicts
<1> QED BY <1>1, <1>2, <1>4 DEF MemoryInv

\* A step of an ingestion keeps the invariant.
LEMMA IngestionStep ==
  ASSUME MemoryInv, NEW i \in Ingestions,
         \/ \E d \in Documents : StartIngestion(i, d)
         \/ EmbedChunks(i) \/ EndIngestion(i)
         \/ \E k \in Chunks : UpsertChunk(i, k) \/ UpsertFails(i, k)
  PROVE  MemoryInv'
<1>0. /\ ingestion \in [Ingestions -> Ingestion] /\ detection \in [Detections -> Detection]
      /\ ingestion[i] \in Ingestion /\ stored \subseteq Chunks
      /\ \A j \in Detections : detection[j].pc = "record" => detection[j].pair \in Similar
  BY DEF MemoryInv, KnowledgeTypeOK, ConflictsArePairs
<1>1. NoIngestion \in Ingestion
  BY DEF NoIngestion, Ingestion
<1>2. ASSUME NEW d \in Documents, StartIngestion(i, d) PROVE MemoryInv'
  <2>1. PICK content \in (SUBSET ChunksOf(d)) \ {{}}, detect \in BOOLEAN :
          ingestion' = [ingestion EXCEPT ![i] =
            [pc |-> "embed", left |-> content, inserted |-> FALSE, detect |-> detect]]
    BY <1>2 DEF StartIngestion
  <2>2. [pc |-> "embed", left |-> content, inserted |-> FALSE, detect |-> detect] \in Ingestion
    BY DEF Ingestion, ChunksOf
  <2>3. ingestion' \in [Ingestions -> Ingestion]
    BY <1>0, <2>1, <2>2
  <2> QED BY <1>0, <1>2, <2>3, QuietStep DEF StartIngestion
<1>3. CASE EmbedChunks(i)
  <2>1. [ingestion[i] EXCEPT !.pc = "upsert"] \in Ingestion
    BY <1>0 DEF Ingestion
  <2>2. ingestion' \in [Ingestions -> Ingestion]
    BY <1>0, <1>1, <1>3, <2>1 DEF EmbedChunks
  <2> QED BY <1>0, <1>3, <2>2, QuietStep DEF EmbedChunks
<1>4. CASE EndIngestion(i)
  <2>1. ingestion' \in [Ingestions -> Ingestion]
    BY <1>0, <1>1, <1>4 DEF EndIngestion
  <2>2. [NoDetection EXCEPT !.pc = "select"] \in Detection
        /\ [NoDetection EXCEPT !.pc = "select"].pc # "record"
    BY DEF NoDetection, Detection
  <2>3. /\ detection' \in [Detections -> Detection]
        /\ \A j \in Detections : detection'[j].pc = "record" => detection'[j].pair \in Similar
    <3>1. CASE UNCHANGED detection
      BY <1>0, <3>1
    <3>2. ASSUME NEW j \in Detections,
                 detection' = [detection EXCEPT ![j] = [NoDetection EXCEPT !.pc = "select"]]
          PROVE  <2>3!1 /\ <2>3!2
      BY <1>0, <2>2, <3>2
    <3> QED BY <1>4, <3>1, <3>2 DEF EndIngestion
  <2> QED BY <1>0, <1>4, <2>1, <2>3, QuietStep DEF EndIngestion
<1>5. ASSUME NEW k \in Chunks, UpsertChunk(i, k) PROVE MemoryInv'
  <2> DEFINE x == [ingestion[i] EXCEPT !.left = @ \ {k}, !.inserted = @ \/ k \notin stored]
  <2>1. x \in Ingestion
    BY <1>0 DEF Ingestion
  <2>2. ingestion' \in [Ingestions -> Ingestion]
    BY <1>0, <1>5, <2>1 DEF UpsertChunk
  <2> QED BY <1>0, <1>5, <2>2, QuietStep DEF UpsertChunk
<1>6. ASSUME NEW k \in Chunks, UpsertFails(i, k) PROVE MemoryInv'
  <2>1. [ingestion[i] EXCEPT !.left = @ \ {k}] \in Ingestion
    BY <1>0 DEF Ingestion
  <2>2. ingestion' \in [Ingestions -> Ingestion]
    BY <1>0, <1>6, <2>1 DEF UpsertFails
  <2> QED BY <1>0, <1>6, <2>2, QuietStep DEF UpsertFails
<1> QED BY <1>2, <1>3, <1>4, <1>5, <1>6

\* A step of a detection keeps the invariant.
LEMMA DetectionStep ==
  ASSUME MemoryInv, NEW j \in Detections,
         \/ SelectPairs(j) \/ RecordConflict(j) \/ EndDetection(j)
         \/ \E p \in Similar : ClassifyConflict(j, p)
  PROVE  MemoryInv'
<1>0. /\ ingestion \in [Ingestions -> Ingestion] /\ detection \in [Detections -> Detection]
      /\ detection[j] \in Detection /\ stored \subseteq Chunks
      /\ \A l \in Detections : detection[l].pc = "record" => detection[l].pair \in Similar
  BY DEF MemoryInv, KnowledgeTypeOK, ConflictsArePairs
<1>1. ASSUME NEW x \in Detection, x.pc = "record" => x.pair \in Similar,
             detection' = [detection EXCEPT ![j] = x]
      PROVE  /\ detection' \in [Detections -> Detection]
             /\ \A l \in Detections : detection'[l].pc = "record" => detection'[l].pair \in Similar
  BY <1>0, <1>1
<1>2. CASE SelectPairs(j)
  <2>1. PICK left \in SUBSET Similar :
          detection' = [detection EXCEPT ![j] = [detection[j] EXCEPT !.pc = "classify", !.left = left]]
    BY <1>2 DEF SelectPairs
  <2>2. [detection[j] EXCEPT !.pc = "classify", !.left = left] \in Detection
        /\ [detection[j] EXCEPT !.pc = "classify", !.left = left].pc = "classify"
    BY <1>0 DEF Detection
  <2>3. /\ detection' \in [Detections -> Detection]
        /\ \A l \in Detections : detection'[l].pc = "record" => detection'[l].pair \in Similar
    BY <1>1, <2>1, <2>2
  <2> QED BY <1>0, <1>2, <2>3, QuietStep DEF SelectPairs
<1>3. CASE EndDetection(j)
  <2>1. NoDetection \in Detection /\ NoDetection.pc = "idle"
    BY DEF NoDetection, Detection
  <2>2. detection' = [detection EXCEPT ![j] = NoDetection]
    BY <1>3 DEF EndDetection
  <2>3. /\ detection' \in [Detections -> Detection]
        /\ \A l \in Detections : detection'[l].pc = "record" => detection'[l].pair \in Similar
    BY <1>1, <2>1, <2>2
  <2> QED BY <1>0, <1>3, <2>3, QuietStep DEF EndDetection
<1>4. ASSUME NEW p \in Similar, ClassifyConflict(j, p) PROVE MemoryInv'
  <2> DEFINE x == [detection[j] EXCEPT !.left = @ \ {p}]
             y == [detection[j] EXCEPT !.left = @ \ {p}, !.pc = "record", !.pair = p]
  <2>1. x \in Detection /\ y \in Detection
    BY <1>0 DEF Detection
  <2>2. x.pc = "classify" /\ y.pair = p
    BY <1>0, <1>4 DEF Detection, ClassifyConflict
  <2>3. detection' = [detection EXCEPT ![j] = x] \/ detection' = [detection EXCEPT ![j] = y]
    BY <1>4 DEF ClassifyConflict
  <2>4. /\ detection' \in [Detections -> Detection]
        /\ \A l \in Detections : detection'[l].pc = "record" => detection'[l].pair \in Similar
    BY <1>1, <2>1, <2>2, <2>3
  <2> QED BY <1>0, <1>4, <2>4, QuietStep DEF ClassifyConflict
<1>5. CASE RecordConflict(j)
  <2> DEFINE p == detection[j].pair
             x == [detection[j] EXCEPT !.pc = "classify", !.pair = NoPair]
  <2>1. p \in Similar
    BY <1>0, <1>5 DEF RecordConflict
  <2>2. x \in Detection /\ x.pc = "classify" /\ detection' = [detection EXCEPT ![j] = x]
    BY <1>0, <1>5 DEF RecordConflict, Detection
  <2>3. /\ detection' \in [Detections -> Detection]
        /\ \A l \in Detections : detection'[l].pc = "record" => detection'[l].pair \in Similar
    BY <1>1, <2>2
  <2>4. CASE UNCHANGED <<conflict, flagged>>
    BY <1>0, <1>5, <2>3, <2>4, QuietStep DEF RecordConflict
  <2>5. ASSUME p \subseteq stored, flagged' = flagged \cup p, NEW c \in ConflictIds,
               conflict[c].status = "none",
               conflict' = [conflict EXCEPT ![c] = [status |-> "open", pair |-> p]]
        PROVE  MemoryInv'
    <3>0. UNCHANGED <<stored, ingestion, query>>
      BY <1>5 DEF RecordConflict
    <3>1. conflict' \in [ConflictIds -> ConflictRow] /\ conflict \in [ConflictIds -> ConflictRow]
      BY <2>1, <2>5 DEF MemoryInv, KnowledgeTypeOK, ConflictRow
    <3>2. KnowledgeTypeOK'
      BY <2>3, <2>5, <3>0, <3>1 DEF MemoryInv, KnowledgeTypeOK
    <3>3. ASSUME NEW o \in OpenConflicts'
          PROVE  \/ o = c /\ conflict'[o].pair = p
                 \/ o # c /\ o \in OpenConflicts /\ conflict'[o] = conflict[o]
      BY <2>5, <3>1 DEF OpenConflicts
    <3>4. OpenConflictIsFlagged'
      BY <2>5, <3>3 DEF MemoryInv, OpenConflictIsFlagged
    <3>5. ConflictsArePairs'
      BY <2>1, <2>3, <3>3 DEF MemoryInv, ConflictsArePairs
    <3>6. ASSUME NEW q \in Queries PROVE QueryIsSound(query[q])'
      <4> DEFINE z == query[q]
      <4>1. QueryIsSound(z) /\ z \in Query /\ query'[q] = z
        BY <3>0 DEF MemoryInv, KnowledgeTypeOK
      <4>2. ASSUME z.pc # "idle", NEW o \in z.known
            PROVE  o # c /\ o \in ConflictIds /\ conflict'[o] = conflict[o] /\ conflict[o].status # "none"
        BY <2>5, <3>1, <4>1, <4>2 DEF QueryIsSound, Query
      <4> QED BY <3>0, <4>1, <4>2 DEF QueryIsSound, OpenConflicts
    <3> QED BY <3>2, <3>4, <3>5, <3>6 DEF MemoryInv
  <2> QED BY <1>5, <2>4, <2>5 DEF RecordConflict
<1> QED BY <1>2, <1>3, <1>4, <1>5

\* The deletion of a document keeps the invariant.
LEMMA DeletionStep ==
  ASSUME MemoryInv, NEW d \in Documents, DeleteSource(d)
  PROVE  MemoryInv'
<1> DEFINE gone(c) == c \in OpenConflicts /\ conflict[c].pair \cap ChunksOf(d) # {}
<1>1. UNCHANGED <<ingestion, detection, query>> /\ flagged' = flagged \ ChunksOf(d)
      /\ stored' = stored \ ChunksOf(d)
  BY DEF DeleteSource
<1>2. ASSUME NEW c \in ConflictIds
      PROVE  conflict'[c] = IF gone(c) THEN [status |-> "deleted", pair |-> NoPair] ELSE conflict[c]
  BY DEF DeleteSource
<1>3. conflict' \in [ConflictIds -> ConflictRow] /\ conflict \in [ConflictIds -> ConflictRow]
  BY DEF DeleteSource, MemoryInv, KnowledgeTypeOK, ConflictRow
<1>4. KnowledgeTypeOK'
  BY <1>1, <1>3 DEF MemoryInv, KnowledgeTypeOK
<1>5. ASSUME NEW o \in OpenConflicts'
      PROVE  /\ o \in OpenConflicts /\ conflict'[o] = conflict[o]
             /\ conflict[o].pair \cap ChunksOf(d) = {}
  BY <1>2, <1>3 DEF OpenConflicts
<1>6. OpenConflictIsFlagged'
  BY <1>1, <1>5 DEF MemoryInv, OpenConflictIsFlagged
<1>7. ConflictsArePairs'
  BY <1>1, <1>5 DEF MemoryInv, ConflictsArePairs
<1>8. ASSUME NEW q \in Queries PROVE QueryIsSound(query[q])'
  <2> DEFINE z == query[q]
  <2>1. QueryIsSound(z) /\ z \in Query /\ query'[q] = z
    BY <1>1 DEF MemoryInv, KnowledgeTypeOK
  <2>2. ASSUME z.pc # "idle", NEW o \in z.known PROVE conflict'[o].status # "none"
    BY <1>2, <2>1, <2>2 DEF QueryIsSound, Query
  <2> QED BY <1>1, <1>5, <2>1, <2>2 DEF QueryIsSound
<1> QED BY <1>4, <1>6, <1>7, <1>8 DEF MemoryInv

\* A step of a retrieval keeps the invariant.
LEMMA RetrievalStep ==
  ASSUME MemoryInv, NEW q \in Queries, VectorSearch(q) \/ TextSearch(q) \/ EndQuery(q)
  PROVE  MemoryInv'
<1>0. KnowledgeTypeOK /\ query[q] \in Query /\ QueryIsSound(query[q])
  BY DEF MemoryInv, KnowledgeTypeOK
<1>f. \A c \in OpenConflicts : conflict[c].pair \subseteq flagged /\ c \in ConflictIds
                                 /\ conflict[c].status = "open"
  BY DEF MemoryInv, OpenConflictIsFlagged, OpenConflicts
<1>1. CASE VectorSearch(q)
  <2>1. PICK found \in SUBSET stored :
          query' = [query EXCEPT ![q] =
            [NoQuery EXCEPT !.pc = "text", !.pack = Read(found), !.known = OpenConflicts]]
    BY <1>1 DEF VectorSearch
  <2> DEFINE x == [NoQuery EXCEPT !.pc = "text", !.pack = Read(found), !.known = OpenConflicts]
  <2>2. x.pc = "text" /\ x.pack = Read(found) /\ x.known = OpenConflicts
    BY DEF NoQuery
  <2>3. x \in Query
    BY <1>0, ReadIsSound DEF NoQuery, Query, OpenConflicts
  <2>4. QueryIsSound(x)
    <3>1. \A c \in OpenConflicts : \A y \in Read(found) : y.chunk \in conflict[c].pair => y.flag = TRUE
      BY <1>0, <1>f, ReadIsSound
    <3> HIDE DEF x
    <3> QED BY <1>f, <2>2, <3>1 DEF QueryIsSound
  <2> QED BY <1>1, <2>1, <2>3, <2>4, QueryStep DEF VectorSearch
<1>2. CASE TextSearch(q)
  <2> DEFINE z == query[q]
  <2>1. PICK found \in SUBSET stored :
          LET first == {x.chunk : x \in z.pack}
              all == z.pack \cup Read(found \ first)
          IN \E pack \in SUBSET all : \E outcome \in Outcomes(pack) :
               query' = [query EXCEPT ![q] =
                 [z EXCEPT !.pc = "done", !.pack = pack, !.outcome = outcome]]
    BY <1>2 DEF TextSearch
  <2> DEFINE more == found \ {x.chunk : x \in z.pack}
  <2>2. PICK pack \in SUBSET (z.pack \cup Read(more)) : \E outcome \in Outcomes(pack) :
          query' = [query EXCEPT ![q] = [z EXCEPT !.pc = "done", !.pack = pack, !.outcome = outcome]]
    BY <2>1
  <2>3. PICK outcome \in Outcomes(pack) :
          query' = [query EXCEPT ![q] = [z EXCEPT !.pc = "done", !.pack = pack, !.outcome = outcome]]
    BY <2>2
  <2> DEFINE x == [z EXCEPT !.pc = "done", !.pack = pack, !.outcome = outcome]
  <2>4. x.pc = "done" /\ x.pack = pack /\ x.known = z.known /\ x.outcome = outcome
    BY <1>0 DEF Query
  <2>5. z.pc # "idle"
    BY <1>2 DEF TextSearch
  <2>6. pack \subseteq [chunk : Chunks, flag : BOOLEAN]
    BY <1>0, ReadIsSound DEF Query
  <2>7. outcome \in {"none", "use", "softAbstain", "hardAbstain"}
    BY DEF Outcomes
  <2>8. x \in Query
    BY <1>0, <2>6, <2>7 DEF Query
  <2>9. QueryIsSound(x)
    <3>1. \A c \in z.known \cap OpenConflicts : \A y \in pack :
            y.chunk \in conflict[c].pair => y.flag = TRUE
      <4> SUFFICES ASSUME NEW c \in z.known \cap OpenConflicts, NEW y \in pack,
                          y.chunk \in conflict[c].pair
                   PROVE  y.flag = TRUE
        OBVIOUS
      <4>1. CASE y \in z.pack
        BY <1>0, <2>5, <4>1 DEF QueryIsSound
      <4>2. CASE y \in Read(more)
        BY <1>0, <1>f, <4>2, ReadIsSound
      <4> QED BY <4>1, <4>2
    <3>2. (\E y \in pack : y.flag = TRUE) => outcome = "hardAbstain"
      BY DEF Outcomes
    <3> HIDE DEF x
    <3> QED BY <1>0, <2>4, <2>5, <3>1, <3>2 DEF QueryIsSound
  <2> QED BY <1>2, <2>3, <2>8, <2>9, QueryStep DEF TextSearch
<1>3. CASE EndQuery(q)
  <2>1. NoQuery \in Query /\ QueryIsSound(NoQuery)
    BY DEF NoQuery, Query, QueryIsSound
  <2> QED BY <1>3, <2>1, QueryStep DEF EndQuery
<1> QED BY <1>1, <1>2, <1>3

\* The invariant of the product memory.
LEMMA MemoryInvHolds ==
  KnowledgeSpec => []MemoryInv
<1>0. /\ NoQuery \in Query /\ NoQuery.pc = "idle" /\ NoIngestion \in Ingestion
      /\ NoDetection \in Detection /\ NoDetection.pc = "idle"
  BY DEF NoQuery, Query, NoIngestion, Ingestion, NoDetection, Detection
<1>1. KnowledgeInit => MemoryInv
  <2> SUFFICES ASSUME KnowledgeInit PROVE MemoryInv
    OBVIOUS
  <2>1. conflict \in [ConflictIds -> ConflictRow] /\ OpenConflicts = {}
    BY DEF KnowledgeInit, ConflictRow, OpenConflicts
  <2>2. KnowledgeTypeOK
    BY <1>0, <2>1 DEF KnowledgeInit, KnowledgeTypeOK
  <2>3. OpenConflictIsFlagged /\ ConflictsArePairs
    BY <1>0, <2>1 DEF KnowledgeInit, OpenConflictIsFlagged, ConflictsArePairs
  <2> QED BY <1>0, <2>2, <2>3 DEF KnowledgeInit, MemoryInv, QueryIsSound
<1>2. MemoryInv /\ MemoryDies => MemoryInv'
  <2> SUFFICES ASSUME MemoryInv, MemoryDies PROVE MemoryInv'
    OBVIOUS
  <2>1. KnowledgeTypeOK'
    BY <1>0 DEF MemoryInv, MemoryDies, KnowledgeTypeOK
  <2>2. OpenConflictIsFlagged' /\ ConflictsArePairs'
    BY <1>0 DEF MemoryInv, MemoryDies, OpenConflictIsFlagged, ConflictsArePairs, OpenConflicts
  <2>3. \A q \in Queries : query'[q].pc = "idle"
    BY <1>0 DEF MemoryDies
  <2> QED BY <2>1, <2>2, <2>3 DEF MemoryInv, QueryIsSound
<1>3. MemoryInv /\ KnowledgeNext => MemoryInv'
  BY <1>2, IngestionStep, DetectionStep, DeletionStep, RetrievalStep DEF KnowledgeNext
<1>4. MemoryInv /\ UNCHANGED knowledgeVars => MemoryInv'
  BY QuietStep DEF knowledgeVars, MemoryInv, KnowledgeTypeOK, ConflictsArePairs
<1> QED BY <1>1, <1>3, <1>4, PTL DEF KnowledgeSpec

\* The chunks, the conflicts and the ingestions, detections and retrievals that work
\* on them have their types.
THEOREM KnowledgeTypeCorrect == KnowledgeSpec => []KnowledgeTypeOK
<1>1. MemoryInv => KnowledgeTypeOK
  BY DEF MemoryInv
<1> QED BY <1>1, MemoryInvHolds, PTL

\* Both chunks of every open conflict are flagged, for any documents, ingestions
\* and detections (conflict-detector.ts, the upsert and the cascade).
THEOREM OpenConflictIsFlaggedHolds ==
  KnowledgeSpec => []OpenConflictIsFlagged
<1>1. MemoryInv => OpenConflictIsFlagged
  BY DEF MemoryInv
<1> QED BY <1>1, MemoryInvHolds, PTL

\* A pack with both sides of a conflict that was open all along forces the action
\* to abstain, for any number of searches (evaluateAbstain(), retrieve()).
THEOREM ConflictAbstainsHolds ==
  KnowledgeSpec => []ConflictAbstains
<1>1. ASSUME MemoryInv PROVE ConflictAbstains
  <2> SUFFICES ASSUME NEW q \in Queries, query[q].pc = "done",
                      NEW c \in query[q].known \cap OpenConflicts,
                      conflict[c].pair \subseteq {x.chunk : x \in query[q].pack}
               PROVE  query[q].outcome = "hardAbstain"
    BY DEF ConflictAbstains
  <2>1. conflict[c].pair \in Similar /\ QueryIsSound(query[q])
    BY <1>1 DEF MemoryInv, ConflictsArePairs
  <2>2. PICK a \in conflict[c].pair : TRUE
    BY <2>1, KnowledgeAssumption
  <2>3. PICK y \in query[q].pack : y.chunk = a
    BY <2>2
  <2>4. y.flag = TRUE
    BY <2>1, <2>2, <2>3 DEF QueryIsSound
  <2> QED BY <2>1, <2>3, <2>4 DEF QueryIsSound
<1> QED BY <1>1, MemoryInvHolds, PTL

-----------------------------------------------------------------------------
(* Agent runs.                                                             *)

\* An estimate keeps to a budget just when the characters keep to its size.
LEMMA EstimateFits ==
  ASSUME NEW chars \in Nat, NEW budget \in Nat
  PROVE  EstimateTokens(chars) \in Nat
         /\ (EstimateTokens(chars) <= budget <=> chars <= CharsPerToken * budget)
<1> DEFINE k == CharsPerToken
           q == EstimateTokens(chars)
<1>1. k \in Nat /\ k >= 1
  BY AgentRunsAssumption
<1>2. q \in Int /\ k * q <= chars + k - 1 /\ chars + k - 1 < k * (q + 1)
  BY <1>1 DEF EstimateTokens
<1>3. q >= 0
  BY <1>1, <1>2
<1>4. ASSUME q <= budget PROVE chars <= k * budget
  BY <1>1, <1>2, <1>3, <1>4
<1>5. ASSUME q > budget PROVE chars > k * budget
  BY <1>1, <1>2, <1>3, <1>5
<1> QED BY <1>1, <1>2, <1>3, <1>4, <1>5

\* The truncation makes up for every text and every tool result.
LEMMA Phase2InputFits ==
  ASSUME NEW prompt \in Nat, NEW text \in Nat, NEW tools \in Nat,
         EstimateTokens(prompt) <= Phase1MaxInput
  PROVE  Phase2Input(prompt, text, tools) \in Nat
         /\ Phase2Input(prompt, text, tools) <= Phase2MaxInput
<1> DEFINE chars == SynthesisChars(prompt, text, tools)
           estimate == EstimateTokens(chars)
           room == CharsPerToken * Phase2MaxInput
           overage == (estimate - Phase2MaxInput) * CharsPerToken
           kept == ShorterOf(text, LongerOf(KeptText, text - overage))
<1>1. /\ CharsPerToken \in Nat /\ Phase2MaxInput \in Nat /\ KeptText \in Nat /\ Frame \in Nat
      /\ ShortText \in Nat /\ ShortText <= KeptText /\ room \in Nat
  BY AgentRunsAssumption
<1>2. prompt + KeptText + Frame <= room
  <2>1. prompt <= CharsPerToken * Phase1MaxInput
    BY EstimateFits, AgentRunsAssumption
  <2>2. CharsPerToken * Phase1MaxInput \in Nat
    BY AgentRunsAssumption
  <2> QED BY <1>1, <2>1, <2>2, AgentRunsAssumption
<1>3. chars \in Nat /\ chars >= prompt + Frame + text
      /\ (text >= ShortText => chars = prompt + Frame + text)
  BY <1>1 DEF SynthesisChars
<1>4. estimate \in Nat
  BY <1>3, EstimateFits
<1>5. ASSUME estimate > Phase2MaxInput
      PROVE  /\ TruncatedChars(prompt, text, estimate) \in Nat
             /\ TruncatedChars(prompt, text, estimate) <= room
  <2>1. chars <= CharsPerToken * estimate
    BY <1>3, <1>4, EstimateFits
  <2>2. overage \in Nat /\ CharsPerToken * estimate = room + overage
    BY <1>1, <1>4, <1>5
  <2>3. TruncatedChars(prompt, text, estimate) = prompt + Frame + kept
    BY DEF TruncatedChars
  <2> HIDE DEF chars, estimate, overage, room
  <2>4. chars \in Nat /\ chars <= room + overage
    BY <1>3, <2>1, <2>2
  <2>5. kept \in Nat /\ prompt + Frame + kept <= room
    BY <1>1, <1>2, <1>3, <2>2, <2>4 DEF ShorterOf, LongerOf
  <2> QED BY <1>1, <2>3, <2>5
<1>6. CASE estimate > Phase2MaxInput
  <2>1. Phase2Input(prompt, text, tools) = EstimateTokens(TruncatedChars(prompt, text, estimate))
    BY <1>6 DEF Phase2Input
  <2> QED BY <1>1, <1>5, <1>6, <2>1, EstimateFits
<1>7. CASE ~(estimate > Phase2MaxInput)
  BY <1>1, <1>4, <1>7 DEF Phase2Input
<1> QED BY <1>6, <1>7

-----------------------------------------------------------------------------
(* Sums over a finite set.  The library's induction theorems take an       *)
(* operator, which the provers cannot instantiate; a least counterexample  *)
(* does the same.                                                          *)

\* Every non-empty set of natural numbers has a least element.
LEMMA LeastElement ==
  ASSUME NEW T \in SUBSET Nat, T # {}
  PROVE  \E n \in T : \A m \in T : n <= m
<1>1. IsWellFoundedOn(OpToRel(<, Nat), Nat)
  BY NatLessThanWellFounded
<1>2. PICK n \in T : \A m \in T : ~ (<<m, n>> \in OpToRel(<, Nat))
  BY <1>1, WFMin
<1>3. \A m \in T : ~(m < n)
  <2>1. ASSUME NEW m \in T, m < n PROVE <<m, n>> \in OpToRel(<, Nat)
    BY <2>1 DEF OpToRel
  <2> QED BY <1>2, <2>1
<1>4. \A m \in T : n <= m
  BY <1>3
<1> QED BY <1>4

\* The element with which the fold of the library goes on.
First(s) == CHOOSE x \in s : TRUE

\* The equation of the fold for the sum of f.
SumStep(g, f, s) == IF s = {} THEN 0 ELSE f[First(s)] + g[s \ {First(s)}]
IsSum(g, f, U) == g = [s \in U |-> SumStep(g, f, s)]

LEMMA FirstIsElement == ASSUME NEW s, s # {} PROVE First(s) \in s
BY DEF First

\* There is a function that satisfies the equation: on the subsets of one element
\* more it is defined by what it is on the smaller ones.
LEMMA SumExists ==
  ASSUME NEW S, IsFiniteSet(S), NEW f
  PROVE  \E g : IsSum(g, f, SUBSET S)
<1> DEFINE Small(n) == {s \in SUBSET S : Cardinality(s) <= n}
           Bad == {n \in Nat : ~ \E g : IsSum(g, f, Small(n))}
<1>0. \A s \in SUBSET S : IsFiniteSet(s) /\ Cardinality(s) \in Nat /\ Cardinality(s) <= Cardinality(S)
  BY FS_Subset, FS_CardinalityType
<1>1. ASSUME Bad # {} PROVE FALSE
  <2>1. PICK n \in Bad : \A m \in Bad : n <= m
    BY <1>1, LeastElement
  <2>2. n \in Nat
    OBVIOUS
  <2>3. CASE n = 0
    <3>1. \A s \in Small(n) : s = {}
      BY <1>0, <2>3, FS_EmptySet
    <3> DEFINE g == [s \in Small(n) |-> 0]
    <3>2. IsSum(g, f, Small(n))
      BY <3>1 DEF IsSum, SumStep
    <3> QED BY <3>2
  <2>4. CASE n # 0
    <3>1. n - 1 \in Nat /\ ~(n <= n - 1)
      BY <2>2, <2>4
    <3>2. PICK g : IsSum(g, f, Small(n - 1))
      BY <2>1, <3>1
    <3> DEFINE h == [s \in Small(n) |-> SumStep(g, f, s)]
    <3>3. ASSUME NEW s \in Small(n), s # {}
          PROVE  h[s \ {First(s)}] = g[s \ {First(s)}]
      <4> DEFINE t == s \ {First(s)}
      <4>1. t \in SUBSET S /\ Cardinality(t) = Cardinality(s) - 1
        BY <1>0, <3>3, FirstIsElement, FS_RemoveElement
      <4>2. t \in Small(n - 1) /\ t \in Small(n)
        BY <1>0, <2>2, <4>1
      <4> HIDE DEF t, Small
      <4>3. g[t] = SumStep(g, f, t)
        BY <3>2, <4>2 DEF IsSum
      <4>4. h[t] = SumStep(g, f, t)
        BY <4>2
      <4> QED BY <4>3, <4>4 DEF t
    <3>4. \A s \in Small(n) : SumStep(g, f, s) = SumStep(h, f, s)
      <4> HIDE DEF h, Small
      <4> QED BY <3>3 DEF SumStep
    <3>5. IsSum(h, f, Small(n))
      BY <3>4 DEF IsSum
    <3> QED BY <3>5
  <2> QED BY <2>3, <2>4
<1>2. Cardinality(S) \in Nat
  BY FS_CardinalityType
<1>3. \E g : IsSum(g, f, Small(Cardinality(S)))
  BY <1>1, <1>2
<1>4. Small(Cardinality(S)) = SUBSET S
  BY <1>0
<1> QED BY <1>3, <1>4

\* So the sum of the library is the value of such a function at the whole domain.
LEMMA SumIsSum ==
  ASSUME NEW f, IsFiniteSet(DOMAIN f)
  PROVE  \E g : IsSum(g, f, SUBSET (DOMAIN f)) /\ SumFunction(f) = g[DOMAIN f]
<1> DEFINE g == CHOOSE h : IsSum(h, f, SUBSET (DOMAIN f))
<1>1. SumFunction(f) = g[DOMAIN f]
  BY DEF SumFunction, SumFunctionOnSet, FoldFunctionOnSet, MapThenFoldSet, IsSum, SumStep, First
<1>2. IsSum(g, f, SUBSET (DOMAIN f))
  BY SumExists
<1> QED BY <1>1, <1>2

\* A sum of integers is an integer, on every subset ...
LEMMA SumType ==
  ASSUME NEW S, IsFiniteSet(S), NEW f \in [S -> Int], NEW g, IsSum(g, f, SUBSET S)
  PROVE  \A s \in SUBSET S : g[s] \in Int
<1> DEFINE Bad == {Cardinality(s) : s \in {t \in SUBSET S : g[t] \notin Int}}
<1>0. \A s \in SUBSET S : IsFiniteSet(s) /\ Cardinality(s) \in Nat
  BY FS_Subset, FS_CardinalityType
<1>1. ASSUME Bad # {} PROVE FALSE
  <2>1. Bad \subseteq Nat
    BY <1>0
  <2>2. PICK n \in Bad : \A m \in Bad : n <= m
    BY <1>1, <2>1, LeastElement
  <2>3. PICK s \in SUBSET S : g[s] \notin Int /\ n = Cardinality(s)
    OBVIOUS
  <2>4. g[s] = SumStep(g, f, s)
    BY DEF IsSum
  <2>5. s # {}
    BY <2>3, <2>4 DEF SumStep
  <2> DEFINE t == s \ {First(s)}
  <2>6. First(s) \in S /\ t \in SUBSET S /\ Cardinality(t) = Cardinality(s) - 1
    BY <1>0, <2>5, FirstIsElement, FS_RemoveElement
  <2>7. g[t] \in Int
    BY <1>0, <2>2, <2>3, <2>6
  <2> QED BY <2>3, <2>4, <2>5, <2>6, <2>7 DEF SumStep
<1> QED BY <1>1

\* ... and on the whole.
LEMMA SumIsInt ==
  ASSUME NEW S, IsFiniteSet(S), NEW f \in [S -> Int]
  PROVE  SumFunction(f) \in Int
<1>1. DOMAIN f = S
  OBVIOUS
<1>2. PICK g : IsSum(g, f, SUBSET S) /\ SumFunction(f) = g[S]
  BY <1>1, SumIsSum
<1> QED BY <1>2, SumType

\* A sum of a function that changes at one argument changes by as much.
LEMMA SumOfChange ==
  ASSUME NEW S, IsFiniteSet(S), NEW f \in [S -> Int], NEW i \in S, NEW v \in Int
  PROVE  SumFunction([f EXCEPT ![i] = v]) = SumFunction(f) - f[i] + v
<1> DEFINE e == [f EXCEPT ![i] = v]
<1>0. \A s \in SUBSET S : IsFiniteSet(s) /\ Cardinality(s) \in Nat
  BY FS_Subset, FS_CardinalityType
<1>1. PICK g : IsSum(g, f, SUBSET S) /\ SumFunction(f) = g[S]
  BY SumIsSum
<1>2. e \in [S -> Int] /\ \A j \in S : e[j] = IF j = i THEN v ELSE f[j]
  OBVIOUS
<1> HIDE DEF e
<1>3. PICK h : IsSum(h, e, SUBSET S) /\ SumFunction(e) = h[S]
  BY <1>2, SumIsSum
<1>4. \A s \in SUBSET S : g[s] \in Int /\ h[s] \in Int
  BY <1>1, <1>2, <1>3, SumType
<1> DEFINE Differs(s) == h[s] = g[s] + (IF i \in s THEN v - f[i] ELSE 0)
           Bad == {Cardinality(s) : s \in {t \in SUBSET S : ~Differs(t)}}
<1>5. ASSUME Bad # {} PROVE FALSE
  <2>1. Bad \subseteq Nat
    BY <1>0
  <2>2. PICK n \in Bad : \A m \in Bad : n <= m
    BY <1>5, <2>1, LeastElement
  <2>3. PICK s \in SUBSET S : ~Differs(s) /\ n = Cardinality(s)
    OBVIOUS
  <2>4. g[s] = SumStep(g, f, s) /\ h[s] = SumStep(h, e, s)
    BY <1>1, <1>3 DEF IsSum
  <2>5. s # {}
    BY <2>3, <2>4 DEF SumStep
  <2> DEFINE x == First(s)
             t == s \ {x}
  <2>6. x \in s /\ x \in S /\ t \in SUBSET S /\ Cardinality(t) = Cardinality(s) - 1
    BY <1>0, <2>5, FirstIsElement, FS_RemoveElement
  <2>7. Differs(t)
    BY <1>0, <2>2, <2>3, <2>6
  <2>8. g[s] = f[x] + g[t] /\ h[s] = e[x] + h[t]
    BY <2>4, <2>5 DEF SumStep
  <2>9. f[x] \in Int /\ g[t] \in Int /\ h[t] \in Int /\ f[i] \in Int
    BY <1>4, <2>6
  <2>10. e[x] = IF x = i THEN v ELSE f[x]
    BY <1>2, <2>6
  <2>11. i \in t <=> i \in s /\ x # i
    OBVIOUS
  <2> HIDE DEF x, t
  <2>12. Differs(s)
    BY <2>6, <2>7, <2>8, <2>9, <2>10, <2>11
  <2> QED BY <2>3, <2>12
<1>6. Differs(S)
  BY <1>5
<1> QED BY <1>1, <1>3, <1>4, <1>6 DEF e

\* A sum of terms none of which is greater than b is at most b times their number.
LEMMA SumOfBounded ==
  ASSUME NEW S, IsFiniteSet(S), NEW f \in [S -> Int], NEW b \in Nat, \A i \in S : f[i] <= b
  PROVE  SumFunction(f) \in Int /\ SumFunction(f) <= b * Cardinality(S)
<1>0. \A s \in SUBSET S : IsFiniteSet(s) /\ Cardinality(s) \in Nat
  BY FS_Subset, FS_CardinalityType
<1>1. PICK g : IsSum(g, f, SUBSET S) /\ SumFunction(f) = g[S]
  BY SumIsSum
<1>2. \A s \in SUBSET S : g[s] \in Int
  BY <1>1, SumType
<1> DEFINE Bad == {Cardinality(s) : s \in {t \in SUBSET S : ~(g[t] <= b * Cardinality(t))}}
<1>3. ASSUME Bad # {} PROVE FALSE
  <2>1. Bad \subseteq Nat
    BY <1>0
  <2>2. PICK n \in Bad : \A m \in Bad : n <= m
    BY <1>3, <2>1, LeastElement
  <2>3. PICK s \in SUBSET S : ~(g[s] <= b * Cardinality(s)) /\ n = Cardinality(s)
    OBVIOUS
  <2>4. g[s] = SumStep(g, f, s)
    BY <1>1 DEF IsSum
  <2>5. s # {}
    <3>1. SUFFICES ASSUME s = {} PROVE FALSE
      OBVIOUS
    <3>2. g[s] = 0 /\ Cardinality(s) = 0
      BY <2>4, <3>1, FS_EmptySet DEF SumStep
    <3> QED BY <2>3, <3>2
  <2> DEFINE x == First(s)
             t == s \ {x}
  <2>6. x \in S /\ t \in SUBSET S /\ Cardinality(t) = Cardinality(s) - 1
    BY <1>0, <2>5, FirstIsElement, FS_RemoveElement
  <2>7. g[t] <= b * Cardinality(t)
    <3>1. SUFFICES ASSUME ~(g[t] <= b * Cardinality(t)) PROVE FALSE
      OBVIOUS
    <3>2. Cardinality(t) \in Bad
      BY <2>6, <3>1
    <3> HIDE DEF Bad, t
    <3>3. n <= Cardinality(t)
      BY <2>2, <3>2
    <3> QED BY <1>0, <2>3, <2>6, <3>3
  <2>8. g[s] = f[x] + g[t] /\ f[x] \in Int /\ f[x] <= b /\ g[t] \in Int
    BY <1>2, <2>4, <2>5, <2>6 DEF SumStep
  <2>9. b * Cardinality(t) = b * Cardinality(s) - b /\ b * Cardinality(s) \in Int
    BY <1>0, <2>6
  <2> HIDE DEF x, t
  <2>10. g[s] <= b * Cardinality(s)
    BY <2>7, <2>8, <2>9
  <2> QED BY <2>3, <2>10
<1> QED BY <1>1, <1>2, <1>3

-----------------------------------------------------------------------------
(* What agent runs cost.                                                   *)

\* The budget of a phase is kept once the phase is reached, and a run has
\* reported what one call costs before its last call, and two calls at most.
RunIsSound(x) ==
  /\ x.pc = "phase1" => EstimateTokens(x.prompt) <= Phase1MaxInput
  /\ x.pc = "phase2" => x.input <= Phase2MaxInput
  /\ x.pc \notin {"phase2", "again", "post", "complete"} => x.usage = 0
  /\ x.pc \in {"phase2", "again"} => x.usage <= MaxCall
  /\ x.pc = "post" => x.usage <= MostPerAttempt

CostInv ==
  /\ AgentRunsTypeOK
  /\ \A i \in Runs : RunIsSound(run[i])
  /\ NeverOvercounted
  /\ OvershootIsBounded

\* The terms of both sums.
LEMMA TermTypes ==
  ASSUME NEW x \in Run
  PROVE  /\ UnrecordedOf(x) \in Nat
         /\ AttemptsOf(x) \in Nat /\ AttemptsOf(x) <= Retries + 1
BY AgentRunsAssumption DEF Run, UnrecordedOf, AttemptsOf

\* What a step of one run must do to keep the invariant: what it adds to the record
\* it takes from what is unrecorded, or it was spent; and it takes it from the
\* attempts left, or the record is below the limit.
KeepsSums(i, x) ==
  /\ recorded' \in Nat /\ spent' \in Nat /\ abandoned' \in Nat
  /\ recorded' + UnrecordedOf(x) + spent <= recorded + UnrecordedOf(run[i]) + spent'
  /\ \/ recorded' = recorded /\ recorded < HardLimit
     \/ /\ recorded' <= recorded + MostPerAttempt /\ AttemptsOf(x) = AttemptsOf(run[i]) - 1
     \/ /\ recorded' = recorded /\ AttemptsOf(x) <= AttemptsOf(run[i])

LEMMA RunEffect ==
  ASSUME CostInv, NEW i \in Runs, NEW x \in Run, RunIsSound(x), run' = [run EXCEPT ![i] = x],
         KeepsSums(i, x)
  PROVE  CostInv'
<1>1. /\ run \in [Runs -> Run] /\ run[i] \in Run /\ IsFiniteSet(Runs)
      /\ recorded \in Nat /\ spent \in Nat /\ MostPerAttempt \in Nat /\ Retries + 1 \in Nat
      /\ HardLimit \in Nat /\ Cardinality(Runs) \in Nat
      /\ recorded' \in Nat /\ spent' \in Nat /\ abandoned' \in Nat
  BY AgentRunsAssumption, FS_CardinalityType
     DEF CostInv, AgentRunsTypeOK, MostPerAttempt, KeepsSums
<1>2. AgentRunsTypeOK' /\ \A j \in Runs : RunIsSound(run'[j])
  BY <1>1 DEF CostInv, AgentRunsTypeOK
<1>3. /\ Unrecorded \in [Runs -> Int] /\ AttemptsLeft \in [Runs -> Int]
      /\ UnrecordedOf(x) \in Int /\ AttemptsOf(x) \in Int
      /\ Unrecorded[i] = UnrecordedOf(run[i]) /\ AttemptsLeft[i] = AttemptsOf(run[i])
      /\ UnrecordedOf(run[i]) \in Int /\ AttemptsOf(run[i]) \in Int
  BY <1>1, TermTypes DEF Unrecorded, AttemptsLeft
<1>4. /\ Unrecorded' = [Unrecorded EXCEPT ![i] = UnrecordedOf(x)]
      /\ AttemptsLeft' = [AttemptsLeft EXCEPT ![i] = AttemptsOf(x)]
  BY <1>1 DEF Unrecorded, AttemptsLeft, UnrecordedOf, AttemptsOf
<1> DEFINE u == SumFunction(Unrecorded)
           a == SumFunction(AttemptsLeft)
           uu == SumFunction(Unrecorded')
           aa == SumFunction(AttemptsLeft')
           most == (Retries + 1) * Cardinality(Runs)
<1>5. u \in Int /\ a \in Int /\ uu \in Int /\ aa \in Int
  BY <1>1, <1>3, <1>4, SumIsInt
<1>6. uu = u - UnrecordedOf(run[i]) + UnrecordedOf(x) /\ aa = a - AttemptsOf(run[i]) + AttemptsOf(x)
  <2>1. SumFunction([Unrecorded EXCEPT ![i] = UnrecordedOf(x)]) = u - Unrecorded[i] + UnrecordedOf(x)
    BY <1>1, <1>3, SumOfChange
  <2>2. SumFunction([AttemptsLeft EXCEPT ![i] = AttemptsOf(x)]) = a - AttemptsLeft[i] + AttemptsOf(x)
    BY <1>1, <1>3, SumOfChange
  <2> QED BY <1>3, <1>4, <2>1, <2>2
<1>7. aa <= most /\ most \in Int
  <2>1. \A j \in Runs : AttemptsLeft'[j] <= Retries + 1
    BY <1>1, <1>2, TermTypes DEF AttemptsLeft, AgentRunsTypeOK
  <2>2. AttemptsLeft' \in [Runs -> Int]
    BY <1>3, <1>4
  <2> QED BY <1>1, <2>1, <2>2, SumOfBounded
<1> HIDE DEF u, a, uu, aa, most
<1>8. NeverOvercounted'
  <2>1. recorded + u <= spent
    BY DEF CostInv, NeverOvercounted, u
  <2>2. recorded' + uu <= spent'
    BY <1>1, <1>3, <1>5, <1>6, <2>1 DEF KeepsSums
  <2> QED BY <2>2 DEF NeverOvercounted, uu
<1>9. OvershootIsBounded'
  <2> DEFINE m == MostPerAttempt
             bound == HardLimit - 1 + m * most
  <2>0. recorded + m * a <= bound /\ m \in Nat
    BY <1>1 DEF CostInv, OvershootIsBounded, a, most
  <2>1. m * aa \in Int /\ m * a \in Int /\ m * most \in Int
    BY <1>1, <1>5, <1>7
  <2>2. recorded' + m * aa <= bound
    <3>1. CASE recorded' = recorded /\ recorded < HardLimit
      <4>1. m * aa <= m * most
        BY <1>1, <1>5, <1>7
      <4> QED BY <1>1, <2>1, <3>1, <4>1
    <3>2. CASE recorded' <= recorded + m /\ AttemptsOf(x) = AttemptsOf(run[i]) - 1
      <4>1. aa = a - 1
        BY <1>3, <1>5, <1>6, <3>2
      <4>2. m * aa = m * a - m
        BY <1>1, <1>5, <4>1
      <4> HIDE DEF m
      <4> QED BY <1>1, <2>0, <2>1, <3>2, <4>2
    <3>3. CASE recorded' = recorded /\ AttemptsOf(x) <= AttemptsOf(run[i])
      <4>1. aa <= a
        BY <1>3, <1>5, <1>6, <3>3
      <4>2. m * aa <= m * a
        BY <1>1, <1>5, <4>1
      <4> HIDE DEF m
      <4> QED BY <1>1, <2>0, <2>1, <3>3, <4>2
    <3> QED BY <3>1, <3>2, <3>3 DEF KeepsSums
  <2> QED BY <2>2 DEF OvershootIsBounded, aa, most, MostPerAttempt
<1> QED BY <1>2, <1>8, <1>9 DEF CostInv

\* What a run is after an attempt that failed: nothing unrecorded, an attempt less.
LEMMA AgainIsSound ==
  ASSUME CostInv, NEW i \in Runs, run[i].pc # "free"
  PROVE  /\ Again(i) \in Run /\ RunIsSound(Again(i)) /\ UnrecordedOf(Again(i)) = 0
         /\ AttemptsOf(Again(i)) <= AttemptsOf(run[i])
<1>1. run[i] \in Run /\ Retries \in Nat /\ run[i].attempt \in 0..Retries
  BY AgentRunsAssumption DEF CostInv, AgentRunsTypeOK, Run
<1>2. CASE run[i].attempt < Retries
  <2>1. run[i].attempt + 1 \in 0..Retries
    BY <1>1, <1>2
  <2>2. PICK x \in Run : x = [NoRun EXCEPT !.pc = "queued", !.attempt = run[i].attempt + 1]
    BY <2>1, AgentRunsAssumption DEF NoRun, Run, RunPoints
  <2>3. x.pc = "queued" /\ x.attempt = run[i].attempt + 1 /\ x.usage = 0
    BY <2>2 DEF NoRun
  <2>4. RunIsSound(x) /\ UnrecordedOf(x) = 0 /\ AttemptsOf(x) = Retries - run[i].attempt
    BY <1>1, <2>3 DEF RunIsSound, UnrecordedOf, AttemptsOf
  <2>5. x = Again(i)
    BY <1>2, <2>2 DEF Again
  <2> QED BY <1>1, <2>4, <2>5 DEF AttemptsOf
<1>3. CASE ~(run[i].attempt < Retries)
  <2>1. Again(i) = NoRun
    BY <1>3 DEF Again
  <2>2. NoRun \in Run /\ RunIsSound(NoRun) /\ UnrecordedOf(NoRun) = 0 /\ AttemptsOf(NoRun) = 0
    BY <1>1 DEF NoRun, Run, RunPoints, RunIsSound, UnrecordedOf, AttemptsOf
  <2> QED BY <1>1, <2>1, <2>2, TermTypes
<1> QED BY <1>2, <1>3

\* Dispatch: the check of the budget starts a run whose attempts are all left.
LEMMA DispatchKeepsCost ==
  ASSUME CostInv, NEW i \in Runs, CheckBudget(i) \/ SendRun(i)
  PROVE  CostInv'
<1>0. /\ run \in [Runs -> Run] /\ run[i] \in Run /\ RunIsSound(run[i]) /\ recorded \in Nat
      /\ UNCHANGED <<recorded, spent, abandoned>> /\ spent \in Nat /\ abandoned \in Nat
  BY DEF CostInv, AgentRunsTypeOK, CheckBudget, SendRun
<1>1. PICK point \in {"send", "queued", "free"} :
        /\ run' = [run EXCEPT ![i] = [run[i] EXCEPT !.pc = point]]
        /\ run[i].pc \in {"free", "send"}
        /\ \/ recorded < HardLimit
           \/ run[i].pc = "send"
  BY DEF CheckBudget, SendRun, RunAt, RunGoes
<1>2. PICK x \in Run : x = [run[i] EXCEPT !.pc = point]
  BY <1>0 DEF Run, RunPoints
<1>3. x.pc = point /\ x.usage = run[i].usage /\ x.attempt = run[i].attempt
  BY <1>0, <1>2 DEF Run
<1>4. RunIsSound(x) /\ UnrecordedOf(x) = UnrecordedOf(run[i])
  BY <1>0, <1>1, <1>3 DEF RunIsSound, UnrecordedOf
<1>5. UnrecordedOf(x) \in Nat /\ AttemptsOf(x) \in Nat /\ AttemptsOf(run[i]) \in Nat
  BY <1>0, TermTypes
<1>6. run[i].pc = "send" => AttemptsOf(x) <= AttemptsOf(run[i])
  BY <1>1, <1>3, <1>5 DEF AttemptsOf
<1>7. KeepsSums(i, x)
  BY <1>0, <1>1, <1>4, <1>5, <1>6 DEF KeepsSums
<1> QED BY <1>1, <1>2, <1>4, <1>7, RunEffect

\* An attempt that fails, whatever its calls have cost.
LEMMA FailingKeepsCost ==
  ASSUME CostInv, NEW i \in Runs, run[i].pc # "free", run' = [run EXCEPT ![i] = Again(i)],
         UNCHANGED recorded, spent' \in Nat, spent <= spent', abandoned' \in Nat
  PROVE  CostInv'
<1>1. run[i] \in Run /\ spent \in Nat /\ recorded \in Nat
  BY DEF CostInv, AgentRunsTypeOK
<1>2. UnrecordedOf(run[i]) \in Nat
  BY <1>1, TermTypes
<1>3. PICK x \in Run : x = Again(i) /\ RunIsSound(x)
  BY AgainIsSound
<1>4. UnrecordedOf(x) = 0 /\ AttemptsOf(x) <= AttemptsOf(run[i])
  BY <1>3, AgainIsSound
<1>5. KeepsSums(i, x)
  BY <1>1, <1>2, <1>4 DEF KeepsSums
<1> QED BY <1>3, <1>5, RunEffect

\* The start of an attempt.
LEMMA StartKeepsCost ==
  ASSUME CostInv, NEW i \in Runs, StartRun(i)
  PROVE  CostInv'
<1>0. /\ run \in [Runs -> Run] /\ run[i] \in Run /\ RunIsSound(run[i]) /\ run[i].pc = "queued"
      /\ UNCHANGED <<recorded, spent, abandoned>> /\ spent \in Nat /\ abandoned \in Nat
      /\ recorded \in Nat
  BY DEF CostInv, AgentRunsTypeOK, StartRun, RunAt
<1>1. PICK prompt \in PromptLengths, point \in {"single", "phase1"} :
        run' = [run EXCEPT ![i] =
                  IF EstimateTokens(prompt) > Phase1MaxInput THEN Again(i)
                  ELSE [run[i] EXCEPT !.pc = point, !.prompt = prompt]]
  BY DEF StartRun
<1>2. prompt \in Nat /\ EstimateTokens(prompt) \in Nat /\ Phase1MaxInput \in Nat
  BY AgentRunsAssumption, EstimateFits
<1>3. CASE EstimateTokens(prompt) > Phase1MaxInput
  <2>1. run' = [run EXCEPT ![i] = Again(i)] /\ run[i].pc # "free"
    BY <1>0, <1>1, <1>3
  <2>2. recorded' = recorded /\ spent' \in Nat /\ spent <= spent' /\ abandoned' \in Nat
    BY <1>0
  <2> QED BY <2>1, <2>2, FailingKeepsCost
<1>4. CASE ~(EstimateTokens(prompt) > Phase1MaxInput)
  <2>1. PICK x \in Run : x = [run[i] EXCEPT !.pc = point, !.prompt = prompt]
    BY <1>0, <1>2 DEF Run, RunPoints
  <2>2. /\ x.pc = point /\ x.prompt = prompt /\ x.usage = run[i].usage
        /\ x.attempt = run[i].attempt
    BY <1>0, <2>1 DEF Run
  <2>3. RunIsSound(x) /\ UnrecordedOf(x) = UnrecordedOf(run[i]) /\ AttemptsOf(x) = AttemptsOf(run[i])
    BY <1>0, <1>2, <1>4, <2>2 DEF RunIsSound, UnrecordedOf, AttemptsOf
  <2>4. UnrecordedOf(x) \in Nat /\ AttemptsOf(x) \in Nat
    BY TermTypes
  <2>5. KeepsSums(i, x)
    BY <1>0, <2>3, <2>4 DEF KeepsSums
  <2> QED BY <1>1, <1>4, <2>1, <2>3, <2>5, RunEffect
<1> QED BY <1>3, <1>4

\* A call that answers, or is truncated for the first time.
LEMMA CallKeepsCost ==
  ASSUME CostInv, NEW i \in Runs,
         \/ Phase1Answers(i)
         \/ CallAnswers(i)
         \/ CallIsTruncated(i) /\ ~RunAt(i, "again")
  PROVE  CostInv'
<1>0. /\ run \in [Runs -> Run] /\ run[i] \in Run /\ RunIsSound(run[i]) /\ MaxCall \in Nat
      /\ UNCHANGED <<recorded, abandoned>> /\ spent \in Nat /\ abandoned \in Nat
      /\ run[i].usage \in Nat /\ recorded \in Nat
  BY AgentRunsAssumption
     DEF CostInv, AgentRunsTypeOK, Phase1Answers, CallAnswers, CallIsTruncated, Run
<1>1. CASE Phase1Answers(i)
  <2>1. PICK n \in 1..MaxCall, text \in TextLengths, tools \in ToolLengths :
          /\ spent' = spent + n
          /\ run' = [run EXCEPT ![i] =
                      [run[i] EXCEPT !.pc = "phase2", !.usage = run[i].usage + n,
                                     !.input = Phase2Input(run[i].prompt, text, tools)]]
    BY <1>1 DEF Phase1Answers
  <2> DEFINE input == Phase2Input(run[i].prompt, text, tools)
  <2>0. n \in Nat /\ n <= MaxCall /\ text \in Nat /\ tools \in Nat
    BY <1>0, AgentRunsAssumption
  <2>2. /\ run[i].pc = "phase1" /\ run[i].prompt \in Nat /\ run[i].usage = 0
        /\ EstimateTokens(run[i].prompt) <= Phase1MaxInput
    BY <1>0, <1>1 DEF Run, RunAt, Phase1Answers, RunIsSound
  <2>3. input \in Nat /\ input <= Phase2MaxInput
    BY <2>0, <2>2, Phase2InputFits
  <2> HIDE DEF input
  <2>4. run[i].usage + n \in Nat /\ "phase2" \in RunPoints
    BY <1>0, <2>0 DEF RunPoints
  <2>5. PICK x \in Run :
          x = [run[i] EXCEPT !.pc = "phase2", !.usage = run[i].usage + n, !.input = input]
    BY <1>0, <2>3, <2>4 DEF Run
  <2>6. /\ x.pc = "phase2" /\ x.input = input /\ x.usage = n /\ x.attempt = run[i].attempt
        /\ run' = [run EXCEPT ![i] = x]
    BY <1>0, <2>0, <2>1, <2>2, <2>5 DEF Run, input
  <2>7. /\ RunIsSound(x) /\ UnrecordedOf(x) = n /\ UnrecordedOf(run[i]) = 0
        /\ AttemptsOf(x) = AttemptsOf(run[i])
    BY <2>0, <2>2, <2>3, <2>6 DEF RunIsSound, UnrecordedOf, AttemptsOf
  <2>8. AttemptsOf(x) \in Nat
    BY TermTypes
  <2>9. KeepsSums(i, x)
    BY <1>0, <2>0, <2>1, <2>7, <2>8 DEF KeepsSums
  <2> QED BY <2>6, <2>7, <2>9, RunEffect
<1>2. CASE CallAnswers(i)
  <2>1. PICK n \in 1..MaxCall :
          /\ spent' = spent + n
          /\ run' = [run EXCEPT ![i] = [run[i] EXCEPT !.pc = "post", !.usage = run[i].usage + n]]
    BY <1>2 DEF CallAnswers
  <2>0. n \in Nat /\ n <= MaxCall /\ run[i].usage + n \in Nat
    BY <1>0
  <2>2. run[i].pc \in {"single", "phase2", "again"} /\ run[i].usage <= MaxCall
    <3>1. run[i].pc \in {"single", "phase2", "again"}
      BY <1>2 DEF CallAnswers, Calling, RunAt
    <3>2. run[i].pc = "single" => run[i].usage = 0
      BY <1>0 DEF RunIsSound
    <3>3. run[i].pc \in {"phase2", "again"} => run[i].usage <= MaxCall
      BY <1>0 DEF RunIsSound
    <3> QED BY <1>0, <3>1, <3>2, <3>3
  <2>3. PICK x \in Run : x = [run[i] EXCEPT !.pc = "post", !.usage = run[i].usage + n]
    BY <1>0, <2>0 DEF Run, RunPoints
  <2>4. x.pc = "post" /\ x.usage = run[i].usage + n /\ x.attempt = run[i].attempt
    BY <1>0, <2>3 DEF Run
  <2>5. /\ RunIsSound(x) /\ UnrecordedOf(x) = run[i].usage + n
        /\ UnrecordedOf(run[i]) = run[i].usage /\ AttemptsOf(x) = AttemptsOf(run[i])
    BY <1>0, <2>0, <2>2, <2>4 DEF RunIsSound, UnrecordedOf, AttemptsOf, MostPerAttempt
  <2>6. AttemptsOf(x) \in Nat
    BY TermTypes
  <2>7. KeepsSums(i, x)
    BY <1>0, <2>0, <2>1, <2>5, <2>6 DEF KeepsSums
  <2> QED BY <2>1, <2>3, <2>5, <2>7, RunEffect
<1>3. CASE CallIsTruncated(i) /\ ~RunAt(i, "again")
  <2>1. PICK n \in 1..MaxCall : spent' = spent + n
    BY <1>3 DEF CallIsTruncated
  <2>2. /\ run' = [run EXCEPT ![i] = [run[i] EXCEPT !.pc = "again"]]
        /\ run[i].pc \in {"single", "phase2"} /\ n \in Nat
    BY <1>3 DEF CallIsTruncated, Calling, RunAt
  <2>3. PICK x \in Run : x = [run[i] EXCEPT !.pc = "again"]
    BY <1>0 DEF Run, RunPoints
  <2>4. x.pc = "again" /\ x.usage = run[i].usage /\ x.attempt = run[i].attempt
    BY <1>0, <2>3 DEF Run
  <2>5. /\ RunIsSound(x) /\ UnrecordedOf(x) = UnrecordedOf(run[i])
        /\ AttemptsOf(x) = AttemptsOf(run[i])
    BY <1>0, <2>2, <2>4 DEF RunIsSound, UnrecordedOf, AttemptsOf
  <2>6. AttemptsOf(x) \in Nat /\ UnrecordedOf(x) \in Nat
    BY TermTypes
  <2>7. KeepsSums(i, x)
    BY <1>0, <2>1, <2>2, <2>5, <2>6 DEF KeepsSums
  <2> QED BY <2>2, <2>3, <2>5, <2>7, RunEffect
<1> QED BY <1>1, <1>2, <1>3

\* The record of a run moves its usage from one side of the sum to the other, or
\* loses it, and takes an attempt.
LEMMA RecordKeepsCost ==
  ASSUME CostInv, NEW i \in Runs, RecordRun(i) \/ CompleteRun(i)
  PROVE  CostInv'
<1>0. /\ run \in [Runs -> Run] /\ run[i] \in Run /\ RunIsSound(run[i]) /\ recorded \in Nat
      /\ UNCHANGED <<spent, abandoned>> /\ spent \in Nat /\ abandoned \in Nat
      /\ run[i].usage \in Nat /\ MaxCall \in Nat
  BY AgentRunsAssumption DEF CostInv, AgentRunsTypeOK, RecordRun, CompleteRun, Run
<1>1. CASE RecordRun(i)
  <2>1. /\ run' = [run EXCEPT ![i] = [run[i] EXCEPT !.pc = "complete"]] /\ run[i].pc = "post"
        /\ recorded' \in {recorded, recorded + run[i].usage} /\ run[i].usage <= MostPerAttempt
    BY <1>0, <1>1 DEF RecordRun, RunAt, RunGoes, RunIsSound
  <2>2. PICK x \in Run : x = [run[i] EXCEPT !.pc = "complete"]
    BY <1>0 DEF Run, RunPoints
  <2>3. x.pc = "complete" /\ x.attempt = run[i].attempt
    BY <1>0, <2>2 DEF Run
  <2>4. /\ RunIsSound(x) /\ UnrecordedOf(x) = 0 /\ UnrecordedOf(run[i]) = run[i].usage
    BY <2>1, <2>3 DEF RunIsSound, UnrecordedOf
  <2>5. AttemptsOf(x) = AttemptsOf(run[i]) - 1
    BY <1>0, <2>1, <2>3, AgentRunsAssumption DEF AttemptsOf, Run
  <2>6. recorded' \in Nat /\ recorded' <= recorded + MostPerAttempt /\ MostPerAttempt \in Nat
    BY <1>0, <2>1 DEF MostPerAttempt
  <2>7. AttemptsOf(x) \in Nat /\ AttemptsOf(run[i]) \in Nat
    BY <1>0, TermTypes
  <2>8. KeepsSums(i, x)
    BY <1>0, <2>1, <2>4, <2>5, <2>6, <2>7 DEF KeepsSums
  <2> QED BY <2>1, <2>2, <2>4, <2>8, RunEffect
<1>2. CASE CompleteRun(i)
  <2>1. run' = [run EXCEPT ![i] = NoRun] /\ recorded' = recorded
    BY <1>2 DEF CompleteRun
  <2>2. NoRun \in Run /\ RunIsSound(NoRun) /\ UnrecordedOf(NoRun) = 0 /\ AttemptsOf(NoRun) = 0
    BY AgentRunsAssumption DEF NoRun, Run, RunPoints, RunIsSound, UnrecordedOf, AttemptsOf
  <2>3. UnrecordedOf(run[i]) \in Nat /\ AttemptsOf(run[i]) \in Nat
    BY <1>0, TermTypes
  <2>4. KeepsSums(i, NoRun)
    BY <1>0, <2>1, <2>2, <2>3 DEF KeepsSums
  <2> QED BY <2>1, <2>2, <2>4, RunEffect
<1> QED BY <1>1, <1>2

\* A call that goes on after its timeout is only spent.
LEMMA AbandonedKeepsCost ==
  ASSUME CostInv, AbandonedCallEnds
  PROVE  CostInv'
<1>1. PICK n \in 0..MaxCall : spent' = spent + n
  BY DEF AbandonedCallEnds
<1>2. /\ UNCHANGED <<run, recorded>> /\ spent \in Nat /\ spent' \in Nat /\ spent <= spent'
      /\ abandoned' \in Nat /\ recorded \in Nat /\ run \in [Runs -> Run]
  BY <1>1, AgentRunsAssumption DEF AbandonedCallEnds, CostInv, AgentRunsTypeOK
<1>3. UNCHANGED <<Unrecorded, AttemptsLeft>>
  BY <1>2 DEF Unrecorded, AttemptsLeft, UnrecordedOf, AttemptsOf
<1>4. SumFunction(Unrecorded) \in Int
  <2>1. Unrecorded \in [Runs -> Int]
    BY <1>2, TermTypes DEF Unrecorded
  <2> QED BY <2>1, AgentRunsAssumption, SumIsInt
<1>5. AgentRunsTypeOK' /\ \A i \in Runs : RunIsSound(run'[i])
  BY <1>2 DEF CostInv, AgentRunsTypeOK
<1>6. NeverOvercounted'
  BY <1>2, <1>3, <1>4 DEF CostInv, NeverOvercounted
<1>7. OvershootIsBounded'
  BY <1>2, <1>3 DEF CostInv, OvershootIsBounded
<1> QED BY <1>5, <1>6, <1>7 DEF CostInv

LEMMA CostInvHolds == AgentRunsSpec => []CostInv
<1>1. AgentRunsInit => CostInv
  <2> SUFFICES ASSUME AgentRunsInit PROVE CostInv
    OBVIOUS
  <2>1. NoRun \in Run /\ RunIsSound(NoRun) /\ UnrecordedOf(NoRun) = 0 /\ AttemptsOf(NoRun) = 0
    BY AgentRunsAssumption DEF NoRun, Run, RunPoints, RunIsSound, UnrecordedOf, AttemptsOf
  <2>2. AgentRunsTypeOK /\ \A i \in Runs : RunIsSound(run[i])
    BY <2>1 DEF AgentRunsInit, AgentRunsTypeOK
  <2>3. /\ Unrecorded \in [Runs -> Int] /\ AttemptsLeft \in [Runs -> Int]
        /\ \A i \in Runs : Unrecorded[i] <= 0 /\ AttemptsLeft[i] <= 0
    BY <2>1 DEF AgentRunsInit, Unrecorded, AttemptsLeft
  <2> DEFINE n == Cardinality(Runs)
             most == (Retries + 1) * n
  <2>4. n \in Nat /\ IsFiniteSet(Runs) /\ 0 * n = 0
    BY AgentRunsAssumption, FS_CardinalityType
  <2>5. /\ SumFunction(Unrecorded) \in Int /\ SumFunction(Unrecorded) <= 0
        /\ SumFunction(AttemptsLeft) \in Int /\ SumFunction(AttemptsLeft) <= 0
    BY <2>3, <2>4, SumOfBounded
  <2>6. MostPerAttempt \in Nat /\ most \in Nat
    BY <2>4, AgentRunsAssumption DEF MostPerAttempt
  <2> HIDE DEF n, most
  <2>7. MostPerAttempt * SumFunction(AttemptsLeft) <= 0 /\ MostPerAttempt * most >= 0
    BY <2>5, <2>6
  <2>8. NeverOvercounted
    BY <2>5 DEF AgentRunsInit, NeverOvercounted
  <2>9. OvershootIsBounded
    BY <2>5, <2>6, <2>7, AgentRunsAssumption DEF AgentRunsInit, OvershootIsBounded, most, n
  <2> QED BY <2>2, <2>8, <2>9 DEF CostInv
<1>2. ASSUME CostInv, [AgentRunsNext]_agentVars PROVE CostInv'
  <2>1. ASSUME NEW i \in Runs, CallIsTruncated(i), RunAt(i, "again") PROVE CostInv'
    <3>1. PICK n \in 1..MaxCall : spent' = spent + n
      BY <2>1 DEF CallIsTruncated
    <3>2. run[i].pc # "free" /\ run' = [run EXCEPT ![i] = Again(i)]
      BY <2>1 DEF CallIsTruncated, RunAt
    <3>3. spent' \in Nat /\ spent <= spent' /\ abandoned' \in Nat /\ recorded' = recorded
      BY <1>2, <2>1, <3>1, AgentRunsAssumption DEF CallIsTruncated, CostInv, AgentRunsTypeOK
    <3> QED BY <1>2, <3>2, <3>3, FailingKeepsCost
  <2>2. ASSUME NEW i \in Runs, CallTimesOut(i) \/ RunFails(i) PROVE CostInv'
    <3>1. run[i].pc # "free" /\ run' = [run EXCEPT ![i] = Again(i)]
      BY <2>2 DEF CallTimesOut, RunFails, Calling
    <3>2. spent' = spent /\ recorded' = recorded /\ spent \in Nat /\ abandoned' \in Nat
      BY <1>2, <2>2 DEF CallTimesOut, RunFails, CostInv, AgentRunsTypeOK
    <3>3. spent' \in Nat /\ spent <= spent'
      BY <3>2
    <3> QED BY <1>2, <3>1, <3>2, <3>3, FailingKeepsCost
  <2>3. CASE UNCHANGED agentVars
    <3>1. UNCHANGED <<Unrecorded, AttemptsLeft>>
      BY <2>3 DEF agentVars, Unrecorded, AttemptsLeft, UnrecordedOf, AttemptsOf
    <3> QED BY <1>2, <2>3, <3>1
            DEF agentVars, CostInv, AgentRunsTypeOK, NeverOvercounted, OvershootIsBounded
  <2> QED BY <1>2, <2>1, <2>2, <2>3, DispatchKeepsCost, StartKeepsCost, CallKeepsCost,
             RecordKeepsCost, AbandonedKeepsCost DEF AgentRunsNext
<1> QED BY <1>1, <1>2, PTL DEF AgentRunsSpec

\* The attempts of the agent runs and the counters of what they cost have their types.
THEOREM AgentRunsTypeCorrect == AgentRunsSpec => []AgentRunsTypeOK
<1>1. CostInv => AgentRunsTypeOK
  BY DEF CostInv
<1> QED BY <1>1, CostInvHolds, PTL

\* The prompt of the second phase fits the budget it was cut for, for every
\* length of prompt, text and tool results and every size of the budgets.
THEOREM Phase2FitsBudgetHolds == AgentRunsSpec => []Phase2FitsBudget
<1>1. CostInv => Phase2FitsBudget
  BY DEF CostInv, RunIsSound, RunAt, Phase2FitsBudget
<1> QED BY <1>1, CostInvHolds, PTL

\* No retry, truncation or timeout makes the month's usage count more than the
\* provider did, for any number of runs and retries.
THEOREM NeverOvercountedHolds == AgentRunsSpec => []NeverOvercounted
<1>1. CostInv => NeverOvercounted
  BY DEF CostInv
<1> QED BY <1>1, CostInvHolds, PTL

\* The usage exceeds the hard limit by no more than what the attempts left to the
\* jobs that were dispatched below it may cost, however they overlap.
THEOREM OvershootIsBoundedHolds == AgentRunsSpec => []OvershootIsBounded
<1>1. CostInv => OvershootIsBounded
  BY DEF CostInv
<1> QED BY <1>1, CostInvHolds, PTL
=============================================================================
