---------------------------- MODULE Permissions ----------------------------
(***************************************************************************)
(* The permission studio: the endpoints that create, clone, edit and       *)
(* delete the custom roles of one product, the expansion of a set of       *)
(* permissions by what they require, and what a role grants.  The built-in *)
(* roles that roles.ts does not list can be edited too; what is written    *)
(* for one of them replaces its defaults.                                  *)
(*                                                                         *)
(* An edit is one HTTP request.  Its transaction runs under READ COMMITTED: *)
(* its DELETE sees the rows that were committed when it began, and waits   *)
(* for the transactions that are deleting some of them.                    *)
(***************************************************************************)
CONSTANTS
  PermissionIds,
  Requires,           \* PERMISSION_DEPENDENCIES; {} where it has no entry
  DefaultRoles,
  DefaultGrants,      \* DEFAULT_ROLE_PERMISSIONS
  CustomRoles,        \* bound: role ids that are ever made
  Edits,              \* bound: requests served at the same time
  Asked               \* the sets of permissions that requests ask for

\* The built-in roles that PUT refuses and a clone copies the defaults of.
DEFAULT_ROLE_IDS == {"admin", "operator", "support_lead", "knowledge_lead"}

Closed(s) == \A p \in s : Requires[p] \subseteq s

ASSUME PermissionsAssumption ==
  /\ Requires \in [PermissionIds -> SUBSET PermissionIds]
  /\ DefaultGrants \in [DefaultRoles -> SUBSET PermissionIds]
  /\ \A r \in DefaultRoles : Closed(DefaultGrants[r])
  /\ (DefaultRoles \cup DEFAULT_ROLE_IDS) \cap CustomRoles = {} /\ CustomRoles # {}
  /\ Asked \subseteq SUBSET PermissionIds

VARIABLES
  roles,   \* the rows of custom_roles
  used,    \* role ids that were given out
  rows,    \* role_permission_overrides: of each role, the sets that one
           \* transaction inserted together; any two are disjoint
  edit     \* what each request is doing

permissionVars == <<roles, used, rows, edit>>

Batch == SUBSET PermissionIds
EditPoints == {"idle", "resolve", "source", "delete", "deleteRows", "insert", "commit"}

\* source: of a clone.  seen: the batches the DELETE found.  deleted: those it
\* has marked.
AllRoles == DefaultRoles \cup CustomRoles
EditableRoles == AllRoles \ DEFAULT_ROLE_IDS
Edit == [pc : EditPoints, role : EditableRoles, source : AllRoles, asked : Batch,
         perms : Batch, seen : SUBSET Batch, deleted : SUBSET Batch]
FirstRole == CHOOSE r \in CustomRoles : TRUE
NoEdit == [pc |-> "idle", role |-> FirstRole, source |-> FirstRole, asked |-> {},
           perms |-> {}, seen |-> {}, deleted |-> {}]

EditAt(e, point) == edit[e].pc = point

\* getRolePermissionOverrides().
Held(r) == UNION rows[r]

\* requirePermission(): overrides if there are any, else the defaults, of which
\* a custom role has none.
Grants(r) ==
  IF r \in EditableRoles /\ Held(r) # {} THEN Held(r)
  ELSE IF r \in DefaultRoles THEN DefaultGrants[r] ELSE {}

RequiredBy(s) == UNION {Requires[p] : p \in s}

-----------------------------------------------------------------------------
(* Requests.                                                               *)

\* Mutant of EditRole: what the role held is added to what was asked.
EditRoleMerging(e, r) ==
  /\ EditAt(e, "idle") /\ r \in used \cup (EditableRoles \cap DefaultRoles)
  /\ \E asked \in Asked :
       edit' = [edit EXCEPT ![e] = [NoEdit EXCEPT !.pc = "resolve", !.role = r,
                                      !.asked = asked, !.perms = asked \cup Held(r)]]
  /\ UNCHANGED <<roles, used, rows>>

\* PUT .../permissions.  Whether the role exists is not looked at.
EditRole(e, r) ==
  /\ EditAt(e, "idle") /\ r \in used \cup (EditableRoles \cap DefaultRoles)
  /\ \E asked \in Asked :
       edit' = [edit EXCEPT ![e] = [NoEdit EXCEPT !.pc = "resolve", !.role = r,
                                                  !.asked = asked, !.perms = asked]]
  /\ UNCHANGED <<roles, used, rows>>

\* POST .../roles.
CreateRole(r) ==
  /\ r \in CustomRoles \ used
  /\ roles' = roles \cup {r} /\ used' = used \cup {r}
  /\ UNCHANGED <<rows, edit>>

\* POST .../roles with clone_from, an id that is not checked to exist.
CloneRole(e, r, source) ==
  /\ EditAt(e, "idle") /\ r \in CustomRoles \ used /\ source \in DefaultRoles \cup used
  /\ roles' = roles \cup {r} /\ used' = used \cup {r}
  /\ edit' = [edit EXCEPT ![e] = [NoEdit EXCEPT !.pc = "source", !.role = r,
                                                 !.source = source]]
  /\ UNCHANGED rows

\* The defaults of a listed role, or the overrides that any other id has now,
\* are written as they are, if there are any.
CloneGrants(e) ==
  LET source == edit[e].source
      perms == IF source \in DEFAULT_ROLE_IDS THEN DefaultGrants[source] ELSE Held(source)
  IN /\ EditAt(e, "source")
     /\ \/ perms # {} /\ edit' = [edit EXCEPT ![e] =
                          [@ EXCEPT !.pc = "delete", !.asked = perms, !.perms = perms]]
        \/ perms = {} /\ edit' = [edit EXCEPT ![e] = NoEdit]
     /\ UNCHANGED <<roles, used, rows>>

\* DELETE .../roles/:roleId.  No user holds a custom role (users.ts accepts the
\* built-in ones only), so the check for active users passes; the permissions
\* of the role stay.
DeleteRole(r) ==
  /\ r \in roles /\ roles' = roles \ {r}
  /\ UNCHANGED <<used, rows, edit>>

\* Mutant of ResolveDependencies: one pass.
ResolveOnce(e) ==
  /\ EditAt(e, "resolve")
  /\ edit' = [edit EXCEPT ![e] = [@ EXCEPT !.pc = "delete",
                !.perms = @ \cup RequiredBy(@)]]
  /\ UNCHANGED <<roles, used, rows>>

\* One pass of the loop of resolveDependencies(), or its end.
ResolveDependencies(e) ==
  LET s == edit[e].perms
  IN /\ EditAt(e, "resolve")
     /\ \/ /\ ~(RequiredBy(s) \subseteq s)
           /\ edit' = [edit EXCEPT ![e] = [@ EXCEPT !.perms = s \cup RequiredBy(s)]]
        \/ /\ RequiredBy(s) \subseteq s
           /\ edit' = [edit EXCEPT ![e] = [@ EXCEPT !.pc = "delete"]]
     /\ UNCHANGED <<roles, used, rows>>

-----------------------------------------------------------------------------
(* setRolePermissions().                                                   *)

Others(e) == {f \in Edits \ {e} : edit[f].role = edit[e].role}

\* The snapshot of the DELETE.
BeginDelete(e) ==
  /\ EditAt(e, "delete")
  /\ edit' = [edit EXCEPT ![e] = [@ EXCEPT !.pc = "deleteRows", !.seen = rows[edit[e].role]]]
  /\ UNCHANGED <<roles, used, rows>>

\* The DELETE marks the rows it found, once no other transaction has marked
\* one of them: what that one removed by its commit is passed over.
DeleteRows(e) ==
  /\ EditAt(e, "deleteRows")
  /\ \A f \in Others(e) : edit[f].deleted \cap edit[e].seen = {}
  /\ edit' = [edit EXCEPT ![e] = [@ EXCEPT !.deleted = edit[e].seen,
                !.pc = IF edit[e].perms = {} THEN "commit" ELSE "insert"]]
  /\ UNCHANGED <<roles, used, rows>>

\* The INSERT waits for transactions that have written a key of it, and needs
\* every key to be free then.
InsertRows(e) ==
  LET perms == edit[e].perms
  IN /\ EditAt(e, "insert")
     /\ \A f \in Others(e) :
          /\ UNION edit[f].deleted \cap perms = {}
          /\ EditAt(f, "commit") => edit[f].perms \cap perms = {}
     /\ perms \cap UNION (rows[edit[e].role] \ edit[e].deleted) = {}
     /\ edit' = [edit EXCEPT ![e] = [@ EXCEPT !.pc = "commit"]]
     /\ UNCHANGED <<roles, used, rows>>

\* COMMIT: rows that another DELETE has found and waits for are gone.
CommitEdit(e) ==
  LET r == edit[e].role
      old == edit[e].deleted
  IN /\ EditAt(e, "commit")
     /\ rows' = [rows EXCEPT ![r] = (@ \ old) \cup ({edit[e].perms} \ {{}})]
     /\ edit' = [f \in Edits |->
          IF f = e THEN NoEdit
          ELSE IF edit[f].role = r THEN [edit[f] EXCEPT !.seen = @ \ old]
          ELSE edit[f]]
     /\ UNCHANGED <<roles, used>>

\* ROLLBACK: a key that is taken (23505), a deadlock, a lost connection, or the
\* end of the process.
EditFails(e) ==
  /\ ~EditAt(e, "idle") /\ edit' = [edit EXCEPT ![e] = NoEdit]
  /\ UNCHANGED <<roles, used, rows>>

-----------------------------------------------------------------------------
PermissionsInit ==
  /\ roles = {} /\ used = {}
  /\ rows = [r \in EditableRoles |-> {}]
  /\ edit = [e \in Edits |-> NoEdit]

EditStep(e) ==
  \/ CloneGrants(e) \/ ResolveDependencies(e) \/ BeginDelete(e) \/ DeleteRows(e)
  \/ InsertRows(e) \/ CommitEdit(e) \/ EditFails(e)

PermissionsNext ==
  \/ \E r \in CustomRoles : CreateRole(r) \/ DeleteRole(r)
  \/ \E e \in Edits, r \in EditableRoles : EditRole(e, r)
  \/ \E e \in Edits, r \in CustomRoles, source \in AllRoles : CloneRole(e, r, source)
  \/ \E e \in Edits : EditStep(e)

PermissionsSpec == PermissionsInit /\ [][PermissionsNext]_permissionVars

-----------------------------------------------------------------------------
(* Properties.                                                             *)

\* The tables and requests have their types.
PermissionsTypeOK ==
  /\ roles \subseteq used /\ used \subseteq CustomRoles
  /\ rows \in [EditableRoles -> SUBSET Batch]
  /\ edit \in [Edits -> Edit]

\* A role that grants a permission grants what that requires, however edits of
\* the role, clones and failures interleave: two edits at once may leave the
\* union of their sets, which READ COMMITTED does not prevent.
GrantsAreClosed == \A r \in AllRoles : Closed(Grants(r))

\* What an edit writes is the least closed set with what was asked: nothing
\* that was not asked for or required is granted.
WritesLeastClosure ==
  \A e \in Edits : edit[e].pc \notin {"idle", "resolve", "source"} =>
    /\ Closed(edit[e].perms) /\ edit[e].asked \subseteq edit[e].perms
    /\ \A s \in SUBSET PermissionIds :
         Closed(s) /\ edit[e].asked \subseteq s => edit[e].perms \subseteq s
=============================================================================
