-------------------------- MODULE PermissionTable --------------------------
(***************************************************************************)
(* The tables of permissions.ts and permission-engine.ts.                  *)
(***************************************************************************)

\* The ids of PERMISSION_REGISTRY.
PERMISSION_REGISTRY == {
  "cases:read", "cases:create", "cases:transition", "cases:delete",
  "cases:export", "signals:read", "signals:dismiss", "change_requests:read",
  "change_requests:create", "change_requests:approve",
  "change_requests:reject", "change_requests:complete", "pr_drafts:read",
  "pr_drafts:push", "approvals:read", "approvals:act", "analytics:read",
  "settings:read", "settings:write", "compliance:read",
  "compliance:dsar_search", "compliance:dsar_export",
  "compliance:retention_run", "memory:read", "memory:write", "memory:delete",
  "audit:read", "products:read", "products:create", "products:update"}

\* Each entry names one permission it requires.
Dependencies == {
  <<"compliance:dsar_export", "compliance:dsar_search">>,
  <<"compliance:dsar_search", "compliance:read">>,
  <<"cases:delete", "cases:read">>,
  <<"memory:delete", "memory:read">>,
  <<"memory:write", "memory:read">>,
  <<"cases:transition", "cases:read">>,
  <<"cases:create", "cases:read">>,
  <<"cases:export", "cases:read">>,
  <<"change_requests:create", "change_requests:read">>,
  <<"change_requests:approve", "change_requests:read">>,
  <<"change_requests:reject", "change_requests:read">>,
  <<"change_requests:complete", "change_requests:read">>,
  <<"pr_drafts:push", "pr_drafts:read">>,
  <<"approvals:act", "approvals:read">>,
  <<"signals:dismiss", "signals:read">>,
  <<"settings:write", "settings:read">>,
  <<"products:create", "products:read">>,
  <<"products:update", "products:read">>,
  <<"compliance:retention_run", "compliance:read">>}

\* PERMISSION_DEPENDENCIES; a permission without an entry requires nothing.
PERMISSION_DEPENDENCIES ==
  [p \in PERMISSION_REGISTRY |-> {d[2] : d \in {x \in Dependencies : x[1] = p}}]

\* DEFAULT_ROLE_PERMISSIONS.
DEFAULT_ROLE_PERMISSIONS == [
  admin |-> PERMISSION_REGISTRY,
  operator |-> {
    "cases:read", "cases:create", "cases:transition", "cases:export",
    "signals:read", "signals:dismiss", "change_requests:read",
    "change_requests:create", "pr_drafts:read", "pr_drafts:push",
    "approvals:read", "approvals:act", "analytics:read", "settings:read",
    "compliance:read", "memory:read", "audit:read", "products:read"},
  support_lead |-> {
    "cases:read", "cases:transition", "signals:read", "change_requests:read",
    "approvals:read", "approvals:act", "analytics:read", "settings:read",
    "compliance:read", "memory:read", "audit:read", "products:read"},
  knowledge_lead |-> {
    "cases:read", "signals:read", "change_requests:read",
    "change_requests:create", "change_requests:approve",
    "change_requests:reject", "change_requests:complete", "pr_drafts:read",
    "pr_drafts:push", "approvals:read", "analytics:read", "settings:read",
    "memory:read", "memory:write", "audit:read", "products:read"},
  change_lead |-> {
    "cases:read", "signals:read", "change_requests:read",
    "change_requests:create", "change_requests:approve",
    "change_requests:reject", "change_requests:complete", "pr_drafts:read",
    "pr_drafts:push", "approvals:read", "approvals:act", "analytics:read",
    "memory:read", "audit:read", "products:read"},
  product_lead |-> {
    "cases:read", "cases:transition", "signals:read", "change_requests:read",
    "change_requests:approve", "change_requests:reject", "pr_drafts:read",
    "approvals:read", "approvals:act", "analytics:read", "compliance:read",
    "memory:read", "audit:read", "products:read"}]

\* What a built-in role grants includes what that requires: only the edits of
\* custom roles are expanded.
ASSUME DefaultRolesAreClosed ==
  \A r \in DOMAIN DEFAULT_ROLE_PERMISSIONS : \A p \in DEFAULT_ROLE_PERMISSIONS[r] :
    PERMISSION_DEPENDENCIES[p] \subseteq DEFAULT_ROLE_PERMISSIONS[r]
=============================================================================
