----------------------------- MODULE MCServices -----------------------------
(***************************************************************************)
(* One instance of every part of the server that shares no row with the    *)
(* others.  A behaviour is a behaviour of one part, chosen at the start;   *)
(* the others keep their initial state, so that the states add up instead  *)
(* of multiplying.                                                         *)
(***************************************************************************)
EXTENDS Frontline, MCIngress, LicenseReissue, FleetHealth, Knowledge, Permissions,
        PermissionTable, AgentRuns, Retention, Settings,
        Notifications, Chat, TLC

VARIABLE part   \* what this behaviour is about

-----------------------------------------------------------------------------
(* Ingress: the messages of one part only.                                 *)

IngressPart ==
  /\ IngressNext
  /\ \A d \in Deliveries : delivery'[d].pc # "idle" => delivery'[d].msg \in Together[part]

-----------------------------------------------------------------------------
(* Knowledge: two documents that contradict each other.                    *)

MCDocument == [k \in Chunks |-> k]
MCSimilar == {Chunks}

-----------------------------------------------------------------------------
(* Chat: a page and one operator, or two operators while the page waits for *)
(* its stream.                                                              *)

FirstReplier == CHOOSE o \in Repliers : TRUE

ChatPart ==
  /\ ChatNext
  /\ part = "chatPage" =>
       /\ chatJob'.pc \in {"none", "triage", "done"}
       /\ \A o \in Repliers : asked'[o] <= IF o = FirstReplier THEN 1 ELSE 0
  /\ part = "chatReplies" =>
       /\ \A o \in Repliers \ {FirstReplier} : asked'[o] <= 1
       /\ ~page'.reconnect
       /\ \A s \in Streams : stream'[s] = IF s = page'.evtSource THEN "asked" ELSE "free"

-----------------------------------------------------------------------------
(* Permissions: a chain of the real table, and one more.                              *)

MCIds == {"compliance:dsar_export", "compliance:dsar_search", "compliance:read", "cases:read"}
MCRequires == [p \in MCIds |-> PERMISSION_DEPENDENCIES[p]]
MCDefaultGrants == [r \in DefaultRoles |-> DEFAULT_ROLE_PERMISSIONS[r] \cap MCIds]
MCAsked == {{"compliance:dsar_export"}, {"cases:read"}}

-----------------------------------------------------------------------------
(* Retention and settings.                                                 *)

MCTable == [n1 |-> "notifications", s1 |-> "signals", v1 |-> "conversations",
            k1 |-> "change_requests", e1 |-> "audit_events", g1 |-> "agent_runs"]
MCDefaultModel == [openai |-> "m1", google |-> "m2"]
MCSectionSets == {{}, {"notifications", "chat"}, {"ci", "retention"}}

-----------------------------------------------------------------------------
FirstLicense == CHOOSE l \in License : TRUE
FirstProvider == CHOOSE p \in Providers : TRUE

Parts == {"frontline", "reissue", "health", "knowledge", "permissions", "agents",
          "retention", "settings", "notifications", "chatPage", "chatReplies"}
           \cup DOMAIN Together

ServicesInit ==
  /\ part \in Parts
  /\ FrontlineInit /\ IngressInit /\ ReissueInit /\ HealthInit /\ KnowledgeInit
  /\ PermissionsInit /\ AgentRunsInit /\ RetentionInit /\ SettingsInit
  /\ NotificationsInit /\ ChatInit
  /\ part = "reissue" \/ customer.license = FirstLicense
  /\ part = "health" \/ reachable = "ok"
  /\ part = "settings" \/ llm.provider = FirstProvider

\* What the behaviour is not about stays as it is.
OthersStay ==
  /\ UNCHANGED part
  /\ IF part = "frontline" THEN TRUE ELSE UNCHANGED frontlineVars
  /\ IF part \in DOMAIN Together THEN TRUE ELSE UNCHANGED ingressVars
  /\ IF part = "reissue" THEN TRUE ELSE UNCHANGED reissueVars
  /\ IF part = "health" THEN TRUE ELSE UNCHANGED healthVars
  /\ IF part = "knowledge" THEN TRUE ELSE UNCHANGED knowledgeVars
  /\ IF part = "permissions" THEN TRUE ELSE UNCHANGED permissionVars
  /\ IF part = "agents" THEN TRUE ELSE UNCHANGED agentVars
  /\ IF part = "retention" THEN TRUE ELSE UNCHANGED retentionVars
  /\ IF part = "settings" THEN TRUE ELSE UNCHANGED settingsVars
  /\ IF part = "notifications" THEN TRUE ELSE UNCHANGED notificationsVars
  /\ IF part \in {"chatPage", "chatReplies"} THEN TRUE ELSE UNCHANGED chatVars

ServicesNext ==
  \/ part = "frontline" /\ FrontlineNext /\ OthersStay
  \/ part \in DOMAIN Together /\ IngressPart /\ OthersStay
  \/ part = "reissue" /\ ReissueNext /\ OthersStay
  \/ part = "health" /\ HealthNext /\ OthersStay
  \/ part = "knowledge" /\ KnowledgeNext /\ OthersStay
  \/ part = "permissions" /\ PermissionsNext /\ OthersStay
  \/ part = "agents" /\ AgentRunsNext /\ OthersStay
  \/ part = "retention" /\ RetentionNext /\ OthersStay
  \/ part = "settings" /\ SettingsNext /\ OthersStay
  \/ part = "notifications" /\ NotificationsNext /\ OthersStay
  \/ part \in {"chatPage", "chatReplies"} /\ ChatPart /\ OthersStay

servicesVars == <<part, frontlineVars, ingressVars, reissueVars, healthVars,
                  knowledgeVars, permissionVars, agentVars, retentionVars, settingsVars,
                  notificationsVars, chatVars>>

ServicesSpec == ServicesInit /\ [][ServicesNext]_servicesVars

\* The part that moves keeps its type invariant.
ServicesTypeOK ==
  CASE part = "frontline" -> FrontlineTypeOK
    [] part \in DOMAIN Together -> IngressTypeOK
    [] part = "reissue" -> ReissueTypeOK
    [] part = "knowledge" -> KnowledgeTypeOK
    [] part = "permissions" -> PermissionsTypeOK
    [] part = "agents" -> AgentRunsTypeOK
    [] part = "retention" -> RetentionTypeOK
    [] part = "settings" -> SettingsTypeOK
    [] part = "notifications" -> NotificationsTypeOK
    [] part \in {"chatPage", "chatReplies"} -> ChatTypeOK
    [] OTHER -> TRUE
=============================================================================
