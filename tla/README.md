# NestFleet: TLA+ specification

NestFleet turns support signals into cases, has agents triage, route and answer
them, and, when a case needs a code change, carries a change request through a
lead's approval to a GitHub pull request. This directory specifies the server
(`src/src/`): what its handlers and workers do to the database, the job queue
and the outside world, statement by statement, and what holds whatever order
they run in. Paths below are relative to the repository root `src/`.

## 1. Inventory

| component | state it keeps | operations | talks to |
|---|---|---|---|
| lifecycle tables (`src/domain/*-state-machine.ts`) | none | `isCaseTransitionAllowed`, `transitionCase`, `transitionChangeRequest` | every component below |
| job queue (`src/agents/dispatcher.ts`, `agents/worker.ts`, `domain/transactional-dispatch.ts`, `infra/queue/boss.ts`) | `pgboss.job` rows, attempts, the dead-letter queue | `dispatch`, `dispatchInTransaction`, `transitionAndDispatch`, `_handleJob`, the dead-letter handler | PostgreSQL |
| ingress (`src/ingress/`, `api/webhooks/`) | `signals`, `identities`, `conversations`, `cases` | five ingest functions, one per kind of channel; each opens a case or attaches to one | queue, senders that deliver again |
| frontline pipeline (`src/workers/{frontline,steward,auto-reply,outage-routing}-worker.ts`) | `cases.status`, `draft_reply` | triage, route, answer, notify | queue, email, agents |
| operator console (`src/api/v1/cases.ts`, `domain/correct-triage.ts`) | `cases`, `change_requests` | eleven endpoints that change a case | queue, email |
| change control (`api/v1/{approvals,pr-drafts}.ts`, `workers/{change-prep,pr-draft-prep}-worker.ts`) | `change_requests` | frame, approve, reject, draft the pull request, complete | queue, GitHub |
| GitHub webhook (`api/webhooks/github.ts`) | `merged_at`, `ci_status` | merge, check suite, deployment | change requests, cases |
| notifications (`src/notifications/`, `workers/digest-cron.ts`) | `notifications` | emit, suppress, acknowledge, escalate, digest | email; called by workers and endpoints |
| agents (`src/agents/run-agent.ts`, `agents/budget.ts`) | `agent_runs`, monthly usage | budget check, one or two phases, truncation, timeout, record | language model, queue |
| memory and retrieval (`src/memory/`) | `memory_chunks`, `knowledge_conflicts` | ingest, detect conflicts, delete, retrieve | pipeline workers |
| access control (`src/rbac/`, `infra/db/repositories/roles-studio.ts`) | `custom_roles`, `role_permission_overrides` | create, clone, edit, delete a role; decide | every endpoint |
| retention and knowledge assets (`api/v1/{retention,knowledge-assets}.ts`) | rows that name a case, `knowledge_assets` | erase, sweep; propose, approve, reject, publish | handlers that add rows to a case |
| settings (`api/v1/settings.ts`) | `products.support_policy`, `products.llm_config` | PUT settings, make public keys | memory (embedding model), chat, forms |
| provisioning (`src/fleet/provisioning/`, `workers/{provisioning-worker,deprovision-scheduler}.ts`, `fleet/billing/webhook-fleet.ts`) | one `provisionings` row per customer, whose columns are the saga's memory | signup saga, retry, cancellation, reactivation, deprovisioning, nightly deletion | Hetzner, Cloudflare, Stripe, email, queue |
| license re-issue (`fleet/api/owner.ts`, `fleet/workers/license-reissue-worker.ts`) | `license_reissues`, `reissue_status` and licence of the row | re-issue, bulk renewal, download, the job | the customer's instance over SSH |
| fleet health (`fleet/workers/fleet-health-worker.ts`) | `last_health_status`, `last_health_check_at` | check, alert | the customer's instance, email |
| fleet sign-up (`fleet/provisioning/slug.ts`, accounts, magic links) | reservations | single statements | provisioning |
| billing (`src/billing/`, `fleet/billing/`) | `workspace_billing`, usage counters | Stripe webhooks, usage limit | Stripe, ingress |
| chat (widget in `api/index.ts`, `api/webhooks/chat.ts`, `api/v1/chat.ts`, `chat/session-registry.ts`) | the widget's variables, open streams in memory, signals of the thread | open, reload, reconnect, send, publish, reply | ingress, pipeline |
| users, reports (`api/v1/`) | `users` | single-statement reads and writes | console |
| console user interface (`console/`) | none the server relies on | client of the HTTP API | HTTP |

**What is hard.** Nothing serialises the handlers: HTTP requests, pg-boss
workers, crons and webhooks interleave at every `await`. `transitionCase()` and
`transitionChangeRequest()` read a row, check the guard and write in a second
statement, and so do the owner's endpoints, the settings, the knowledge assets
and the notification runners; only `transitionAndDispatch()` locks the row and
inserts the job in the same transaction. Jobs are retried after any error
(payload only, nothing else is remembered) and end in a dead-letter queue whose
handler writes `processing-failed` over whatever status the case has. Webhooks
come late, twice, or not at all, and an ingestion that fails half-way is
delivered again. Agents may answer anything, too long, too late or never. The
provisioning saga has no transaction around its calls of Hetzner and
Cloudflare: it resumes from the columns it managed to write. The `hazards` of
`PROJECT.json` list, line by line, where this bites.

**What correctness means.**

- A status is never left without the job or person that moves the case on
  (pipeline, console), and a job that gives up shows on its case (queue).
- A message opens one case, is put into its own thread, and is not lost
  (ingress); a reporter gets one automatic answer, and only when the case is
  resolved.
- No change gets past the approval, and no pull request is opened, without a
  lead; the status of a change request changes along its table, but for a rejected
  one that work under way brings back.
- Somebody hears of what was escalated, and an acknowledgement ends it
  (notifications).
- What was spent is what is recorded, up to a bound; a prompt fits its budget
  (agents). Contradicting evidence makes the agent abstain (memory).
- A role that grants a permission grants what it requires; an erased case
  leaves nothing that the erasure saw but the kinds of rows it is known not to
  reach; nothing unreviewed is published;
  saved settings stay (administration).
- A customer is served while the instance is active or in its grace period,
  their name resolves to their own server, a deleted instance stays deleted,
  the fleet table tells the licence an instance runs with, and an alert is about
  an outage (fleet).

## 2. Modules

| module | models |
|---|---|
| `Lifecycle` | both transition tables, as functions from a status to a set |
| `Platform` | rows, jobs, requests; dispatch, attempts, dead letters; `transitionCase` as check and write |
| `Frontline` | ingress of a new signal (as three statements) and the four pipeline workers |
| `Console` | every endpoint of `cases.ts` that changes a case, and `correctTriage` |
| `ChangeControl` | change requests from send-to-change to completion, both workers, GitHub |
| `ApprovalGate` | abstract: a set of sanctioned, published and delivered changes |
| `NestFleet` | the composition of the above over the same rows, jobs and requests |
| `Ingress` | the five ingest functions in full: every statement, redelivery and failure |
| `Notifications` | `emit()`, the escalation runner, the digest, the acknowledgement |
| `AgentRuns` | the token budget, the phases and retries of a run, the prompt's arithmetic, the record |
| `Knowledge` | ingestion, deletion, conflict detection, the two queries of a retrieval |
| `Permissions`, `PermissionTable` | the permission studio under READ COMMITTED; the tables of the repository |
| `Retention` | erasure beside handlers that insert; review of knowledge assets |
| `Settings` | read, merge and write of the two JSON columns of a product |
| `Provisioning` | one customer's row, its sagas, Stripe's and the owner's requests, the nightly run |
| `LicenseReissue` | the owner's endpoints, the job, the file on the instance |
| `Chat` | the widget, its streams, the registry, the operators' replies, what the pipeline publishes |
| `FleetHealth` | the check of one instance and its alert, in periods of the cron job |
| `MC*` | instances for TLC: symmetry, operations and messages used in a run; `MCServices` runs the parts that share no row |
| `*Proofs` | the theorems |

How they fit together: `Frontline` extends `Platform`, `Console` and
`ChangeControl` extend that, and `NestFleet` composes all three over the same
rows, jobs and requests. The other modules share no row with them or with each
other, as in the code: `Ingress` ends where it dispatches the triage job with
which `Frontline` begins, `Chat` follows one session from there with what its
jobs carry and publish, `Notifications` begins with the `emit()` that a
worker of `Frontline` or an endpoint calls in a best-effort await, `AgentRuns`
is what happens inside the `agent` await of a job, `Knowledge` what an agent
is given. Each of those awaits may fail or answer anything in the module that
calls it, so a property of the caller holds whatever the part does.

A **row** is a function of its id (`caseStatus`, `crStatus`, `crCase`,
`failedJob`, `draft`); a row that does not exist yet has status `"none"`. A
**job** is a record in one of a fixed number of slots (`Jobs`); a **request**
likewise (`Requests`). In both, `pc` names the await the handler is at, so a
step of the model is one statement, one transaction or one external call, and
anything else may happen before the next. The same holds for the `delivery` of
an ingress call, a `notifier`, the `run` of an agent, an `ingestion`, a
`detection`, a `query`, an `edit` of a role, the `caller` of `Retention`, an
`update` of settings, the `replier` of `Chat` and the `worker` of a re-issue. What a handler has read
and will use later is in that record (`seen`, `loaded`, `known`, `listed`, the
copies of columns in `Settings` and `Provisioning`). `JobFails`,
`RequestFails`, `StepThrows` and their like let a handler stop at any await: an
exception, an exhausted token budget, a lost connection and the end of the
process all look like that.

Data are abstracted to what the properties tell apart: an agent's answer is a
choice (`StewardRoute`, `AutoReplyGate`), a draft is a Boolean, an email a
count, a pull request `none`/`open`/`merged`, a document a set of chunks with a
relation `Similar`, a prompt its length, a settings value the request that
wrote it. Wording, audit events and metrics are the last await of a worker
(`WorkerFinish`), which may fail like any other.

**History variables** are read by properties only. `ChangeControl.approved`:
the change requests for which an approve request performed its write, which is
what "a lead approved" means in `HumanApproval`. `Provisioning.early`: the
owner deprovisioned the instance, or its trial was cancelled, so that the
promises made to a paying customer no longer apply. `Settings.history`: reads
and writes in their order. `Chat.owed`: the streams that were open when the
pipeline had answered; `shown`, `asked` and `told` are what the page displays and
what the operators see. `FleetHealth.silent`, `failures`, `missed`: how long
the instance has not answered, and whether a check or its result was lost.
`AgentRuns.spent`: what the provider counted. `Retention.written`: rows there
ever were (also a bound: a row is inserted once). `known` in a query of `Knowledge`:
the conflicts that were open when it began. `Ingress.answer`, what a sender was
told, is the sender's state.

In `Provisioning`, `row` has the columns the saga reads (`status`,
`hetzner_server_id` as `server`, `cloudflare_record_id` as `dns`) and two deadlines
as phases: `grace` for `deprovision_after` (short, long or over) and `window`
for `reactivation_deadline`. `vps` and `zone` are the servers at Hetzner and
the DNS records at Cloudflare. A job carries `made`, the id returned by
`createServer()` until the update that stores it, and a copy of the row as the
last `RETURNING *` gave it.

In `Chat` a stream is what both ends believe of one connection: asked for, open,
left by the page (`cut`) or by the server (`ended`). Its `wire` holds events on
their way, in order. A reload of the page forgets the messages and keeps the
session. The reconnect timers are one flag: whichever fires first connects, the
others find the connection made.

### Assumptions about what is outside `src/src/`

- *pg-boss*: a job that was fetched completes, throws or expires; a retry keeps
  the payload; after the last attempt the job reaches the dead-letter queue.
  Jobs inserted by SQL (`transitionAndDispatch`, `dispatchInTransaction`) leave
  the column `dead_letter` to its default; the models take them to be
  dead-lettered like the others. `singletonKey` does not deduplicate under the
  default queue policy, so several jobs of one action may serve one case. An
  expired job whose handler is still running is not modelled.
- *PostgreSQL*: one statement or transaction is atomic unless a module says
  otherwise; `FOR UPDATE` holds; a unique key refuses the second row, also when
  both inserts race. In `Permissions` and `Retention` the transactions of
  several statements are split: under READ COMMITTED a DELETE sees the rows
  committed when it began and waits for a transaction that is deleting some.
- *Senders* (mail provider, external system, form) deliver a message again after
  an error or at will; the chat widget does not.
- *GitHub*: refuses a second open pull request for a branch; people merge open
  ones; deliveries may come at any time after, any number of times.
- `knowledge_capture` jobs have no worker and are left out.
- *Language model*: answers anything, refuses, truncates or takes too long; a
  call may cost up to `MaxCall` tokens.
- *Hetzner*: `createServer()` makes a new server or fails; deletion may fail.
- *Cloudflare*: refuses a record that exists; deletion may fail.
- *The health poll of provisioning* asks the customer's name, so it succeeds only
  when the name resolves to a running server; it may time out in any case.
- *The customer's instance*: an SSH command may fail before or after its effect;
  the API process reads the licence file when it starts.
- *Calendar*: days pass only while no request is in flight (a request takes
  seconds), and the 30 days of a paid cancellation outlast its 7-day
  reactivation window. Sagas may be in flight. `FleetHealth` counts time in
  periods of its cron job.

## 3. Runs

Every configuration sets `CHECK_DEADLOCK FALSE`: with a finite number of cases,
messages, rows or requests the system stops when all are settled.

| run | asks | bounds |
|---|---|---|
| `services` | what the parts that share no row promise; one part per behaviour | see the next table |
| `notifications` | does an escalation end, is what a crash left pending delivered, does an acknowledgement settle a row | 3 rows, 1 lead, 1 emitter, 1 cron, 2 occasions (triaged, outage of normal severity) |
| `console_live` | does a triaged case keep its Steward job, does a failed case name its job, and does a case that is being triaged or routed get out of it, whatever people do | 1 case, 2 jobs, 1 request, 2 attempts |
| `change_one_lead` | does `pr_draft_prep` come to an end that a person can see | 1 case, 2 change requests, 2 jobs, 1 request, 2 attempts |
| `fleet_safety` | does anything get past the approval, with corrections, manual triage, lead replies, the pipeline running and dead letters that may be lost; does the whole implement `ApprovalGate`; where does a status leave its table | 1 case, 1 change request, 2 jobs, 1 request, 1 attempt |
| `provisioning_life` | is the customer served, is the name theirs, is a deleted instance final, is a cancelled one settled, through crashes, retries and redeliveries | 1 saga and 1 request at a time, 2 servers, 2 attempts, 4 calls |
| `redelivery` | *violated*: a message skipped as a duplicate was processed | 8 messages, 1 delivery, 1 case |
| `outage_routing` | *violated*: an outage reaches all leads | 3 leads, 3 rows |
| `fleet_health` | *violated*: two hours of silence are alerted | threshold 3 periods |
| `chat_answer` | *violated*: the widget shows the answer of the pipeline | 1 stream, 1 message, 1 operator |
| `change_prep_atomic` | *violated*: implementation-prep comes with its job | 2 attempts |
| `retried_prep` | *violated*: a case whose `pr_draft_prep` failed has a change request the retry can dispatch it for | 1 case, 1 change request, 2 jobs, 1 request, 1 attempt |

The parts of `services` (`MCServices.part`). A behaviour chooses one part and
leaves the others in their initial state, so their states add up instead of
multiplying, and each invariant is checked in the part it speaks of:

| part | properties | bounds |
|---|---|---|
| pipeline | `TriagedHasSteward`, `InResolutionHasReply`, `LeadHasDraft`, `AnsweredOnce`, `InChangeHasRequest` | 1 case, 2 change requests, 3 jobs, 1 request, 3 attempts |
| ingress (five: two messages of a thread; a mail and a reply; form and external; smoke test; chat) | `OneCasePerMessage`, `JoinsItsThread` | 2 deliveries at once, any number of redeliveries, 2 cases |
| re-issue | `IdleTellsInstance` | 1 owner request at a time, 2 re-issues, 2 tiers, 2 dates |
| health | `AlertIsTrue` | threshold 3, ages up to 8 periods |
| knowledge | `OpenConflictIsFlagged`, `ConflictAbstains` | 2 chunks of two documents, 1 ingestion, 1 detection, 1 query, 2 conflicts |
| permissions | `GrantsAreClosed`, `WritesLeastClosure` | a chain of three of the real table and one more, 2 edits, 1 custom role, 1 built-in role that can be edited and 1 that cannot |
| agents | `Phase2FitsBudget`, `NeverOvercounted`, `OvershootIsBounded` | 2 runs, 2 attempts, 1 abandoned call, small budgets with lengths on both sides of each limit |
| retention | `ErasureMissesOnlyKnown`, `PublishedIsReviewed` | 2 callers, a row of 6 of the 8 kinds, the runs of agents among them, 1 asset |
| settings | `SavedUnlessOverlapped`, `EmbeddingFitsProvider` | 2 requests, 2 providers and models |
| chat, page | `ShownAsOftenAsSent` | 2 streams alive at once, 1 message of the visitor, 1 operator with 1 attempt; the pipeline ends with the triage |
| chat, replies | `ToldIsRecorded` | 2 operators with 2 and 1 attempts beside the whole pipeline; the page waits for its stream |
| notifications | the type invariant: no race escalates a row past its policy | 2 rows, 2 leads, outages of both severities |

`ServicesTypeOK` is the type invariant of the part that moves.

**Why the bounds are enough.** No handler reads the rows of two cases, so one
case shows every interleaving that matters; two change requests are needed for
"rejected, then sent to change again" and for the side-car request of the
Steward. Two jobs suffice for a worker and the job it inserts or a job that
races with it, three for the chain triage, Steward, auto-reply with the outage
job beside it. Two requests, deliveries, edits, callers or updates are the
smallest race between handlers (two leads at one change request are left to the
proofs of `HumanApproval` and `ImplementsGate`, which hold for any number of
requests, while `fleet_safety` has the console and the pipeline beside one, where changes are
completed by GitHub's deliveries; `change_one_lead` has the endpoint as well), and
each handler of those modules works on one
row. The retry limit of the code is 2 (three attempts); the runs with fewer
attempts are those whose properties only need "a retry happens" or "the last
attempt fails". `MaxReplies` bounds the emails counted per case: 2 where
`AnsweredOnce` is checked, 1 or 0 where the count plays no part. `MaxCalls`
bounds the webhooks and owner requests of a behaviour: four allow checkout,
cancellation, redelivered checkout and a retry. Two servers are the recorded
one and the one an earlier attempt lost; when both are used up,
`createServer()` can only fail. Two streams are the one the page has left and the one it opened since; a third
would differ from them in nothing. Two replies race for one number, and the
second attempt of one of them meets the row a broken request left. Two re-issues allow one that fails and one that
repairs it. `MaxAge` 8 is more than twice the threshold, so an age that is not
told apart is over it in any case. `MaxSpent` only stops new jobs once the
limit has long been passed. Where the bound matters for the argument the
property is also proved for every value (section 4).

`provisioning_life` has one saga and one request at a time because its
properties need that. With two jobs (the owner's retry beside pg-boss's, or a
redelivered checkout) both sagas create a server and the row keeps the last;
or one saga activates the instance while the other times out and drops its DNS
record. With two requests, an owner's retry that found the row `failed` writes
`pending` over an instance that has been activated and cancelled meanwhile.
These are behaviours of the code: nothing locks the row, and the two senders use
different `singletonKey`s. The re-issue part has one owner request for a like
reason (`owner.ts:423` checks, then writes).

**Fairness** is assumed of jobs only in the case modules: pg-boss keeps
fetching, and an attempt ends one way or another. Nothing is assumed of people,
requests in flight, GitHub or of what an attempt achieves, and an action
property or invariant run assumes no fairness at all. `console_live` runs
`RoutingSpec`, the console without sending a draft and correcting a triage, and
without the operation `triageManual`: manual triage and correction set `triaged`
without inserting the Steward's job in the same transaction, and a crash in
between leaves the case where it is. `provisioning_life` assumes that days pass, that a request
ends one way or another, that the nightly job is scheduled again, and (strong
fairness) that not every night's run breaks off at the same await; nothing of
sagas, people or Stripe. `notifications` assumes that a started runner goes on
or throws, that the crons are called again and again, that deadlines pass, and
(strong fairness) that not every attempt at the same email or at the same
update of the same row fails; the code retries exactly those at each call.

**Mutants.** Each property has a mutant in the modules: the code with a
dispatch dropped, an attempt too many, an email before its transition, a guard
left out. They stand before the definition they mutate and are used nowhere.

### What the violated runs show

1. `redelivery`. `createSignal()` stores the row before the identity, the
   conversation and the case. When one of those statements fails (two first
   messages of a sender race for the same conversation, for instance) the sender
   is told 500 and delivers again; the retry meets the unique key and is skipped
   as "already processed": the message never gets a case.
2. `outage_routing`. The notifications of one outage to several leads share kind,
   priority and source, and the dedup key has no recipient: only the first lead
   is told.
3. `fleet_health`. The two hours are measured from `last_health_check_at`, which
   every check renews, so an outage that every check sees is never alerted. Only
   checks that were missed let the alert out; that it is then true is
   `AlertIsTrue`.
4. `chat_answer`. The triage job of a chat does not carry the session
   (`chat-ingress.ts:167`), so the auto-reply worker, three jobs later, publishes
   neither its answer nor the acknowledgement that `docs/active/active-backlog.md:101`
   speaks of. A second obstacle waits behind the first: the widget leaves out
   the role "agent" under which it would be published (`api/index.ts:411`),
   because the echo of the visitor's own message has it.
5. `change_prep_atomic`. `approvals.ts` wraps the transition and the dispatch in
   `withTransaction`, but the transition uses a pool connection: it stays when
   the dispatch fails, and no endpoint dispatches the job again.
6. `retried_prep`. When `pr_draft_prep` has failed for good, the lead's retry looks
   for a change request that is `approved` (`cases.ts:897`). The approval moved it on
   to `implementation-prep` before the job existed (`approvals.ts:104`), and the job
   leaves it there when it fails, so the retry finds nothing and is refused. The
   comment above the query (`cases.ts:894`) and `docs/backlog.md:396` say that the job
   is dispatched again. A second refusal waits behind it: the table has no way from
   `processing-failed` back to `in-change`.

### What the models contain without a run

*Pipeline and console.* `AutoReplyWorker` throws, instead of abstaining, when the
case has left `in-resolution` (`worker.ts:114-116` asks workers to abstain): if
the audit write after the answer fails, the retries throw, the job is
dead-lettered, and a case that was answered becomes `processing-failed`. A
Steward job that was running when a lead corrected the triage routes the case by the old
triage, and the job with the correction then abstains; `correctTriage` keeps
the draft of the old triage and writes `triaged` past the guard.

*Change control.* Statuses leave the table of `cr-state-machine.ts`, whose line 9 wants
every update to go through it. With one request at a time, and this is what
`CrFollowsTable` bounds: `correctTriage` writes `rejected` without the guard
(`correct-triage.ts:128`); a check suite that passes afterwards takes the request
from `rejected` to `completed`, since only `completed` is looked at
(`github.ts:637-642`); and a correction between the check and the write of
`change_prep` or `pr_draft_prep` is overwritten, from `rejected` to `analysis`,
`approval-pending` or `pr-drafted`. Nothing else leaves the table then. With two
requests at once nothing of the kind can be said: both read, both check, and the
second writes over the first, `completed` to `rejected` for example. A passing
check suite completes a change request whose pull request is still open;
`pr_draft_prep` opens a pull request for a change request that was cancelled while
its job was queued.

*Ingress.* A reply to a reply is not threaded: only the first `In-Reply-To` is
looked up (`signal-ingress.ts:85`). Two messages of a thread that arrive together
open two cases; the case a message joins may be resolved between the lookup and
the link; the usage limit is checked before the case is counted.

*Notifications.* Repeated escalations of one source are swallowed by the dedup
key (`escalation-runner.ts:110`), as is the alert that an escalation is
exhausted (`:76`) and every reminder of a case after the first
(`cases.ts:846`); a delivery that failed without throwing is marked sent
(`service.ts:404`).

*Chat.* A reply is published before it is recorded, and recorded under a number
counted before (`api/v1/chat.ts:88-104`): of two that race, one is shown to the
visitor and missing in the thread, and once a request broke off between insert
and link, the number is taken and every later reply fails that way, although
`:93` says that every reply is recorded. The first reply writes `in-resolution`
whatever the status of the case (`:129`), also over `resolved`. An event that is
published while the widget reconnects is lost to it, and nothing loads it later.

*Agents.* A call that failed or timed out is not recorded although it may have
been charged (`agents/worker.ts:161`), and a timeout does not abort the call
(`run-agent.ts:164`): `NeverOvercounted` is one-sided for this reason.

*Memory.* Two detections may record the same pair twice
(`conflict-detector.ts:85`); a flag outlives its conflict when the row goes by
cascade with the other document (`docs/reference/product-memory-specification.md:228-232`).

*Access control.* Two PUTs of one role leave the union of their sets
(`roles-studio.ts:135`); overrides of a deleted role stay; custom roles cannot be
assigned to users (`users.ts:144`). `DEFAULT_ROLE_IDS` (`roles.ts:56`) lists four of
the six built-in roles: a PUT for `change_lead` or `product_lead` is accepted and
replaces what the role grants by default, and a clone of one of them copies its
overrides only.

*Retention.* `retention.ts:8` speaks of "all linked data". The output of the agents'
runs of the case, which `agents/audit.ts:10` and
`docs/reference/architecture-decisions.md:673` want redacted by an erasure, stays:
`eraseAgentRunOutput()` (`audit.ts:143`) is called nowhere. So do the notifications
and audit events with the id of the change request instead of the case's
(`pr-drafts.ts:188`, `approvals.ts:222`, `change-prep-worker.ts:203`), and a row that a
handler inserts after its table was passed. `ErasureMissesOnlyKnown` names these
kinds (`NotErased`) and says that no other is missed. An asset's foreign
key without cascade makes the erasure of its case fail
(`0026_knowledge_assets.sql:7`); the sweep selects `closed` cases only
(`retention.ts:168`, though `docs/guide/settings.md:131` speaks of resolved ones),
and `closed` is a status no handler writes. A reject that was checked before an
approval may be overwritten by the publication.

*Settings.* Overlapping requests lose each other's sections
(`settings.ts:575`, `:683`): the property says that nothing else loses one. The
key of the old provider is kept (`:525`).

*Re-issue.* Two owners, or an owner and a bulk renewal, both find no re-issue in
progress (`owner.ts:423`); a bulk renewal carries the tier of the row as it
loaded it (`owner.ts:498`, against `docs/specs/FEAT-012-reissue-license.md:80`); an
exception outside the SSH steps leaves the customer `in_progress`
(`license-reissue-worker.ts:190`, `:202`), and no endpoint accepts a re-issue then.

*Provisioning.* When the DNS step fails, the saga deletes the server and keeps its
id in the row (`provision.ts:235`); the retry, promised to create a new server
(`:241`), takes the id for a completed step, makes the DNS record for the deleted
server and polls it until the timeout. A saga whose last attempt dies leaves the
row in `provisioning`, which the owner's retry does not accept; a subscription
cancelled before activation is ignored, and the saga activates the instance
later; a webhook handler that throws is answered 200, so Stripe does not deliver
again; `active` is written over a deprovisioning that happened during the poll;
a server whose id was not stored before a crash keeps running. The signup form
refuses the slug of a cancelled instance (`fleet/provisioning/slug.ts`), so
`CheckoutReactivate` is reached by a redelivered checkout only. The branch of
`provision.ts` that resumes at the welcome email cannot be reached: an active row
returns at the first guard.

## 4. Proofs

TLAPS checks each of these for every value of the constants that satisfies the
`ASSUME`s of the modules. The shape is the same everywhere: an inductive
invariant that adds to the property what each handler in flight knows, one lemma
per group of actions, and a theorem that combines them.

`FrontlineProofs` (for any number of cases, jobs, requests, any retry limit):

- `FrontlineTypeCorrect`: `FrontlineSpec => []FrontlineTypeOK` (part of `ServicesTypeOK` in the runs).
- `NoCaseLeftBehind`: `TriagedHasSteward`, `InResolutionHasReply` and
  `LeadHasDraft` always hold, assuming `~MarkCanFail`. Without the assumption
  they do not: the dead-letter job is consumed although its update failed, and
  the case is left with neither job nor error. The inductive invariant adds the
  type invariant and what the pc of an auto-reply job says about its plan and
  payload: a job at `save` or past its check is one that will draft, and a job
  of a forced draft never sends.
- `AnsweredOnceHolds`: `[]AnsweredOnce`, with or without `~MarkCanFail`. `LineInv`
  says that a case walks down a line of three workers: a signal in flight is
  alone with its case (`SignalsAreAlone`), there is at most one job of each worker
  (`OneJobPerAction`), the status tells how far the line has got
  (`StatusOfLine`), a Steward about to route has a triaged case without a reply
  job (`RoutesOnce`), and a reply job about to answer has a case nobody has
  answered (`AnswersOnce`).
- `InChangeHasRequestHolds`: `[]InChangeHasRequest`. `OwnedInv` adds that a change
  request belongs to its case from its creation on, and that a Steward about to
  route to change has created one.
- `FailedNamesJobHolds`: `ConsoleSpec => []FailedNamesJob`, for any number of
  concurrent operator requests and all their operations
  (the run has one request, and seven). The invariant adds the types,
  which every endpoint keeps, and that no request sets `processing-failed`.
  `RoutingIsConsole` carries it over to the instance `console_live` checks.
- `ConsoleLeavesNoTriaged`: `ConsoleSpec => []TriagedHasSteward` beside any number of
  operators, assuming `~MarkCanFail` and that neither `triageManual` nor
  `correctTriage` is among the operations: those two set `triaged` before they
  dispatch the Steward. `NoCaseLeftBehind` makes three promises, and each survives
  other operations, so `OwesInv(s)` keeps them apart by the status `s` that owes a
  job or a draft. `Setters(s)` are the operations that bring a case there, `Harms(s)`
  those and the ones that clear a draft. A request in flight carries one
  of the `Operations` and sends a case only where its operation says
  (`OnlyOperations`, `NobodySends`); a request that has checked one status and
  writes over another is no exception.

`ChangeControlProofs`:

- `ChangeControlTypeCorrect`: `[]ChangeControlTypeOK`.
- `HumanApprovalHolds`: `[]HumanApproval`. It is not inductive as it stands: the
  writes happen a statement after the check, by jobs and requests that carry
  the decision with them. `ApprovalInv` adds that every row past the approval
  is approved (`RowsAreSound`), that a job for `pr_draft_prep` or one about to
  write serves an approved request (`JobsAreSound`), and that a request past its
  check, or one that has loaded `pr-drafted`, is for an approved request
  (`RequestsAreSound`).
- `GateImplemented`: `ChangeControlSpec => ImplementsGate`, each step mapped to a
  step of `ApprovalGate` or to none, from the same invariant.

`NestFleetProofs` has the same for the whole system, `NestFleetSpec`:
`WholeTypeCorrect`, `WholeHumanApproval`, `WholeGateImplemented` and, from the
console's side, `WholeNamesJob`. Pipeline and console open change requests, cancel
them, and put jobs for them into the queue, so `WholeInv` adds to `ApprovalInv` that
a Steward about to dispatch `change_prep` has created its change request
(`StewardsAreSound`), and that a retry hands on only what it found approved
(`CallersAreSound`). For the steps of change control, the new conjuncts only need
that no row is deleted, no approval taken back, and the others' jobs and requests
are left alone (`RowsStay`, `StewardsStay`, `CallersStay`).

`WholeOwnsRequest` is `[]InChangeHasRequest` for the whole system, where two more
handlers write `in-change`. `WholeOwned` adds to `OwnedInv` who may (`NeedsRow`): a
send-to-change that is about to route has created the row of its case, and a retry
that goes back to change has found one (`CallersOwn`); every other step of a request
leaves its case and its target alone (`NewcomersOwn`), and no step gives a change
request to another case (`NoneChangesHands`). The run has only the
pipeline's route; those of send-to-change and the retry are in the proof.

`CrFollowsTableHolds` is `CrFollowsTable`, an action property, for the whole system
under `OneRequest`, with any number of jobs, and with the corrections that write
without the guard. `TableInv` says what each write that is made a statement after
its check relies on. A job past its guard finds the status it has checked, or
`rejected` by a correction (`JobRelies`); nobody else does the same work for the
same change request (`PreparersAreAlone`, `DraftersAreAlone`); a handler that is about
to write is the only one, and one that cancels does so to a request that was
active (`HandlerRelies`); and a webhook finds the change request of a pull request
that is drafted at least, or rejected since (`StatusesAreDue`).

What the pipeline promises holds of the whole under `~MarkCanFail` and with the
operations that break it left out, each named with the promise it breaks:
`WholeLeavesNoTriaged` (no `triageManual`, no `correctTriage`), `WholeLeavesNoResolution`
(no `forward`) and `WholeLeavesLeadDraft` (no `escalate`, `reopen`, `reject` or
`sendDraftReply`). The invariant is `OwesInv` again, now kept by the handlers and
workers of change control too (`ChangeRequestOwes`, `ChangeJobOwes`).

Two action properties are the safety halves of the liveness that TLC checks
(`EnrichingIsSettled`, `TriagedIsSettled`, `PrepIsSettled`). `JobsWearOut`: every step
that touches a row of the queue lowers its `WorkLeft`, the attempts it has left
and, within an attempt, the awaits; so no order of failures, retries and races
keeps a job running for ever. `NothingIsDropped`, under `~MarkCanFail`: a job at a
status its worker leaves stays at it until the status was left, or ends as a
dead letter that says so on the case.

`PlatformProofs` has the lemmas on jobs and requests both share.

`IngressProofs` (any messages, threads, deliveries at once, any statement failing):

- `OneCasePerMessageHolds`: a case row names the message that opened it, so the
  invariant says who may still open one: a delivery past its `createSignal()` is
  the only one that holds the message's claim (the unique key gave it to one
  delivery), and before its case exists no case has that opener
  (`ClaimIsSound`).
- `JoinsItsThreadHolds`: a case found by the thread lookup, the session lookup or
  made by the delivery itself belongs to the message's thread (`Belongs`), and
  the delivery carries it unchanged to the link.
- `IngressTypeCorrect`: the types, from the same invariant.
- `ToldIsRecordedHolds` (`Chat`, any operators and attempts): a request past its
  own link has a linked row (`RecordedInv`), and no statement of another request
  takes a linked row away, because only the unlinked row is replaced.
- `ChatTypeCorrect` (`Chat`): the number under which a reply is stored is a count of
  rows plus one, and its type bounds it by the tries of all operators.
  `ThreadInv` therefore counts, for each operator, the rows in the thread and the
  request under way against what they have asked; `ThreadIsBounded` maps the pairs of an
  operator and a try onto the thread.
- `ShownAsOftenAsSentHolds` (`Chat`): what the page shows of a reply, together with
  what is on its way on a connection, was sent (`NoneTooMany`); events wait on no
  connection but the page's (`SourceIsCurrent`), so that what a new connection
  delivers cannot be delivered by the old one as well. Events are counted in
  sequences: `TimesOfAppend` and `TimesOfTail` say how the count changes, the second
  by a bijection between the places of a message before and after.
- `NotificationsTypeCorrect`, `AckedIsSettledHolds` (`Notifications`, any rows, leads,
  emitters and runners): runners and digests work on copies of rows and write over
  whatever status the row has by then. `NotificationsInv` adds to the type that an
  acknowledged row has left the statuses a digest loads (`AckedHasLeft`); a row can
  still be escalated or marked failed only by one who pursues it, and once the last
  copy is dropped nobody takes it up again (`NotifierStep`).

`AdministrationProofs` (any tables, providers, documents and budgets):

- `PermissionsTypeCorrect`, `RetentionTypeCorrect`, `SettingsTypeCorrect`,
  `KnowledgeTypeCorrect`, `AgentRunsTypeCorrect`: the types, each from the inductive
  invariant of its module.
- `GrantsAreClosedHolds`, `WritesLeastClosureHolds`: `PermissionsInv` says that
  every batch in the table, and every set a request carries towards it, is
  closed, and that what it resolved lies below every closed set with what was
  asked. A union of closed sets is closed, which is why two edits at once,
  whose rows both stay, break nothing; and what a role holds replaces its defaults
  only when it holds something (`ClosedHeld`).
- `ErasureMissesOnlyKnownHolds`, `PublishedIsReviewedHolds`: `RetentionInv` says which
  of the listed rows a caller has removed by the table it is at, and that a
  request at the publication is for an asset that was reviewed.
- `EmbeddingFitsProviderHolds`: `SettingsInv` says it of the row and of every copy
  a request holds.
- `SavedUnlessOverlappedHolds`, over the history of reads and writes as a sequence:
  `SavedInv` says of the copy a request is about to merge into what the property
  says of the row, with one more way to lack what was saved: it was saved after
  the copy was read (`CopyIsSound`). The write then makes that an overlap.
  `HistoryGrows` says what one event adds to `Happened` and `Before`.
- `OpenConflictIsFlaggedHolds`, `ConflictAbstainsHolds`: `MemoryInv` says that what
  the first search saw of a pair that was already in conflict carries its flag.
- `Phase2FitsBudgetHolds`: no temporal difficulty, but rounding: an estimate
  keeps to a budget just when the characters keep to four times as many
  (`EstimateFits`), and the cut makes up for what is over (`Phase2InputFits`),
  provided that a short prompt leaves room for what is always kept, which is the
  last conjunct of `AgentRunsAssumption`. The budgets of `agents/types.ts` leave thousands of
  tokens where about a hundred are needed.
- `NeverOvercountedHolds`, `OvershootIsBoundedHolds`: `CostInv` adds the types and what
  an attempt can have reported at each point (`RunIsSound`). A step of one run
  changes one term of each sum (`KeepsSums`): what it records it takes from what is
  unrecorded, and from an attempt that is left. The sums are those of the community
  modules, `SumFunction`; that a sum moves by the change of one term (`SumOfChange`)
  and that its terms bound it (`SumOfBounded`) is proved from the recursive function
  behind them, by the smallest subset for which it would fail.

`ServicesProofs` (license re-issue, fleet health, and the parts together):

- `IdleTellsInstanceHolds`, under `OneAtATime` (at most one owner request):
  `ReissueInv` says that a job alive is the job of the last row, that the
  customer is then marked `in_progress` and nobody's request is being handled,
  and what the file and the running licence are at each point of the worker.
- `AlertIsTrueHolds`: unless a result could not be stored, the row is no older
  than the silence, and one that says unreachable stands for a check (`HealthInv`).
- `ReissueTypeCorrect`: `[]ReissueTypeOK` without `OneAtATime`. What a job signs, writes
  and records is the licence of a row, so `RowsHaveLicense` adds that every created
  row names one, and that only created rows have a worker.
- `ServicesAreTheirParts`: the instance `MCServices`, in which one part moves and the
  others wait, implements the specification of every part, so each theorem about
  a part holds of the instance the run `services` checks.
- `ServicesTypeCorrect`: `[]ServicesTypeOK`, from that and the parts' theorems, for any
  values of their parameters.

`ProvisioningProofs`:

- `ProvisioningTypeCorrect`: `[]ProvisioningTypeOK`, for any number of sagas,
  requests and servers. The type of `zone` is not inductive alone: a saga puts
  the server of its copy of the row into it, which might be `None`. `DnsHasServer`
  adds that a saga at the DNS step or past it has a server in its copy.

And under `OneSaga` (at most one job slot), the last two
under `OneRequest` as well; section 3 says what happens without them:

- `NameIsOfRowHolds`: `[]NameIsOfRow`. `NameInv` adds what a saga knows: its copy
  of the row is up to date in the columns that skip steps, and the step it is at
  is the first one those columns do not show as done.
- `CustomersAreServedHolds`: `[]CustomersAreServed`. `LifeInv` adds, unless the
  owner or a trial's end cut the instance short: a saga at work means a row that
  is not in service; what a request found when it came still holds when it
  writes; the nightly run only works on a row whose 30 days are over; and by then
  its reactivation window has closed.
- `DeprovisionedIsFinalHolds`: the action property, from the same invariant.

The `ASSUME`s are what the code or its configuration gives: every hard limit is
positive (`budget.ts:41`); there are finitely many runs and
finitely many operators who reply; the writers of chat messages are told apart; there is a row of notifications at all
(`NotifRows` bounds how many). `OneRequest`, `OneSaga`, `OneAtATime` and
`~MarkCanFail` are hypotheses of single theorems, because without them the
property fails, as described here and in section 3.

Only model-checked is liveness, which the prover cannot reach: `EscalationEnds`,
`PendingIsDelivered`, `TriagedIsSettled`, `EnrichingIsSettled`, `PrepIsSettled` and
`CancelledIsSettled`. For three of them `JobsWearOut` and `NothingIsDropped` prove what
safety contributes: a job ends, and does not end silently. Every invariant and every
other action property of the runs that pass is stated by a theorem.

## 5. Not modelled

- **The console user interface** is half of the repository's lines and keeps no
  state the server relies on; it acts through the requests that `Console`,
  `ChangeControl`, `Settings` and `Permissions` model.
- **CI and deployment tracking** (`github.ts:506`, `:614`, `:715`): `ci_status` and
  its notifications are written and never read by a handler that changes a
  status.
- **Workspace billing**: one upsert per webhook. The usage limit is a choice in
  `Ingress`.
- **Users, reports, sign-up, slug reservation**: single statements with a unique
  key. `setup/complete` checks, then creates (`setup.ts:102`).
- **The per-user dispatch limit and the licence gate**: a failing await of a
  dispatch.
- **What agents say**, ranking, freshness scores, parsing and formatting: choices,
  or left out. `closed` is a status of the table no handler writes.

## 6. Plan

1. CI tracking in `ChangeControl`, once a handler reads it.
2. A composition of `Ingress` and `Frontline` over one `cases` table, which shows
   a case that is resolved while a message joins it.
3. `AnsweredOnce` for the whole system, counted between two reopenings: as it
   stands it is the pipeline's alone, since a lead may reply as well.
4. A page of the console that polls while an operator edits a draft.
