---------------------------- MODULE Provisioning ----------------------------
(***************************************************************************)
(* The life of one customer instance: the signup saga that creates its VPS *)
(* and its DNS name, the Stripe webhooks that cancel and reactivate it,    *)
(* the owner's retry and deprovisioning, and the nightly deletion, all on  *)
(* one row of the provisionings table, whose columns are the saga's only   *)
(* memory.                                                                 *)
(*                                                                         *)
(* One step is one database statement or one call of Hetzner, Cloudflare   *)
(* or Stripe.  A saga is a pg-boss job; a webhook, a request of the owner  *)
(* and the nightly run are tasks.  Each works on the row as it loaded it.  *)
(***************************************************************************)
EXTENDS Naturals

CONSTANTS
  Jobs,        \* bound: provision_vps jobs alive at the same time
  Requests,    \* bound: webhooks and owner requests in flight
  Nightly,     \* the deprovision_nightly run; localConcurrency 1
  Servers,     \* bound: VPSs that are ever created
  None,        \* SQL NULL
  RetryLimit,  \* createQueue: retryLimit
  MaxCalls     \* bound: webhooks and owner requests in a behaviour

ASSUME ProvisioningAssumption ==
  /\ None \notin Servers
  /\ Nightly \notin Requests
  /\ RetryLimit \in Nat /\ MaxCalls \in Nat

Tasks == Requests \cup {Nightly}

VARIABLES
  row,    \* provisionings: status, hetzner_server_id, cloudflare_record_id,
          \* deprovision_after and reactivation_deadline
  vps,    \* Hetzner: the servers
  zone,   \* Cloudflare: the servers the name <slug>.<domain> resolves to; a
          \* record is identified with the server it points to
  job,    \* the provision_vps jobs, with the saga's copy of the row
  task,   \* the tasks in flight, with the row deprovisionOne() was given
  calls,  \* how many webhooks and owner requests have come
  early   \* history: the owner deprovisioned the instance, or a trial ended
          \* so that deprovision_after may lie before the reactivation deadline

provisioningVars == <<row, vps, zone, job, task, calls, early>>
cloudVars == <<vps, zone>>
requestVars == <<task, calls, early>>

Statuses == {"pending", "provisioning", "active", "failed", "deprovisioning",
             "deprovisioned"}

\* deprovision_after: "long" is 30 days, longer than any reactivation window;
\* "short" is a trial's end or the owner's graceDays, which may be shorter.
Graces == {"none", "long", "short", "over"}
Windows == {"none", "open", "over"}
ServerIds == Servers \cup {None}

Row == [status : Statuses \cup {"none"}, server : ServerIds, dns : ServerIds,
        grace : Graces, window : Windows]

SagaPoints == {"mark", "server", "saveServer", "dns", "saveDns", "compensate",
               "markFailed", "poll", "dropDns", "timedOut", "activate", "email"}

Job == [pc : {"free", "queued"} \cup SagaPoints, attempt : 0..RetryLimit,
        status : Statuses \cup {"none"}, server : ServerIds, dns : ServerIds,
        made : ServerIds]      \* made: what createServer() returned

FreeJob == [pc |-> "free", attempt |-> 0, status |-> "none", server |-> None,
            dns |-> None, made |-> None]

TaskPoints == {"idle", "send", "reactivate", "cancelTrial", "cancelPaid",
               "window", "pending", "grace", "delServer", "delDns", "gone"}

Task == [pc : TaskPoints, server : ServerIds, dns : ServerIds]
IdleTask == [pc |-> "idle", server |-> None, dns |-> None]

-----------------------------------------------------------------------------
(* The saga.                                                               *)

At(j, point) == job[j].pc = point
Goto(j, point) == job' = [job EXCEPT ![j].pc = point]
Finish(j) == job' = [job EXCEPT ![j] = FreeJob]

\* Mutant of Fail: one attempt too many.
FailOnceMore(j) ==
  job' = [job EXCEPT ![j] =
            IF job[j].attempt <= RetryLimit
            THEN [FreeJob EXCEPT !.pc = "queued", !.attempt = job[j].attempt + 1]
            ELSE FreeJob]

\* A thrown error: pg-boss runs the job again, RetryLimit times; then it is
\* gone, for the queue has no dead letters.
Fail(j) ==
  job' = [job EXCEPT ![j] =
            IF job[j].attempt < RetryLimit
            THEN [FreeJob EXCEPT !.pc = "queued", !.attempt = job[j].attempt + 1]
            ELSE FreeJob]

\* Which step comes next for a row: steps whose column is set are skipped.
NextPoint(r) == IF r.server = None THEN "server"
                ELSE IF r.dns = None THEN "dns" ELSE "poll"

\* updateProvisioning(): the columns of the patch are written whatever the row
\* is now, and the saga goes on with the row that RETURNING * gives.
SagaUpdate(j, new, point) ==
  /\ row' = new
  /\ job' = [job EXCEPT ![j] = [pc |-> point, attempt |-> job[j].attempt,
                                status |-> new.status, server |-> new.server,
                                dns |-> new.dns, made |-> None]]

\* Mutant of SagaLoad: a row that is not active is provisioned, whatever it is.
SagaLoadAny(j) ==
  /\ At(j, "queued")
  /\ IF row.status = "active" THEN Finish(j) /\ UNCHANGED row
     ELSE SagaUpdate(j, row, "mark")
  /\ UNCHANGED <<cloudVars, requestVars>>

\* The guards on the loaded row; createProvisioning() when there is none.
SagaLoad(j) ==
  /\ At(j, "queued")
  /\ \/ row.status = "none" /\ SagaUpdate(j, [row EXCEPT !.status = "pending"], "mark")
     \/ row.status \in {"pending", "failed"} /\ SagaUpdate(j, row, "mark")
     \/ row.status = "provisioning" /\ SagaUpdate(j, row, NextPoint(row))
     \/ row.status = "active" /\ Finish(j) /\ UNCHANGED row
     \/ row.status \in {"deprovisioning", "deprovisioned"} /\ Fail(j) /\ UNCHANGED row
  /\ UNCHANGED <<cloudVars, requestVars>>

SagaMark(j) ==
  /\ At(j, "mark")
  /\ SagaUpdate(j, [row EXCEPT !.status = "provisioning"], NextPoint(row))
  /\ UNCHANGED <<cloudVars, requestVars>>

SagaCreateServer(j) ==
  /\ At(j, "server")
  /\ \/ \E s \in Servers :
          /\ vps[s] = "none"
          /\ vps' = [vps EXCEPT ![s] = "running"]
          /\ job' = [job EXCEPT ![j].pc = "saveServer", ![j].made = s]
     \/ Goto(j, "markFailed") /\ UNCHANGED vps
  /\ UNCHANGED <<row, zone, requestVars>>

SagaSaveServer(j) ==
  /\ At(j, "saveServer")
  /\ LET new == [row EXCEPT !.server = job[j].made]
     IN  SagaUpdate(j, new, NextPoint(new))
  /\ UNCHANGED <<cloudVars, requestVars>>

\* Cloudflare refuses a record that exists already.
SagaCreateDns(j) ==
  /\ At(j, "dns")
  /\ \/ /\ job[j].server \notin zone
        /\ zone' = zone \cup {job[j].server}
        /\ Goto(j, "saveDns")
     \/ Goto(j, "compensate") /\ UNCHANGED zone
  /\ UNCHANGED <<row, vps, requestVars>>

\* The update stands in the same try block as the call: its failure is
\* compensated as well, and the record stays.
SagaSaveDns(j) ==
  /\ At(j, "saveDns")
  /\ \/ SagaUpdate(j, [row EXCEPT !.dns = job[j].server], "poll")
     \/ Goto(j, "compensate") /\ UNCHANGED row
  /\ UNCHANGED <<cloudVars, requestVars>>

\* deleteServer(), best effort; hetzner_server_id is kept.
SagaCompensate(j) ==
  /\ At(j, "compensate")
  /\ \/ vps' = [vps EXCEPT ![job[j].server] = "deleted"]
     \/ UNCHANGED vps
  /\ Goto(j, "markFailed")
  /\ UNCHANGED <<row, zone, requestVars>>

\* Mutant of SagaMarkFailed: the row forgets the server that was deleted.
SagaMarkFailedAfresh(j) ==
  /\ At(j, "markFailed")
  /\ row' = [row EXCEPT !.status = "failed", !.server = None]
  /\ Fail(j)
  /\ UNCHANGED <<cloudVars, requestVars>>

\* The row is failed and the error thrown again.
SagaMarkFailed(j) ==
  /\ At(j, "markFailed")
  /\ row' = [row EXCEPT !.status = "failed"]
  /\ Fail(j)
  /\ UNCHANGED <<cloudVars, requestVars>>

\* Mutant of SagaPoll: the result of the poll is not looked at.
SagaDoesNotPoll(j) ==
  At(j, "poll") /\ Goto(j, "activate") /\ UNCHANGED <<row, cloudVars, requestVars>>

\* pollUntilHealthy() asks the name, so only a running server the name
\* resolves to can answer.  A row that was active already is not polled.
SagaPoll(j) ==
  /\ At(j, "poll")
  /\ \/ job[j].status = "active" /\ Goto(j, "email")
     \/ /\ job[j].status # "active"
        /\ \/ (\E s \in zone : vps[s] = "running") /\ Goto(j, "activate")
           \/ Goto(j, "dropDns")
  /\ UNCHANGED <<row, cloudVars, requestVars>>

\* After the timeout: the DNS record is deleted, best effort, the VPS kept ...
SagaDropDns(j) ==
  /\ At(j, "dropDns")
  /\ zone' \in {zone, zone \ {job[j].dns}}
  /\ Goto(j, "timedOut")
  /\ UNCHANGED <<row, vps, requestVars>>

\* ... and the job completes, so that pg-boss does not retry it.
SagaTimedOut(j) ==
  /\ At(j, "timedOut")
  /\ row' = [row EXCEPT !.status = "failed", !.dns = None]
  /\ Finish(j)
  /\ UNCHANGED <<cloudVars, requestVars>>

SagaActivate(j) ==
  /\ At(j, "activate")
  /\ SagaUpdate(j, [row EXCEPT !.status = "active"], "email")
  /\ UNCHANGED <<cloudVars, requestVars>>

\* sendWelcomeEmail() never throws.
SagaEmail(j) ==
  At(j, "email") /\ Finish(j) /\ UNCHANGED <<row, cloudVars, requestVars>>

\* A database error, an error in the secrets, or the end of the process.
SagaStops(j) ==
  /\ job[j].pc \notin {"free", "queued"}
  /\ Fail(j)
  /\ UNCHANGED <<row, cloudVars, requestVars>>

-----------------------------------------------------------------------------
(* Webhooks and the owner's requests.                                      *)

Continue(t, point) == task' = [task EXCEPT ![t].pc = point]
Done(t) == task' = [task EXCEPT ![t] = IdleTask]

\* A webhook or request comes, and its handler goes to its first write.
Call(t, point) ==
  /\ t \in Requests /\ task[t].pc = "idle" /\ calls < MaxCalls
  /\ Continue(t, point)
  /\ calls' = calls + 1

\* Stripe's checkout.session.completed, redeliveries included: an instance in
\* its reactivation window is reactivated, otherwise a saga is started, also
\* when the lookup of the row fails.
Checkout(t) ==
  /\ \/ Call(t, "send")
     \/ row.status = "deprovisioning" /\ row.window = "open" /\ Call(t, "reactivate")
  /\ UNCHANGED <<row, cloudVars, job, early>>

CheckoutReactivate(t) ==
  /\ task[t].pc = "reactivate"
  /\ row' = [row EXCEPT !.status = "active", !.grace = "none", !.window = "none"]
  /\ Done(t)
  /\ UNCHANGED <<cloudVars, job, calls, early>>

\* boss.send(PROVISION_JOB), of a checkout or of the owner's retry.
SendJob(t) ==
  /\ task[t].pc = "send"
  /\ \E j \in Jobs : At(j, "free") /\ Goto(j, "queued")
  /\ Done(t)
  /\ UNCHANGED <<row, cloudVars, calls, early>>

\* customer.subscription.deleted counts for an active instance only.
SubscriptionDeleted(t) ==
  /\ row.status = "active"
  /\ \E kind \in {"cancelTrial", "cancelPaid"} : Call(t, kind)
  /\ UNCHANGED <<row, cloudVars, job, early>>

\* A cancelled trial: to be deleted at trial end, or at once if that is past.
CancelTrial(t) ==
  /\ task[t].pc = "cancelTrial"
  /\ \E g \in {"short", "over"} :
       row' = [row EXCEPT !.status = "deprovisioning", !.grace = g, !.window = "open"]
  /\ early' = TRUE
  /\ Done(t)
  /\ UNCHANGED <<cloudVars, job, calls>>

\* A cancelled subscription: startDeprovisioning() with 30 days, then the
\* reactivation deadline in a second update.
CancelPaid(t) ==
  /\ task[t].pc = "cancelPaid"
  /\ row' = [row EXCEPT !.status = "deprovisioning", !.grace = "long"]
  /\ Continue(t, "window")
  /\ UNCHANGED <<cloudVars, job, calls, early>>

CancelPaidWindow(t) ==
  /\ task[t].pc = "window"
  /\ row' = [row EXCEPT !.window = "open"]
  /\ Done(t)
  /\ UNCHANGED <<cloudVars, job, calls, early>>

OwnerRetry(t) ==
  /\ row.status = "failed"
  /\ Call(t, "pending")
  /\ UNCHANGED <<row, cloudVars, job, early>>

OwnerRetryWrite(t) ==
  /\ task[t].pc = "pending"
  /\ row' = [row EXCEPT !.status = "pending"]
  /\ Continue(t, "send")
  /\ UNCHANGED <<cloudVars, job, calls, early>>

\* The owner deprovisions, at once or after graceDays, in whatever status.
OwnerDeprovision(t) ==
  /\ row.status \notin {"none", "deprovisioned"}
  /\ t \in Requests /\ task[t].pc = "idle" /\ calls < MaxCalls
  /\ \E point \in {"delServer", "grace"} :
       task' = [task EXCEPT ![t] = [pc |-> point, server |-> row.server, dns |-> row.dns]]
  /\ calls' = calls + 1
  /\ early' = TRUE
  /\ UNCHANGED <<row, cloudVars, job>>

OwnerGrace(t) ==
  /\ task[t].pc = "grace"
  /\ row' = [row EXCEPT !.status = "deprovisioning", !.grace = "short"]
  /\ Done(t)
  /\ UNCHANGED <<cloudVars, job, calls, early>>

-----------------------------------------------------------------------------
(* deprovisionOne() and the nightly run.                                   *)

\* Mutant of NightlyStart: rows with a reactivation deadline only.
NightlyStartWindowed ==
  /\ task[Nightly].pc = "idle"
  /\ row.status = "deprovisioning" /\ row.grace = "over" /\ row.window = "over"
  /\ task' = [task EXCEPT ![Nightly] =
                [pc |-> "delServer", server |-> row.server, dns |-> row.dns]]
  /\ UNCHANGED <<row, cloudVars, job, calls, early>>

\* findExpiredDeprovisionings(): the reactivation deadline plays no part.
NightlyStart ==
  /\ task[Nightly].pc = "idle"
  /\ row.status = "deprovisioning" /\ row.grace = "over"
  /\ task' = [task EXCEPT ![Nightly] =
                [pc |-> "delServer", server |-> row.server, dns |-> row.dns]]
  /\ UNCHANGED <<row, cloudVars, job, calls, early>>

\* Both deletions are best effort and use the ids of the loaded row ...
DeleteServer(t) ==
  /\ task[t].pc = "delServer"
  /\ \/ /\ task[t].server # None
        /\ vps' = [vps EXCEPT ![task[t].server] = "deleted"]
     \/ UNCHANGED vps
  /\ Continue(t, "delDns")
  /\ UNCHANGED <<row, zone, job, calls, early>>

DeleteDns(t) ==
  /\ task[t].pc = "delDns"
  /\ zone' \in {zone, zone \ {task[t].dns}}
  /\ Continue(t, "gone")
  /\ UNCHANGED <<row, vps, job, calls, early>>

\* ... and the row is deprovisioned whatever became of them, and of the row.
MarkDeprovisioned(t) ==
  /\ task[t].pc = "gone"
  /\ row' = [row EXCEPT !.status = "deprovisioned"]
  /\ Done(t)
  /\ UNCHANGED <<cloudVars, job, calls, early>>

\* The handler throws or the process ends.
TaskStops(t) ==
  /\ task[t].pc # "idle"
  /\ Done(t)
  /\ UNCHANGED <<row, cloudVars, job, calls, early>>

\* Days pass while nothing is in flight: a request takes seconds.  The 30 days
\* of a paid cancellation are longer than its reactivation window of 7.
Settled == \A t \in Tasks : task[t].pc = "idle"

WindowCloses ==
  /\ Settled /\ row.window = "open"
  /\ row' = [row EXCEPT !.window = "over"]
  /\ UNCHANGED <<cloudVars, job, requestVars>>

GraceEnds ==
  /\ Settled
  /\ row.grace = "short" \/ (row.grace = "long" /\ row.window # "open")
  /\ row' = [row EXCEPT !.grace = "over"]
  /\ UNCHANGED <<cloudVars, job, requestVars>>

-----------------------------------------------------------------------------
ProvisioningInit ==
  /\ row = [status |-> "none", server |-> None, dns |-> None, grace |-> "none",
            window |-> "none"]
  /\ vps = [s \in Servers |-> "none"]
  /\ zone = {}
  /\ job = [j \in Jobs |-> FreeJob]
  /\ task = [t \in Tasks |-> IdleTask]
  /\ calls = 0
  /\ early = FALSE

SagaStep(j) ==
  \/ SagaLoad(j) \/ SagaMark(j) \/ SagaCreateServer(j) \/ SagaSaveServer(j)
  \/ SagaCreateDns(j) \/ SagaSaveDns(j) \/ SagaCompensate(j) \/ SagaMarkFailed(j)
  \/ SagaPoll(j) \/ SagaDropDns(j) \/ SagaTimedOut(j) \/ SagaActivate(j)
  \/ SagaEmail(j) \/ SagaStops(j)

Arrives(t) ==
  Checkout(t) \/ SubscriptionDeleted(t) \/ OwnerRetry(t) \/ OwnerDeprovision(t)

TaskStep(t) ==
  \/ CheckoutReactivate(t) \/ SendJob(t) \/ CancelTrial(t) \/ CancelPaid(t)
  \/ CancelPaidWindow(t) \/ OwnerRetryWrite(t) \/ OwnerGrace(t)
  \/ DeleteServer(t) \/ DeleteDns(t) \/ MarkDeprovisioned(t) \/ TaskStops(t)

TimePasses == WindowCloses \/ GraceEnds

ProvisioningNext ==
  \/ \E j \in Jobs : SagaStep(j)
  \/ \E t \in Tasks : Arrives(t) \/ TaskStep(t)
  \/ NightlyStart
  \/ TimePasses

ProvisioningSpec == ProvisioningInit /\ [][ProvisioningNext]_provisioningVars

\* Days pass, a request ends somehow, the nightly run is started again, and
\* not every night's run breaks off at the same await.  Sagas, people and
\* Stripe are not fair.
ProvisioningLiveSpec ==
  /\ ProvisioningSpec
  /\ WF_provisioningVars(TimePasses)
  /\ WF_provisioningVars(NightlyStart)
  /\ \A t \in Tasks : WF_provisioningVars(TaskStep(t))
  /\ SF_provisioningVars(DeleteServer(Nightly))
  /\ SF_provisioningVars(DeleteDns(Nightly))
  /\ SF_provisioningVars(MarkDeprovisioned(Nightly))

-----------------------------------------------------------------------------
(* Properties.                                                             *)

\* The row, the sagas, the requests and the external resources have their types.
ProvisioningTypeOK ==
  /\ row \in Row
  /\ vps \in [Servers -> {"none", "running", "deleted"}]
  /\ zone \subseteq Servers
  /\ job \in [Jobs -> Job]
  /\ task \in [Tasks -> Task]
  /\ calls \in 0..MaxCalls
  /\ early \in BOOLEAN

\* The customer's name resolves to the server of the row, which runs.
Served == row.server # None /\ row.dns = row.server
            /\ row.server \in zone /\ vps[row.server] = "running"

\* Migration 0042, "active: VPS up", and deprovision.ts:107, "Your instance
\* will remain accessible for 30 days": through crashes and retries of the
\* saga, cancellation, reactivation and redelivered webhooks, an instance is
\* served while it is active and until its 30 days are over, unless the owner
\* or a trial's end cut them short.
CustomersAreServed ==
  ~early /\ (row.status = "active" \/ (row.status = "deprovisioning" /\ row.grace # "over"))
    => Served

\* FEAT-017 C2, "Once deprovision_after is reached and deprovisioning runs,
\* slug is permanently retired": no late webhook, retry or saga revives the
\* row, as long as the owner did not deprovision beside a running saga.
DeprovisionedIsFinal ==
  [][row.status = "deprovisioned" /\ ~early => row'.status = "deprovisioned"]_provisioningVars

\* Whatever fails in between, the customer's name only ever resolves to the
\* server of the row, never to one that an earlier attempt left behind.
NameIsOfRow == zone \subseteq {row.server}

\* FEAT-017 C2, "After 7 days, normal deprovisioning proceeds": a cancelled
\* instance is deleted or comes back to life; it is not kept forever.
CancelledIsSettled ==
  row.status = "deprovisioning" ~> row.status # "deprovisioning"
=============================================================================
