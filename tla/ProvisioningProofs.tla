------------------------- MODULE ProvisioningProofs -------------------------
(***************************************************************************)
(* The type correctness of an instance's life, for any number of sagas,    *)
(* requests and servers; then its safety for one saga at a time: its name  *)
(* resolves to its own server and, when requests come one at a time too,   *)
(* it is served as long as it should be and stays deleted.                 *)
(***************************************************************************)
EXTENDS Provisioning, TLAPS

JobPcs == {"free", "queued"} \cup SagaPoints

-----------------------------------------------------------------------------
(* What the operators of the saga and of the tasks do to the types.        *)

\* A job moves on to another await.
LEMMA GotoType ==
  ASSUME ProvisioningTypeOK, NEW j \in Jobs, NEW point \in JobPcs, Goto(j, point)
  PROVE  job' \in [Jobs -> Job]
  <1>1. job[j] \in Job
    BY DEF ProvisioningTypeOK
  <1>2. [job[j] EXCEPT !.pc = point] \in Job
    BY <1>1 DEF Job, JobPcs
  <1> QED BY <1>2 DEF Goto, ProvisioningTypeOK

\* A free slot is a job slot.
LEMMA FreeJobType == FreeJob \in Job
  BY ProvisioningAssumption DEF FreeJob, Job, ServerIds, SagaPoints

\* A completed job frees its slot.
LEMMA FinishType ==
  ASSUME ProvisioningTypeOK, NEW j \in Jobs, Finish(j)
  PROVE  job' \in [Jobs -> Job]
  BY FreeJobType DEF Finish, ProvisioningTypeOK

\* A failed attempt is queued again or gone.
LEMMA FailType ==
  ASSUME ProvisioningTypeOK, NEW j \in Jobs, Fail(j)
  PROVE  job' \in [Jobs -> Job]
  <1>1. job[j] \in Job
    BY DEF ProvisioningTypeOK
  <1>2. CASE job[j].attempt < RetryLimit
    <2>1. job[j].attempt + 1 \in 0..RetryLimit
      BY <1>1, <1>2, ProvisioningAssumption DEF Job
    <2>2. [FreeJob EXCEPT !.pc = "queued", !.attempt = job[j].attempt + 1] \in Job
      BY <2>1, FreeJobType DEF Job, FreeJob
    <2> QED BY <1>2, <2>2 DEF Fail, ProvisioningTypeOK
  <1>3. CASE ~(job[j].attempt < RetryLimit)
    BY <1>3, FreeJobType DEF Fail, ProvisioningTypeOK
  <1> QED BY <1>2, <1>3

\* The point of the next step of a row.
LEMMA NextPointType ==
  ASSUME NEW r PROVE NextPoint(r) \in {"server", "dns", "poll"}
  BY DEF NextPoint

\* An update by the saga.
LEMMA SagaUpdateType ==
  ASSUME ProvisioningTypeOK, NEW j \in Jobs, NEW new \in Row, NEW point \in JobPcs,
         SagaUpdate(j, new, point)
  PROVE  row' \in Row /\ job' \in [Jobs -> Job]
  <1>1. /\ job[j] \in Job
        /\ new.status \in Statuses \cup {"none"}
        /\ new.server \in ServerIds /\ new.dns \in ServerIds
        /\ None \in ServerIds
    BY DEF ProvisioningTypeOK, Row, ServerIds
  <1>2. [pc |-> point, attempt |-> job[j].attempt, status |-> new.status,
         server |-> new.server, dns |-> new.dns, made |-> None] \in Job
    BY <1>1 DEF Job, JobPcs
  <1> QED BY <1>2 DEF SagaUpdate, ProvisioningTypeOK

\* A task moves on, or ends.
LEMMA ContinueType ==
  ASSUME ProvisioningTypeOK, NEW t \in Tasks, NEW point \in TaskPoints,
         Continue(t, point) \/ Done(t)
  PROVE  task' \in [Tasks -> Task]
  <1>1. task[t] \in Task
    BY DEF ProvisioningTypeOK
  <1>2. [task[t] EXCEPT !.pc = point] \in Task /\ IdleTask \in Task
    BY <1>1 DEF Task, IdleTask, TaskPoints, ServerIds
  <1> QED BY <1>2 DEF Continue, Done, ProvisioningTypeOK

\* A task starts with the ids of the row.
LEMMA TakenRowType ==
  ASSUME ProvisioningTypeOK, NEW point \in TaskPoints
  PROVE  [pc |-> point, server |-> row.server, dns |-> row.dns] \in Task
  BY DEF ProvisioningTypeOK, Row, Task

\* A request is counted.
LEMMA CallType ==
  ASSUME ProvisioningTypeOK, NEW t \in Tasks, NEW point \in TaskPoints, Call(t, point)
  PROVE  task' \in [Tasks -> Task] /\ calls' \in 0..MaxCalls
  <1>1. task' \in [Tasks -> Task]
    BY ContinueType DEF Call
  <1>2. calls' \in 0..MaxCalls
    BY ProvisioningAssumption DEF Call, ProvisioningTypeOK
  <1> QED BY <1>1, <1>2

-----------------------------------------------------------------------------
(* Type correctness.                                                       *)

\* A DNS record is only made, and compensated, for a server.
DnsHasServer ==
  \A j \in Jobs : job[j].pc \in {"dns", "saveDns", "compensate"} => job[j].server # None

\* A step of a saga.
LEMMA SagaStepType ==
  ASSUME ProvisioningTypeOK, DnsHasServer, NEW j \in Jobs, SagaStep(j)
  PROVE  ProvisioningTypeOK'
  <1>1. /\ \A x \in Statuses : [row EXCEPT !.status = x] \in Row
        /\ [row EXCEPT !.status = "failed", !.dns = None] \in Row
        /\ \A s \in Servers \cup {None} :
             [row EXCEPT !.server = s] \in Row /\ [row EXCEPT !.dns = s] \in Row
    BY DEF ProvisioningTypeOK, Row, Statuses, ServerIds
  <1>2. /\ {"pending", "provisioning", "active", "failed"} \subseteq Statuses
        /\ JobPcs = {"free", "queued"} \cup SagaPoints
        /\ \A r : NextPoint(r) \in JobPcs
    BY NextPointType DEF Statuses, JobPcs, SagaPoints
  <1>3. job[j] \in Job /\ row \in Row
    BY DEF ProvisioningTypeOK
  <1>4. /\ job[j].made \in Servers \cup {None}
        /\ job[j].server \in Servers \cup {None}
    BY <1>3 DEF Job, ServerIds
  <1>5. CASE SagaLoad(j)
    <2>1. row' \in Row /\ job' \in [Jobs -> Job]
      <3>1. [row EXCEPT !.status = "pending"] \in Row /\ "mark" \in JobPcs
        BY <1>1, <1>2 DEF SagaPoints
      <3>2. CASE \/ SagaUpdate(j, [row EXCEPT !.status = "pending"], "mark")
                 \/ SagaUpdate(j, row, "mark") \/ SagaUpdate(j, row, NextPoint(row))
        BY <1>2, <1>3, <3>1, <3>2, SagaUpdateType
      <3>3. CASE (Finish(j) \/ Fail(j)) /\ UNCHANGED row
        BY <1>3, <3>3, FinishType, FailType
      <3> QED BY <1>5, <3>2, <3>3 DEF SagaLoad
    <2> QED BY <1>5, <2>1 DEF SagaLoad, ProvisioningTypeOK, cloudVars, requestVars
  <1>6. CASE SagaMark(j)
    <2>1. row' \in Row /\ job' \in [Jobs -> Job]
      BY <1>1, <1>2, <1>6, SagaUpdateType DEF SagaMark
    <2> QED BY <1>6, <2>1 DEF SagaMark, ProvisioningTypeOK, cloudVars, requestVars
  <1>7. CASE SagaCreateServer(j)
    <2>1. CASE Goto(j, "markFailed") /\ UNCHANGED vps
      BY <1>2, <1>7, <2>1, GotoType
         DEF SagaCreateServer, SagaPoints, ProvisioningTypeOK, requestVars
    <2>2. ASSUME NEW s \in Servers,
                 vps' = [vps EXCEPT ![s] = "running"],
                 job' = [job EXCEPT ![j].pc = "saveServer", ![j].made = s]
          PROVE  ProvisioningTypeOK'
      <3>1. [job[j] EXCEPT !.pc = "saveServer", !.made = s] \in Job
        BY <1>3 DEF Job, ServerIds, SagaPoints
      <3>2. job' = [job EXCEPT ![j] = [job[j] EXCEPT !.pc = "saveServer", !.made = s]]
        BY <2>2 DEF ProvisioningTypeOK
      <3>3. job' \in [Jobs -> Job]
        BY <3>1, <3>2 DEF ProvisioningTypeOK
      <3> QED BY <1>7, <2>2, <3>3 DEF SagaCreateServer, ProvisioningTypeOK, requestVars
    <2> QED BY <1>7, <2>1, <2>2 DEF SagaCreateServer
  <1>8. CASE SagaSaveServer(j)
    <2>1. row' \in Row /\ job' \in [Jobs -> Job]
      BY <1>1, <1>2, <1>4, <1>8, SagaUpdateType DEF SagaSaveServer
    <2> QED BY <1>8, <2>1 DEF SagaSaveServer, ProvisioningTypeOK, cloudVars, requestVars
  <1>9. CASE SagaCreateDns(j)
    <2>1. job' \in [Jobs -> Job]
      BY <1>2, <1>9, GotoType DEF SagaCreateDns, SagaPoints
    <2>2. job[j].server \in Servers
      BY <1>4, <1>9 DEF DnsHasServer, SagaCreateDns, At
    <2> QED BY <1>9, <2>1, <2>2 DEF SagaCreateDns, ProvisioningTypeOK, requestVars
  <1>10. CASE SagaSaveDns(j)
    <2>1. row' \in Row /\ job' \in [Jobs -> Job]
      BY <1>1, <1>2, <1>3, <1>4, <1>10, SagaUpdateType, GotoType
         DEF SagaSaveDns, SagaPoints
    <2> QED BY <1>10, <2>1 DEF SagaSaveDns, ProvisioningTypeOK, cloudVars, requestVars
  <1>11. CASE SagaCompensate(j)
    <2>1. job' \in [Jobs -> Job]
      BY <1>2, <1>11, GotoType DEF SagaCompensate, SagaPoints
    <2> QED BY <1>11, <2>1 DEF SagaCompensate, ProvisioningTypeOK, requestVars
  <1>12. CASE SagaMarkFailed(j)
    <2>1. row' \in Row /\ job' \in [Jobs -> Job]
      BY <1>1, <1>2, <1>12, FailType DEF SagaMarkFailed
    <2> QED BY <1>12, <2>1 DEF SagaMarkFailed, ProvisioningTypeOK, cloudVars, requestVars
  <1>13. CASE SagaPoll(j)
    <2>1. job' \in [Jobs -> Job]
      BY <1>2, <1>13, GotoType DEF SagaPoll, SagaPoints
    <2> QED BY <1>13, <2>1 DEF SagaPoll, ProvisioningTypeOK, cloudVars, requestVars
  <1>14. CASE SagaDropDns(j)
    <2>1. job' \in [Jobs -> Job]
      BY <1>2, <1>14, GotoType DEF SagaDropDns, SagaPoints
    <2> QED BY <1>14, <2>1 DEF SagaDropDns, ProvisioningTypeOK, requestVars
  <1>15. CASE SagaTimedOut(j)
    <2>1. row' \in Row /\ job' \in [Jobs -> Job]
      BY <1>1, <1>15, FinishType DEF SagaTimedOut
    <2> QED BY <1>15, <2>1 DEF SagaTimedOut, ProvisioningTypeOK, cloudVars, requestVars
  <1>16. CASE SagaActivate(j)
    <2>1. row' \in Row /\ job' \in [Jobs -> Job]
      BY <1>1, <1>2, <1>16, SagaUpdateType DEF SagaActivate, SagaPoints
    <2> QED BY <1>16, <2>1 DEF SagaActivate, ProvisioningTypeOK, cloudVars, requestVars
  <1>17. CASE SagaEmail(j)
    BY <1>17, FinishType DEF SagaEmail, ProvisioningTypeOK, cloudVars, requestVars
  <1>18. CASE SagaStops(j)
    BY <1>18, FailType DEF SagaStops, ProvisioningTypeOK, cloudVars, requestVars
  <1> QED BY <1>5, <1>6, <1>7, <1>8, <1>9, <1>10, <1>11, <1>12, <1>13, <1>14,
             <1>15, <1>16, <1>17, <1>18 DEF SagaStep

\* A step of a saga knows the server of its DNS record.
LEMMA SagaStepDns ==
  ASSUME ProvisioningTypeOK, DnsHasServer, NEW j \in Jobs, SagaStep(j)
  PROVE  DnsHasServer'
  <1>1. SUFFICES (job'[j].pc \in {"dns", "saveDns", "compensate"} => job'[j].server # None)
                 /\ \A i \in Jobs \ {j} : job'[i] = job[i]
    BY DEF DnsHasServer
  <1>2. \A i \in Jobs \ {j} : job'[i] = job[i]
    BY DEF ProvisioningTypeOK, SagaStep, SagaLoad, SagaMark, SagaCreateServer,
           SagaSaveServer, SagaCreateDns, SagaSaveDns, SagaCompensate, SagaMarkFailed,
           SagaPoll, SagaDropDns, SagaTimedOut, SagaActivate, SagaEmail, SagaStops,
           SagaUpdate, Goto, Finish, Fail
  <1>3. job \in [Jobs -> Job] /\ job[j] \in Job
    BY DEF ProvisioningTypeOK
  <1>4. ASSUME NEW new, NEW point, SagaUpdate(j, new, point)
        PROVE  job'[j].pc = point /\ job'[j].server = new.server
    BY <1>3, <1>4 DEF SagaUpdate, Job
  <1>5. ASSUME NEW point, Goto(j, point)
        PROVE  job'[j].pc = point /\ job'[j].server = job[j].server
    BY <1>3, <1>5 DEF Goto, Job
  <1>6. ASSUME Finish(j) \/ Fail(j)
        PROVE  job'[j].pc \in {"free", "queued"}
    <2>1. CASE Finish(j)
      BY <1>3, <2>1 DEF Finish, FreeJob
    <2>2. CASE Fail(j)
      <3>1. [FreeJob EXCEPT !.pc = "queued", !.attempt = job[j].attempt + 1].pc = "queued"
              /\ FreeJob.pc = "free"
        BY DEF FreeJob
      <3> QED BY <1>3, <2>2, <3>1 DEF Fail
    <2> QED BY <1>6, <2>1, <2>2
  <1>7. \A r : NextPoint(r) = "dns" => r.server # None
    BY DEF NextPoint
  <1>8. CASE SagaLoad(j) \/ SagaMark(j) \/ SagaSaveServer(j)
    <2>1. [row EXCEPT !.status = "provisioning"].server = row.server
      BY DEF ProvisioningTypeOK, Row
    <2>2. CASE SagaUpdate(j, row, NextPoint(row))
      BY <1>2, <1>3, <1>7, <2>2, NextPointType DEF SagaUpdate
    <2>3. CASE SagaMark(j)
      <3>1. job'[j].pc = NextPoint(row) /\ job'[j].server = row.server
        BY <1>3, <2>1, <2>3 DEF SagaMark, SagaUpdate
      <3> QED BY <1>2, <1>7, <3>1, NextPointType
    <2>4. CASE SagaSaveServer(j)
      <3>1. PICK new : SagaUpdate(j, new, NextPoint(new))
        BY <2>4 DEF SagaSaveServer
      <3>2. job'[j].pc = NextPoint(new) /\ job'[j].server = new.server
        BY <1>3, <3>1 DEF SagaUpdate
      <3> QED BY <1>2, <1>7, <3>2, NextPointType
    <2>5. CASE \E new : SagaUpdate(j, new, "mark")
      BY <1>2, <1>3, <2>5 DEF SagaUpdate
    <2>6. CASE Finish(j) \/ Fail(j)
      BY <1>2, <1>6, <2>6
    <2>7. SagaLoad(j) => \/ SagaUpdate(j, row, NextPoint(row))
                         \/ \E new : SagaUpdate(j, new, "mark")
                         \/ Finish(j) \/ Fail(j)
      BY Zenon DEF SagaLoad
    <2> QED BY <1>8, <2>2, <2>3, <2>4, <2>5, <2>6, <2>7
  <1>9. CASE SagaCreateServer(j)
    BY <1>2, <1>3, <1>5, <1>9 DEF SagaCreateServer, Job
  <1>10. CASE SagaCreateDns(j)
    BY <1>2, <1>5, <1>10 DEF SagaCreateDns, DnsHasServer, At
  <1>11. CASE SagaSaveDns(j)
    BY <1>2, <1>4, <1>5, <1>11 DEF SagaSaveDns, DnsHasServer, At
  <1>12. CASE SagaCompensate(j) \/ SagaPoll(j) \/ SagaDropDns(j)
    BY <1>2, <1>5, <1>12 DEF SagaCompensate, SagaPoll, SagaDropDns
  <1>13. CASE SagaMarkFailed(j) \/ SagaTimedOut(j) \/ SagaEmail(j) \/ SagaStops(j)
    BY <1>2, <1>6, <1>13 DEF SagaMarkFailed, SagaTimedOut, SagaEmail, SagaStops
  <1>14. CASE SagaActivate(j)
    BY <1>2, <1>4, <1>14 DEF SagaActivate
  <1> QED BY <1>8, <1>9, <1>10, <1>11, <1>12, <1>13, <1>14 DEF SagaStep

\* A call, a step of a task, a nightly run, or the passing of time.
LEMMA RestType ==
  ASSUME ProvisioningTypeOK, DnsHasServer,
         \/ \E t \in Tasks : Arrives(t) \/ TaskStep(t)
         \/ NightlyStart \/ TimePasses
  PROVE  ProvisioningTypeOK' /\ DnsHasServer'
  <1>1. /\ \A x \in Statuses : [row EXCEPT !.status = x] \in Row
        /\ \A x \in Statuses, g \in Graces :
             [row EXCEPT !.status = x, !.grace = g] \in Row
        /\ \A x \in Statuses, g \in Graces, w \in Windows :
             [row EXCEPT !.status = x, !.grace = g, !.window = w] \in Row
        /\ \A w \in Windows : [row EXCEPT !.window = w] \in Row
        /\ \A g \in Graces : [row EXCEPT !.grace = g] \in Row
    BY DEF ProvisioningTypeOK, Row
  <1>2. /\ Nightly \in Tasks /\ Requests \subseteq Tasks
        /\ row \in Row /\ row.status \in Statuses \cup {"none"}
    BY DEF Tasks, ProvisioningTypeOK, Row
  <1>3. ASSUME NEW t \in Tasks, Arrives(t)
        PROVE  ProvisioningTypeOK' /\ DnsHasServer'
    <2>1. UNCHANGED <<row, vps, zone, job>> /\ early' \in BOOLEAN
      BY <1>3 DEF Arrives, Checkout, SubscriptionDeleted, OwnerRetry,
                  OwnerDeprovision, cloudVars, ProvisioningTypeOK
    <2>2. task' \in [Tasks -> Task] /\ calls' \in 0..MaxCalls
      <3>1. CASE Checkout(t) \/ SubscriptionDeleted(t) \/ OwnerRetry(t)
        BY <3>1, CallType DEF Checkout, SubscriptionDeleted, OwnerRetry, TaskPoints
      <3>2. CASE OwnerDeprovision(t)
        <4>1. PICK point \in {"delServer", "grace"} :
                task' = [task EXCEPT ![t] = [pc |-> point, server |-> row.server,
                                             dns |-> row.dns]]
          BY <3>2 DEF OwnerDeprovision
        <4>2. point \in TaskPoints
          BY <4>1 DEF TaskPoints
        <4>3. task' \in [Tasks -> Task]
          BY <4>1, <4>2, TakenRowType DEF ProvisioningTypeOK
        <4>4. calls' \in 0..MaxCalls
          BY <3>2, ProvisioningAssumption DEF OwnerDeprovision, ProvisioningTypeOK
        <4> QED BY <4>3, <4>4
      <3> QED BY <1>3, <3>1, <3>2 DEF Arrives
    <2> QED BY <2>1, <2>2 DEF ProvisioningTypeOK, DnsHasServer
  <1>4. ASSUME NEW t \in Tasks, TaskStep(t)
        PROVE  ProvisioningTypeOK' /\ DnsHasServer'
    <2>1. /\ calls' = calls /\ early' \in BOOLEAN
          /\ row' \in Row /\ task' \in [Tasks -> Task]
      <3>1. row' \in Row
        <4>1. CASE CancelTrial(t) \/ CheckoutReactivate(t) \/ CancelPaid(t)
                     \/ CancelPaidWindow(t) \/ OwnerRetryWrite(t) \/ OwnerGrace(t)
                     \/ MarkDeprovisioned(t)
          BY <1>1, <4>1 DEF CancelTrial, CheckoutReactivate, CancelPaid,
             CancelPaidWindow, OwnerRetryWrite, OwnerGrace, MarkDeprovisioned,
             Statuses, Graces, Windows
        <4>2. CASE SendJob(t) \/ DeleteServer(t) \/ DeleteDns(t) \/ TaskStops(t)
          BY <1>2, <4>2 DEF SendJob, DeleteServer, DeleteDns, TaskStops
        <4> QED BY <1>4, <4>1, <4>2 DEF TaskStep
      <3>2. \E point \in TaskPoints : Continue(t, point) \/ Done(t)
        BY <1>4 DEF TaskStep, CheckoutReactivate, SendJob, CancelTrial, CancelPaid,
           CancelPaidWindow, OwnerRetryWrite, OwnerGrace, DeleteServer, DeleteDns,
           MarkDeprovisioned, TaskStops, TaskPoints
      <3>3. task' \in [Tasks -> Task]
        BY <3>2, ContinueType
      <3>4. calls' = calls /\ early' \in BOOLEAN
        BY <1>4 DEF TaskStep, CheckoutReactivate, SendJob, CancelTrial, CancelPaid,
           CancelPaidWindow, OwnerRetryWrite, OwnerGrace, DeleteServer, DeleteDns,
           MarkDeprovisioned, TaskStops, ProvisioningTypeOK
      <3> QED BY <3>1, <3>3, <3>4
    <2>2. vps' \in [Servers -> {"none", "running", "deleted"}] /\ zone' \subseteq Servers
      BY <1>4 DEF TaskStep, CheckoutReactivate, SendJob, CancelTrial, CancelPaid,
         CancelPaidWindow, OwnerRetryWrite, OwnerGrace, DeleteServer, DeleteDns,
         MarkDeprovisioned, TaskStops, cloudVars, ProvisioningTypeOK
    <2>3. job' \in [Jobs -> Job] /\ DnsHasServer'
      <3>1. CASE SendJob(t)
        <4>1. PICK j \in Jobs : At(j, "free") /\ Goto(j, "queued")
          BY <3>1 DEF SendJob
        <4>2. job' \in [Jobs -> Job]
          BY <4>1, GotoType DEF JobPcs
        <4>3. job[j] \in Job /\ job'[j].pc = "queued"
          BY <4>1 DEF Goto, ProvisioningTypeOK, Job
        <4>4. \A i \in Jobs \ {j} : job'[i] = job[i]
          BY <4>1 DEF Goto, ProvisioningTypeOK
        <4> QED BY <4>2, <4>3, <4>4 DEF DnsHasServer
      <3>2. CASE ~SendJob(t)
        BY <1>4, <3>2 DEF TaskStep, CheckoutReactivate, CancelTrial, CancelPaid,
           CancelPaidWindow, OwnerRetryWrite, OwnerGrace, DeleteServer, DeleteDns,
           MarkDeprovisioned, TaskStops, ProvisioningTypeOK, DnsHasServer
      <3> QED BY <3>1, <3>2
    <2> QED BY <2>1, <2>2, <2>3 DEF ProvisioningTypeOK
  <1>5. CASE NightlyStart
    <2>1. task' \in [Tasks -> Task]
      BY <1>2, <1>5, TakenRowType DEF NightlyStart, ProvisioningTypeOK, TaskPoints
    <2> QED BY <1>5, <2>1 DEF NightlyStart, cloudVars, ProvisioningTypeOK, DnsHasServer
  <1>6. CASE TimePasses
    <2>1. row' \in Row
      BY <1>1, <1>6 DEF TimePasses, WindowCloses, GraceEnds, Graces, Windows
    <2> QED BY <1>6, <2>1 DEF TimePasses, WindowCloses, GraceEnds, cloudVars,
                              requestVars, ProvisioningTypeOK, DnsHasServer
  <1> QED BY <1>3, <1>4, <1>5, <1>6

\* Every variable keeps its type, for any number of sagas and requests.
THEOREM ProvisioningTypeCorrect == ProvisioningSpec => [](ProvisioningTypeOK /\ DnsHasServer)
  <1>1. ProvisioningInit => ProvisioningTypeOK /\ DnsHasServer
    <2>1. /\ IdleTask \in Task /\ None \in ServerIds
          /\ [status |-> "none", server |-> None, dns |-> None, grace |-> "none",
              window |-> "none"] \in Row
      BY DEF IdleTask, Task, TaskPoints, ServerIds, Row, Graces, Windows
    <2>2. FreeJob.pc = "free"
      BY DEF FreeJob
    <2>3. ProvisioningInit => ProvisioningTypeOK
      <3> SUFFICES ASSUME ProvisioningInit PROVE ProvisioningTypeOK
        OBVIOUS
      <3>1. row \in Row
        BY <2>1 DEF ProvisioningInit
      <3>2. job \in [Jobs -> Job] /\ task \in [Tasks -> Task]
        BY <2>1, FreeJobType DEF ProvisioningInit
      <3>3. /\ vps \in [Servers -> {"none", "running", "deleted"}]
            /\ zone \subseteq Servers /\ calls \in 0..MaxCalls
        BY ProvisioningAssumption DEF ProvisioningInit
      <3>4. early \in BOOLEAN
        BY DEF ProvisioningInit
      <3> QED BY <3>1, <3>2, <3>3, <3>4 DEF ProvisioningTypeOK
    <2>4. ProvisioningInit => DnsHasServer
      BY <2>2 DEF ProvisioningInit, DnsHasServer
    <2> QED BY <2>3, <2>4
  <1>2. ProvisioningTypeOK /\ DnsHasServer /\ [ProvisioningNext]_provisioningVars
          => ProvisioningTypeOK' /\ DnsHasServer'
    <2>1. SUFFICES ASSUME ProvisioningTypeOK, DnsHasServer,
                          [ProvisioningNext]_provisioningVars
                   PROVE  ProvisioningTypeOK' /\ DnsHasServer'
      OBVIOUS
    <2>2. CASE UNCHANGED provisioningVars
      BY <2>1, <2>2 DEF provisioningVars, ProvisioningTypeOK, DnsHasServer
    <2>3. CASE ProvisioningNext
      BY <2>1, <2>3, SagaStepType, SagaStepDns, RestType DEF ProvisioningNext
    <2> QED BY <2>1, <2>2, <2>3
  <1> QED BY <1>1, <1>2, PTL DEF ProvisioningSpec

-----------------------------------------------------------------------------
(* Safety, one saga at a time (and, where OneRequest is assumed, one       *)
(* request at a time).                                                     *)

OneSaga == \A i, j \in Jobs : i = j
OneRequest == \A t, u \in Requests : t = u

-----------------------------------------------------------------------------
(* What a saga knows of its row.                                           *)

\* A saga's copy is up to date in the columns it skips steps by, and it is at
\* a step its row has not done yet, with all earlier ones done.
KnowsRow(saga, r) ==
  /\ saga.pc \in SagaPoints => saga.server = r.server /\ saga.dns = r.dns
  /\ saga.pc \in {"server", "saveServer"} => r.server = None
  /\ saga.pc \in {"dns", "saveDns", "compensate"} => r.server # None
  /\ saga.pc \in {"poll", "dropDns", "activate"} => r.server # None /\ r.dns = r.server

RowIsSound == row.dns \in {None, row.server}

NameInv == NameIsOfRow /\ RowIsSound /\ \A j \in Jobs : KnowsRow(job[j], row)

\* The effect of the saga's operators on its job.
LEMMA UpdateEffect ==
  ASSUME ProvisioningTypeOK, NEW j \in Jobs, NEW new \in Row, NEW point,
         SagaUpdate(j, new, point)
  PROVE  /\ row' = new
         /\ job'[j].pc = point /\ job'[j].server = new.server /\ job'[j].dns = new.dns
  BY DEF ProvisioningTypeOK, SagaUpdate

\* A job that moves on keeps its copy of the row.
LEMMA GotoEffect ==
  ASSUME ProvisioningTypeOK, NEW j \in Jobs, NEW point, Goto(j, point)
  PROVE  /\ job'[j].pc = point
         /\ job'[j].server = job[j].server /\ job'[j].dns = job[j].dns
  <1>1. job[j] \in Job
    BY DEF ProvisioningTypeOK
  <1> QED BY <1>1 DEF ProvisioningTypeOK, Goto, Job

\* An attempt that ends leaves its slot free or queued again.
LEMMA EndEffect ==
  ASSUME ProvisioningTypeOK, NEW j \in Jobs, Finish(j) \/ Fail(j)
  PROVE  job'[j].pc \in {"free", "queued"}
  <1>1. /\ FreeJob.pc = "free"
        /\ [FreeJob EXCEPT !.pc = "queued", !.attempt = job[j].attempt + 1].pc = "queued"
    BY DEF FreeJob
  <1>2. CASE Finish(j)
    BY <1>1, <1>2 DEF ProvisioningTypeOK, Finish
  <1>3. CASE Fail(j)
    BY <1>1, <1>3 DEF ProvisioningTypeOK, Fail
  <1> QED BY <1>2, <1>3

\* A saga sent to the next step of the row it has just written knows the row.
LEMMA NextPointKnows ==
  ASSUME NEW saga, NEW r, r.dns \in {None, r.server},
         saga.server = r.server, saga.dns = r.dns,
         saga.pc \in {NextPoint(r), "mark", "free", "queued", "email", "markFailed",
                      "timedOut"}
  PROVE  KnowsRow(saga, r)
  BY DEF NextPoint, KnowsRow

\* A job that is free or queued knows nothing and need not.
LEMMA EndedKnows ==
  ASSUME NEW saga, NEW r, saga.pc \in {"free", "queued"}
  PROVE  KnowsRow(saga, r)
  BY DEF KnowsRow, SagaPoints

\* A step of the only saga.
LEMMA SagaStepNames ==
  ASSUME OneSaga, ProvisioningTypeOK, NameInv, NEW j \in Jobs, SagaStep(j)
  PROVE  NameInv'
  <1>1. SUFFICES NameIsOfRow' /\ RowIsSound' /\ KnowsRow(job'[j], row')
    BY DEF NameInv, OneSaga
  <1>2. /\ row \in Row /\ job[j] \in Job /\ zone \subseteq Servers
        /\ row.dns \in {None, row.server} /\ zone \subseteq {row.server}
        /\ KnowsRow(job[j], row)
    BY DEF ProvisioningTypeOK, NameInv, RowIsSound, NameIsOfRow
  <1>3. ASSUME NEW x \in Statuses
        PROVE  /\ [row EXCEPT !.status = x] \in Row
               /\ [row EXCEPT !.status = x].server = row.server
               /\ [row EXCEPT !.status = x].dns = row.dns
    BY <1>2 DEF Row
  <1>4. /\ "pending" \in Statuses /\ "provisioning" \in Statuses
        /\ "active" \in Statuses /\ "failed" \in Statuses
    BY DEF Statuses
  \* The row keeps its ids and the zone is unchanged.
  <1>5. ASSUME NEW new \in Row, new.server = row.server, new.dns = row.dns,
               NEW point \in {NextPoint(new), "mark", "email"},
               SagaUpdate(j, new, point), zone' = zone
        PROVE  NameIsOfRow' /\ RowIsSound' /\ KnowsRow(job'[j], row')
    <2>1. /\ row' = new /\ job'[j].pc = point
          /\ job'[j].server = new.server /\ job'[j].dns = new.dns
      BY <1>5, UpdateEffect
    <2>2. KnowsRow(job'[j], row')
      BY <1>2, <1>5, <2>1, NextPointKnows
    <2> QED BY <1>2, <1>5, <2>1, <2>2 DEF NameIsOfRow, RowIsSound
  <1>6. CASE SagaLoad(j)
    <2>1. CASE SagaUpdate(j, [row EXCEPT !.status = "pending"], "mark")
      BY <1>3, <1>4, <1>5, <1>6, <2>1 DEF SagaLoad, cloudVars
    <2>2. CASE SagaUpdate(j, row, "mark") \/ SagaUpdate(j, row, NextPoint(row))
      BY <1>2, <1>5, <1>6, <2>2 DEF SagaLoad, cloudVars
    <2>3. CASE (Finish(j) \/ Fail(j)) /\ UNCHANGED row
      BY <1>2, <1>6, <2>3, EndEffect, EndedKnows
         DEF SagaLoad, cloudVars, NameIsOfRow, RowIsSound
    <2> QED BY <1>6, <2>1, <2>2, <2>3 DEF SagaLoad
  <1>7. CASE SagaMark(j)
    <2>1. NextPoint([row EXCEPT !.status = "provisioning"]) = NextPoint(row)
      BY <1>3, <1>4 DEF NextPoint
    <2> QED BY <1>3, <1>4, <1>5, <1>7, <2>1 DEF SagaMark, cloudVars
  <1>8. CASE SagaCreateServer(j)
    <2>1. row' = row /\ zone' = zone /\ row.server = None
      BY <1>2, <1>8 DEF SagaCreateServer, At, KnowsRow
    <2>2. /\ job'[j].pc \in {"saveServer", "markFailed"}
          /\ job'[j].server = job[j].server /\ job'[j].dns = job[j].dns
      BY <1>2, <1>8, GotoEffect DEF SagaCreateServer, ProvisioningTypeOK, Job
    <2>3. job[j].server = row.server /\ job[j].dns = row.dns
      BY <1>2, <1>8 DEF SagaCreateServer, At, KnowsRow, SagaPoints
    <2> QED BY <1>2, <2>1, <2>2, <2>3 DEF KnowsRow, NameIsOfRow, RowIsSound
  <1>9. CASE SagaSaveServer(j)
    <2> DEFINE new == [row EXCEPT !.server = job[j].made]
    <2>1. new \in Row /\ new.server = job[j].made /\ new.dns = row.dns
      BY <1>2 DEF Row, Job
    <2>2. row.server = None
      BY <1>2, <1>9 DEF SagaSaveServer, At, KnowsRow
    <2>3. new.dns = None /\ zone = {}
      BY <1>2, <2>1, <2>2, ProvisioningAssumption
    <2>4. /\ row' = new /\ zone' = zone /\ job'[j].pc = NextPoint(new)
          /\ job'[j].server = new.server /\ job'[j].dns = new.dns
      <3>1. SagaUpdate(j, new, NextPoint(new)) /\ zone' = zone
        BY <1>9 DEF SagaSaveServer, cloudVars
      <3> HIDE DEF new
      <3> QED BY <2>1, <3>1, UpdateEffect
    <2> HIDE DEF new
    <2>5. KnowsRow(job'[j], row')
      BY <2>3, <2>4, NextPointKnows
    <2> QED BY <2>3, <2>4, <2>5 DEF NameIsOfRow, RowIsSound
  <1>10. CASE SagaCreateDns(j)
    <2>1. /\ job[j].server = row.server /\ job[j].dns = row.dns /\ row.server # None
          /\ row' = row /\ zone' \in {zone, zone \cup {row.server}}
      BY <1>2, <1>10 DEF SagaCreateDns, At, KnowsRow, SagaPoints
    <2>2. /\ job'[j].pc \in {"saveDns", "compensate"}
          /\ job'[j].server = job[j].server /\ job'[j].dns = job[j].dns
      BY <1>10, GotoEffect DEF SagaCreateDns
    <2> QED BY <1>2, <2>1, <2>2 DEF KnowsRow, NameIsOfRow, RowIsSound
  <1>11. CASE SagaSaveDns(j)
    <2>1. /\ job[j].server = row.server /\ job[j].dns = row.dns
          /\ row.server # None /\ zone' = zone
      BY <1>2, <1>11 DEF SagaSaveDns, At, KnowsRow, SagaPoints, cloudVars
    <2>2. CASE SagaUpdate(j, [row EXCEPT !.dns = job[j].server], "poll")
      <3> DEFINE new == [row EXCEPT !.dns = job[j].server]
      <3>1. new \in Row /\ new.server = row.server /\ new.dns = row.server
        BY <1>2, <2>1 DEF Row
      <3> HIDE DEF new
      <3>2. /\ row' = new /\ job'[j].pc = "poll"
            /\ job'[j].server = new.server /\ job'[j].dns = new.dns
        BY <2>2, <3>1, UpdateEffect DEF new
      <3> QED BY <1>2, <2>1, <3>1, <3>2 DEF KnowsRow, NameIsOfRow, RowIsSound
    <2>3. CASE Goto(j, "compensate") /\ UNCHANGED row
      BY <1>2, <2>1, <2>3, GotoEffect DEF KnowsRow, NameIsOfRow, RowIsSound
    <2> QED BY <1>11, <2>2, <2>3 DEF SagaSaveDns
  <1>12. CASE SagaCompensate(j)
    <2>1. job'[j].pc = "markFailed" /\ row' = row /\ zone' = zone
            /\ job'[j].server = row.server /\ job'[j].dns = row.dns
      BY <1>2, <1>12, GotoEffect DEF SagaCompensate, At, KnowsRow, SagaPoints
    <2> QED BY <1>2, <2>1 DEF KnowsRow, NameIsOfRow, RowIsSound
  <1>13. CASE SagaMarkFailed(j)
    <2>1. /\ row' = [row EXCEPT !.status = "failed"] /\ zone' = zone
          /\ job'[j].pc \in {"free", "queued"}
      BY <1>13, EndEffect DEF SagaMarkFailed, cloudVars
    <2> QED BY <1>2, <1>3, <1>4, <2>1, EndedKnows DEF NameIsOfRow, RowIsSound
  <1>14. CASE SagaPoll(j)
    <2>1. /\ job[j].server = row.server /\ job[j].dns = row.dns
          /\ row.server # None /\ row.dns = row.server
          /\ row' = row /\ zone' = zone
      BY <1>2, <1>14 DEF SagaPoll, At, KnowsRow, SagaPoints, cloudVars
    <2>2. job'[j].pc \in {"email", "activate", "dropDns"}
            /\ job'[j].server = row.server /\ job'[j].dns = row.dns
      BY <1>14, <2>1, GotoEffect DEF SagaPoll
    <2> QED BY <1>2, <2>1, <2>2 DEF KnowsRow, NameIsOfRow, RowIsSound
  <1>15. CASE SagaDropDns(j)
    <2>1. job'[j].pc = "timedOut" /\ row' = row /\ zone' \subseteq zone
            /\ job'[j].server = row.server /\ job'[j].dns = row.dns
      BY <1>2, <1>15, GotoEffect DEF SagaDropDns, At, KnowsRow, SagaPoints
    <2> QED BY <1>2, <2>1 DEF KnowsRow, NameIsOfRow, RowIsSound
  <1>16. CASE SagaTimedOut(j)
    <2>1. /\ row'.server = row.server /\ row'.dns = None /\ zone' = zone
          /\ job'[j].pc \in {"free", "queued"}
      BY <1>2, <1>16, EndEffect DEF SagaTimedOut, cloudVars, Row
    <2> QED BY <1>2, <2>1, EndedKnows DEF NameIsOfRow, RowIsSound
  <1>17. CASE SagaActivate(j)
    BY <1>3, <1>4, <1>5, <1>17 DEF SagaActivate, cloudVars
  <1>18. CASE SagaEmail(j) \/ SagaStops(j)
    BY <1>2, <1>18, EndEffect, EndedKnows
       DEF SagaEmail, SagaStops, cloudVars, NameIsOfRow, RowIsSound
  <1> QED BY <1>6, <1>7, <1>8, <1>9, <1>10, <1>11, <1>12, <1>13, <1>14, <1>15,
             <1>16, <1>17, <1>18 DEF SagaStep

\* Calls, tasks and time leave the ids of the row and every saga alone, but for
\* one that is queued; deletions only shrink the zone.
LEMMA RestFrame ==
  ASSUME ProvisioningTypeOK,
         \/ \E t \in Tasks : Arrives(t) \/ TaskStep(t)
         \/ NightlyStart \/ TimePasses
  PROVE  /\ row'.server = row.server /\ row'.dns = row.dns /\ zone' \subseteq zone
         /\ \A j \in Jobs : job'[j] = job[j] \/ job'[j].pc = "queued"
  <1>1. row \in Row
    BY DEF ProvisioningTypeOK
  <1>2. CASE \E t \in Tasks : Arrives(t)
    BY <1>2 DEF Arrives, Checkout, SubscriptionDeleted, OwnerRetry, OwnerDeprovision,
                cloudVars
  <1>3. ASSUME NEW t \in Tasks, TaskStep(t)
        PROVE  /\ row'.server = row.server /\ row'.dns = row.dns /\ zone' \subseteq zone
               /\ \A j \in Jobs : job'[j] = job[j] \/ job'[j].pc = "queued"
    <2>1. CASE CheckoutReactivate(t) \/ CancelTrial(t) \/ CancelPaid(t)
                 \/ CancelPaidWindow(t) \/ OwnerRetryWrite(t) \/ OwnerGrace(t)
                 \/ MarkDeprovisioned(t)
      BY <1>1, <2>1 DEF CheckoutReactivate, CancelTrial, CancelPaid, CancelPaidWindow,
                        OwnerRetryWrite, OwnerGrace, MarkDeprovisioned, cloudVars, Row
    <2>2. CASE SendJob(t)
      <3>1. PICK j \in Jobs : Goto(j, "queued")
        BY <2>2 DEF SendJob
      <3>2. \A i \in Jobs : job'[i] = job[i] \/ job'[i].pc = "queued"
        BY <3>1, GotoEffect DEF Goto, ProvisioningTypeOK
      <3> QED BY <2>2, <3>2 DEF SendJob, cloudVars
    <2>3. CASE DeleteServer(t) \/ DeleteDns(t) \/ TaskStops(t)
      BY <2>3 DEF DeleteServer, DeleteDns, TaskStops, cloudVars
    <2> QED BY <1>3, <2>1, <2>2, <2>3 DEF TaskStep
  <1>4. CASE NightlyStart \/ TimePasses
    BY <1>1, <1>4 DEF NightlyStart, TimePasses, WindowCloses, GraceEnds, cloudVars,
                      requestVars, Row
  <1> QED BY <1>2, <1>3, <1>4

\* Every step keeps the name, and every saga up to date.
LEMMA NamesStep ==
  ASSUME OneSaga, ProvisioningTypeOK, NameInv, [ProvisioningNext]_provisioningVars
  PROVE  NameInv'
  <1>1. CASE \E j \in Jobs : SagaStep(j)
    BY <1>1, SagaStepNames
  <1>2. CASE \/ \E t \in Tasks : Arrives(t) \/ TaskStep(t)
             \/ NightlyStart \/ TimePasses
    <2>1. /\ row'.server = row.server /\ row'.dns = row.dns /\ zone' \subseteq zone
          /\ \A j \in Jobs : job'[j] = job[j] \/ job'[j].pc = "queued"
      BY <1>2, RestFrame
    <2>2. ASSUME NEW j \in Jobs PROVE KnowsRow(job'[j], row')
      BY <2>1 DEF NameInv, KnowsRow, SagaPoints
    <2> QED BY <2>1, <2>2 DEF NameInv, NameIsOfRow, RowIsSound
  <1>3. CASE UNCHANGED provisioningVars
    BY <1>3 DEF provisioningVars, NameInv, NameIsOfRow, RowIsSound
  <1> QED BY <1>1, <1>2, <1>3 DEF ProvisioningNext

\* No name resolves before the first signup.
LEMMA NamesInit == ProvisioningInit => NameInv
  <1>1. FreeJob.pc = "free"
    BY DEF FreeJob
  <1>2. ProvisioningInit => \A j \in Jobs : KnowsRow(job[j], row)
    BY <1>1 DEF ProvisioningInit, KnowsRow, SagaPoints
  <1> QED BY <1>2 DEF ProvisioningInit, NameInv, NameIsOfRow, RowIsSound

\* With one saga at a time, the customer's name only ever resolves to the
\* server of the row, whatever fails, is retried or is deprovisioned.
THEOREM NameIsOfRowHolds ==
  ASSUME OneSaga
  PROVE  ProvisioningSpec => []NameIsOfRow
  <1>1. ProvisioningInit => NameInv
    BY NamesInit
  <1>2. ProvisioningTypeOK /\ NameInv /\ [ProvisioningNext]_provisioningVars => NameInv'
    BY NamesStep
  <1>3. NameInv => NameIsOfRow
    BY DEF NameInv
  <1> QED BY <1>1, <1>2, <1>3, ProvisioningTypeCorrect, PTL DEF ProvisioningSpec

-----------------------------------------------------------------------------
(* An instance's life, as long as nobody cuts it short.                    *)

InSaga == {"pending", "provisioning", "failed"}

\* The 30 days outlast the reactivation window.
RowInLife ==
  /\ row.grace # "short"
  /\ row.status = "deprovisioning" => row.grace \in {"long", "over"}
  /\ row.status = "deprovisioning" /\ row.grace = "over" => row.window # "open"

\* A saga works on a row that is not in service, until it activates a served one.
SagasInLife ==
  \A j \in Jobs :
    /\ job[j].pc \in SagaPoints \ {"email"} => row.status \in InSaga
    /\ job[j].pc = "activate" => Served

\* What a request found when it came still holds when it writes.
RequestsInLife ==
  \A t \in Requests :
    /\ task[t].pc \notin {"grace", "delServer", "delDns", "gone"}
    /\ task[t].pc = "reactivate" =>
         row.status = "deprovisioning" /\ row.grace = "long" /\ row.window = "open"
    /\ task[t].pc \in {"cancelTrial", "cancelPaid"} => row.status = "active"
    /\ task[t].pc = "window" => row.status = "deprovisioning" /\ row.grace = "long"
    /\ task[t].pc = "pending" => row.status \in InSaga \cup {"active"}

\* The nightly run only works on a row nobody can reactivate any more.
NightlyInLife ==
  /\ task[Nightly].pc \in {"idle", "delServer", "delDns", "gone"}
  /\ task[Nightly].pc # "idle" => row.status = "deprovisioning" /\ row.grace = "over"

LifeInv ==
  ~early => /\ RowInLife /\ SagasInLife /\ RequestsInLife /\ NightlyInLife
            /\ CustomersAreServed

\* What a saga's step may do to the row: a status nobody else relies on.
LEMMA SagaStepStatus ==
  ASSUME ProvisioningTypeOK, SagasInLife, NEW j \in Jobs, SagaStep(j)
  PROVE  /\ row'.grace = row.grace /\ row'.window = row.window
         /\ \/ row'.status = row.status
            \/ row.status \in InSaga \cup {"none"} /\ row'.status \in InSaga
            \/ job[j].pc = "activate" /\ row.status \in InSaga /\ row'.status = "active"
         /\ task' = task /\ early' = early
  <1>1. row \in Row /\ job[j] \in Job
    BY DEF ProvisioningTypeOK
  <1>2. task' = task /\ early' = early
    BY DEF SagaStep, SagaLoad, SagaMark, SagaCreateServer, SagaSaveServer,
       SagaCreateDns, SagaSaveDns, SagaCompensate, SagaMarkFailed, SagaPoll,
       SagaDropDns, SagaTimedOut, SagaActivate, SagaEmail, SagaStops, requestVars
  <1>3. CASE SagaLoad(j)
    BY <1>1, <1>2, <1>3 DEF SagaLoad, SagaUpdate, InSaga, Row
  <1>4. CASE SagaMark(j) \/ SagaMarkFailed(j) \/ SagaTimedOut(j) \/ SagaActivate(j)
    <2>1. row.status \in InSaga
      BY <1>4 DEF SagaMark, SagaMarkFailed, SagaTimedOut, SagaActivate, At,
                  SagasInLife, SagaPoints
    <2> QED BY <1>1, <1>2, <1>4, <2>1 DEF SagaMark, SagaMarkFailed, SagaTimedOut,
                  SagaActivate, At, SagaUpdate, InSaga, Row
  <1>5. CASE SagaSaveServer(j) \/ SagaSaveDns(j)
    <2>1. \A s : /\ [row EXCEPT !.server = s].status = row.status
                 /\ [row EXCEPT !.server = s].grace = row.grace
                 /\ [row EXCEPT !.server = s].window = row.window
                 /\ [row EXCEPT !.dns = s].status = row.status
                 /\ [row EXCEPT !.dns = s].grace = row.grace
                 /\ [row EXCEPT !.dns = s].window = row.window
      BY <1>1 DEF Row
    <2> QED BY <1>2, <1>5, <2>1 DEF SagaSaveServer, SagaSaveDns, SagaUpdate
  <1>6. CASE row' = row
    BY <1>2, <1>6
  <1> QED BY <1>3, <1>4, <1>5, <1>6 DEF SagaStep, SagaCreateServer, SagaCreateDns,
             SagaCompensate, SagaPoll, SagaDropDns, SagaEmail, SagaStops

\* A saga at work stays with a row that is not in service, and one that has
\* polled its name successfully is about to activate a served instance.
LEMMA SagaStepSagas ==
  ASSUME OneSaga, ProvisioningTypeOK, NameInv, SagasInLife, NEW j \in Jobs, SagaStep(j)
  PROVE  SagasInLife'
  <1>1. SUFFICES /\ job'[j].pc \in SagaPoints \ {"email"} => row'.status \in InSaga
                 /\ job'[j].pc = "activate" => Served'
    BY DEF SagasInLife, OneSaga
  <1>2. row \in Row /\ job[j] \in Job /\ KnowsRow(job[j], row)
    BY DEF ProvisioningTypeOK, NameInv
  <1>3. \A x \in Statuses : [row EXCEPT !.status = x] \in Row
    BY <1>2 DEF Row
  <1>4. \A r : NextPoint(r) # "activate"
    BY NextPointType
  <1>5. CASE SagaLoad(j)
    <2>1. CASE SagaUpdate(j, [row EXCEPT !.status = "pending"], "mark")
      BY <1>2, <1>3, <2>1, UpdateEffect DEF Statuses, InSaga, Row
    <2>2. CASE row.status \in InSaga /\ \E point \in {"mark", NextPoint(row)} :
                                          SagaUpdate(j, row, point)
      BY <1>2, <1>4, <2>2, UpdateEffect
    <2>3. CASE Finish(j) \/ Fail(j)
      BY <2>3, EndEffect DEF SagaPoints
    <2> QED BY <1>5, <2>1, <2>2, <2>3 DEF SagaLoad, InSaga
  <1>6. CASE SagaActivate(j)
    BY <1>3, <1>6, UpdateEffect DEF SagaActivate, Statuses
  <1>7. CASE SagaMarkFailed(j) \/ SagaTimedOut(j) \/ SagaEmail(j) \/ SagaStops(j)
    BY <1>7, EndEffect DEF SagaMarkFailed, SagaTimedOut, SagaEmail, SagaStops, SagaPoints
  <1>8. CASE SagaPoll(j)
    <2>1. CASE Goto(j, "email") \/ Goto(j, "dropDns")
      BY <1>2, <1>8, <2>1, GotoEffect DEF SagaPoll, At, SagasInLife, SagaPoints
    <2>2. CASE Goto(j, "activate") /\ \E s \in zone : vps[s] = "running"
      <3>1. /\ row.server # None /\ row.dns = row.server /\ zone \subseteq {row.server}
            /\ row.status \in InSaga
        BY <1>2, <1>8 DEF SagaPoll, At, KnowsRow, NameInv, NameIsOfRow, SagasInLife,
                          SagaPoints
      <3> QED BY <1>8, <2>2, <3>1 DEF SagaPoll, Served, cloudVars
    <2> QED BY <1>8, <2>1, <2>2 DEF SagaPoll
  <1>9. CASE \/ SagaMark(j) \/ SagaCreateServer(j) \/ SagaSaveServer(j)
             \/ SagaCreateDns(j) \/ SagaSaveDns(j) \/ SagaCompensate(j) \/ SagaDropDns(j)
    <2>1. job[j].pc \in SagaPoints \ {"email", "activate"}
      BY <1>9 DEF SagaMark, SagaCreateServer, SagaSaveServer, SagaCreateDns,
                  SagaSaveDns, SagaCompensate, SagaDropDns, At, SagaPoints
    <2>2. row'.status \in InSaga
      BY <2>1, SagaStepStatus DEF SagasInLife, InSaga
    <2>3. job'[j].pc # "activate"
      <3>1. CASE SagaMark(j)
        BY <1>2, <1>3, <1>4, <3>1, UpdateEffect DEF SagaMark, Statuses
      <3>2. CASE SagaCreateServer(j)
        BY <1>2, <3>2, GotoEffect DEF SagaCreateServer, ProvisioningTypeOK, Job
      <3>3. CASE SagaSaveServer(j)
        <4>1. [row EXCEPT !.server = job[j].made] \in Row
          BY <1>2 DEF Row, Job
        <4> QED BY <1>4, <3>3, <4>1, UpdateEffect DEF SagaSaveServer
      <3>4. CASE SagaSaveDns(j)
        <4>1. [row EXCEPT !.dns = job[j].server] \in Row
          BY <1>2 DEF Row, Job
        <4> QED BY <3>4, <4>1, UpdateEffect, GotoEffect DEF SagaSaveDns
      <3>5. CASE SagaCreateDns(j) \/ SagaCompensate(j) \/ SagaDropDns(j)
        BY <3>5, GotoEffect DEF SagaCreateDns, SagaCompensate, SagaDropDns
      <3> QED BY <1>9, <3>1, <3>2, <3>3, <3>4, <3>5
    <2> QED BY <2>2, <2>3
  <1> QED BY <1>5, <1>6, <1>7, <1>8, <1>9 DEF SagaStep

\* A saga's step does not interrupt the service of an instance.
LEMMA SagaStepServes ==
  ASSUME ProvisioningTypeOK, SagasInLife, CustomersAreServed, ~early,
         NEW j \in Jobs, SagaStep(j)
  PROVE  CustomersAreServed'
  <1>1. SUFFICES ASSUME row'.status = "active"
                        \/ (row'.status = "deprovisioning" /\ row'.grace # "over")
                 PROVE  Served'
    BY DEF CustomersAreServed
  <1>2. row \in Row
    BY DEF ProvisioningTypeOK
  \* The instance is activated now ...
  <1>3. CASE job[j].pc = "activate" /\ row.status \in InSaga /\ row'.status = "active"
    <2>1. Served
      BY <1>3 DEF SagasInLife
    <2>2. SagaActivate(j) \/ SagaStops(j)
      BY <1>3 DEF SagaStep, SagaLoad, SagaMark, SagaCreateServer, SagaSaveServer,
         SagaCreateDns, SagaSaveDns, SagaCompensate, SagaMarkFailed, SagaPoll,
         SagaDropDns, SagaTimedOut, SagaActivate, SagaEmail, At
    <2>3. /\ row'.server = row.server /\ row'.dns = row.dns
          /\ vps' = vps /\ zone' = zone
      BY <1>2, <2>2 DEF SagaActivate, SagaStops, SagaUpdate, cloudVars, Row
    <2> QED BY <2>1, <2>3 DEF Served
  \* ... or was in service before, which leaves the saga little to do.
  <1>4. CASE row'.status = row.status
    <2>1. row.status \notin InSaga /\ Served
      BY <1>1, <1>4, SagaStepStatus DEF CustomersAreServed, InSaga
    <2>2. job[j].pc \notin SagaPoints \ {"email"}
      BY <2>1 DEF SagasInLife
    <2>3. SagaLoad(j) \/ SagaEmail(j) \/ SagaStops(j)
      BY <2>2 DEF SagaStep, SagaMark, SagaCreateServer, SagaSaveServer,
         SagaCreateDns, SagaSaveDns, SagaCompensate, SagaMarkFailed, SagaPoll,
         SagaDropDns, SagaTimedOut, SagaActivate, At, SagaPoints
    <2>4. row' = row /\ vps' = vps /\ zone' = zone
      BY <1>1, <1>4, <2>1, <2>3
         DEF SagaLoad, SagaEmail, SagaStops, InSaga, cloudVars
    <2> QED BY <2>1, <2>4 DEF Served
  <1>5. row'.status \notin InSaga
    BY <1>1 DEF InSaga
  <1> QED BY <1>3, <1>4, <1>5, SagaStepStatus

\* A step of the only saga keeps the invariant.
LEMMA SagaStepLife ==
  ASSUME OneSaga, ProvisioningTypeOK, NameInv, LifeInv, NEW j \in Jobs, SagaStep(j)
  PROVE  LifeInv'
  <1>1. SUFFICES ASSUME ~early' PROVE
          /\ RowInLife' /\ SagasInLife' /\ RequestsInLife' /\ NightlyInLife'
          /\ CustomersAreServed'
    BY DEF LifeInv
  <1>2. /\ ~early
        /\ RowInLife /\ SagasInLife /\ RequestsInLife /\ NightlyInLife
        /\ CustomersAreServed
    <2>1. early' = early
      BY DEF SagaStep, SagaLoad, SagaMark, SagaCreateServer, SagaSaveServer,
         SagaCreateDns, SagaSaveDns, SagaCompensate, SagaMarkFailed, SagaPoll,
         SagaDropDns, SagaTimedOut, SagaActivate, SagaEmail, SagaStops, requestVars
    <2> QED BY <1>1, <2>1 DEF LifeInv
  <1>3. /\ row'.grace = row.grace /\ row'.window = row.window /\ task' = task
        /\ \/ row'.status = row.status
           \/ row.status \in InSaga \cup {"none"} /\ row'.status \in InSaga
           \/ row.status \in InSaga /\ row'.status = "active"
    BY <1>2, SagaStepStatus
  <1>4. RowInLife' /\ RequestsInLife' /\ NightlyInLife'
    BY <1>2, <1>3 DEF RowInLife, RequestsInLife, NightlyInLife, InSaga
  <1> QED BY <1>2, <1>4, SagaStepSagas, SagaStepServes

\* The parts of LifeInv a step of the rest may disturb, as long as the instance
\* is not cut short.
LifeParts == RowInLife /\ SagasInLife /\ RequestsInLife /\ NightlyInLife /\ CustomersAreServed

\* A saga is only disturbed by a row that enters or leaves service beside it.
LEMMA SagasUndisturbed ==
  ASSUME ProvisioningTypeOK, SagasInLife,
         \A j \in Jobs : job'[j] = job[j] \/ job'[j].pc = "queued",
         row'.status \in InSaga \/ row'.status = row.status \/ row.status \notin InSaga,
         row'.server = row.server /\ row'.dns = row.dns,
         (vps' = vps /\ zone' = zone) \/ row.status \notin InSaga
  PROVE  SagasInLife'
  <1>1. SUFFICES ASSUME NEW j \in Jobs, job'[j] = job[j]
                 PROVE  /\ job'[j].pc \in SagaPoints \ {"email"} => row'.status \in InSaga
                        /\ job'[j].pc = "activate" => Served'
    BY DEF SagasInLife, SagaPoints
  <1>2. job[j].pc \in SagaPoints \ {"email"} => row.status \in InSaga
    BY DEF SagasInLife
  <1>3. job'[j].pc = "activate" => Served'
    BY <1>1, <1>2 DEF SagasInLife, Served, SagaPoints
  <1> QED BY <1>1, <1>2, <1>3

\* A request comes: what its handler checks is what it will find.
LEMMA ArrivesLife ==
  ASSUME OneRequest, ProvisioningTypeOK, LifeParts, ~early, ~early',
         NEW t \in Tasks, Arrives(t)
  PROVE  LifeParts'
  <1>1. /\ t \in Requests
        /\ UNCHANGED <<row, vps, zone, job>>
        /\ \E point \in {"send", "reactivate", "cancelTrial", "cancelPaid", "pending"} :
             /\ task' = [task EXCEPT ![t].pc = point]
             /\ point = "reactivate" => row.status = "deprovisioning" /\ row.window = "open"
             /\ point \in {"cancelTrial", "cancelPaid"} => row.status = "active"
             /\ point = "pending" => row.status = "failed"
    <2>1. CASE Checkout(t)
      BY <2>1 DEF Checkout, Call, Continue, cloudVars
    <2>2. CASE SubscriptionDeleted(t)
      BY <2>2 DEF SubscriptionDeleted, Call, Continue, cloudVars
    <2>3. CASE OwnerRetry(t)
      BY <2>3 DEF OwnerRetry, Call, Continue, cloudVars
    <2>4. CASE OwnerDeprovision(t)
      BY <2>4 DEF OwnerDeprovision
    <2> QED BY <2>1, <2>2, <2>3, <2>4 DEF Arrives
  <1>2. PICK point \in {"send", "reactivate", "cancelTrial", "cancelPaid", "pending"} :
          /\ task' = [task EXCEPT ![t].pc = point]
          /\ point = "reactivate" => row.status = "deprovisioning" /\ row.window = "open"
          /\ point \in {"cancelTrial", "cancelPaid"} => row.status = "active"
          /\ point = "pending" => row.status = "failed"
    BY <1>1
  <1>3. task[t] \in Task /\ Nightly \in Tasks /\ Nightly # t
    BY <1>1, ProvisioningAssumption DEF ProvisioningTypeOK, Tasks
  <1>4. task'[t].pc = point /\ task'[Nightly] = task[Nightly]
    BY <1>2, <1>3 DEF ProvisioningTypeOK, Task
  <1>5. RequestsInLife'
    <2>1. SUFFICES /\ point = "reactivate" => row.status = "deprovisioning"
                                   /\ row.grace = "long" /\ row.window = "open"
                   /\ point \in {"cancelTrial", "cancelPaid"} => row.status = "active"
                   /\ point = "pending" => row.status \in InSaga
      BY <1>1, <1>4 DEF RequestsInLife, OneRequest
    <2> QED BY <1>2 DEF LifeParts, RowInLife, InSaga
  <1>6. NightlyInLife' /\ RowInLife' /\ CustomersAreServed' /\ SagasInLife'
    BY <1>1, <1>4 DEF LifeParts, NightlyInLife, RowInLife, CustomersAreServed,
       SagasInLife, Served
  <1> QED BY <1>5, <1>6 DEF LifeParts

\* A step of a request.
LEMMA RequestLife ==
  ASSUME OneRequest, ProvisioningTypeOK, LifeParts, ~early, ~early',
         NEW t \in Requests, TaskStep(t)
  PROVE  LifeParts'
  <1>1. /\ row \in Row /\ task \in [Tasks -> Task] /\ task[t] \in Task
        /\ t \in Tasks /\ Nightly \in Tasks /\ Nightly # t
    BY ProvisioningAssumption DEF ProvisioningTypeOK, Tasks
  <1>2. /\ RowInLife /\ SagasInLife /\ RequestsInLife /\ NightlyInLife
        /\ CustomersAreServed
    BY DEF LifeParts
  <1>3. /\ row'.server = row.server /\ row'.dns = row.dns
        /\ \A j \in Jobs : job'[j] = job[j] \/ job'[j].pc = "queued"
    BY <1>1, RestFrame
  <1>4. \/ CheckoutReactivate(t) \/ SendJob(t) \/ CancelPaid(t)
        \/ CancelPaidWindow(t) \/ OwnerRetryWrite(t) \/ TaskStops(t)
    BY <1>2 DEF TaskStep, CancelTrial, OwnerGrace, DeleteServer, DeleteDns,
                MarkDeprovisioned, RequestsInLife
  <1>5. vps' = vps /\ zone' = zone
    BY <1>4 DEF CheckoutReactivate, SendJob, CancelPaid, CancelPaidWindow,
                OwnerRetryWrite, TaskStops, cloudVars
  <1>6. /\ task'[Nightly] = task[Nightly]
        /\ task'[t].pc \in {"idle", "send", "window"}
        /\ task'[t].pc = "window" => CancelPaid(t)
    <2>1. IdleTask.pc = "idle"
      BY DEF IdleTask
    <2>2. CASE Done(t)
      BY <1>1, <2>1, <2>2 DEF Done
    <2>3. CASE \E point \in {"window", "send"} : Continue(t, point)
                                     /\ (point = "window" => CancelPaid(t))
      BY <1>1, <2>3 DEF Continue, Task
    <2> QED BY <1>4, <2>2, <2>3 DEF CheckoutReactivate, SendJob, CancelPaid,
               CancelPaidWindow, OwnerRetryWrite, TaskStops
  <1>7. SUFFICES
          /\ RowInLife'
          /\ row'.status \in InSaga \/ row'.status = row.status \/ row.status \notin InSaga
          /\ task[Nightly].pc # "idle" => row'.status = "deprovisioning" /\ row'.grace = "over"
          /\ CancelPaid(t) => row'.status = "deprovisioning" /\ row'.grace = "long"
          /\ CustomersAreServed'
    <2>1. SagasInLife'
      BY <1>2, <1>3, <1>5, <1>7, SagasUndisturbed
    <2>2. RequestsInLife'
      BY <1>6, <1>7 DEF RequestsInLife, OneRequest
    <2>3. NightlyInLife'
      BY <1>2, <1>6, <1>7 DEF NightlyInLife
    <2> QED BY <1>7, <2>1, <2>2, <2>3 DEF LifeParts
  <1>8. Served => Served'
    BY <1>3, <1>5 DEF Served
  <1>9. CASE CheckoutReactivate(t)
    <2>1. row.status = "deprovisioning" /\ row.grace = "long"
      BY <1>2, <1>9 DEF CheckoutReactivate, RequestsInLife
    <2>2. row'.status = "active" /\ row'.grace = "none"
      BY <1>1, <1>9 DEF CheckoutReactivate, Row
    <2>3. Served /\ task[Nightly].pc = "idle"
      BY <1>2, <2>1 DEF CustomersAreServed, NightlyInLife
    <2> QED BY <1>8, <1>9, <2>1, <2>2, <2>3
            DEF RowInLife, CustomersAreServed, InSaga, CheckoutReactivate, CancelPaid
  <1>10. CASE SendJob(t) \/ TaskStops(t)
    <2>1. row' = row /\ ~CancelPaid(t)
      <3>1. CASE SendJob(t)
        BY <3>1 DEF SendJob, CancelPaid
      <3>2. CASE TaskStops(t)
        <4>1. row' = row /\ task'[t].pc = "idle"
          BY <1>1, <3>2 DEF TaskStops, Done, IdleTask
        <4>2. CancelPaid(t) => task'[t].pc = "window"
          BY <1>1 DEF CancelPaid, Continue, Task
        <4> QED BY <4>1, <4>2
      <3> QED BY <1>10, <3>1, <3>2
    <2> QED BY <1>2, <1>8, <2>1 DEF RowInLife, CustomersAreServed, NightlyInLife
  <1>11. CASE CancelPaid(t)
    <2>1. row.status = "active" /\ Served
      BY <1>2, <1>11 DEF CancelPaid, RequestsInLife, CustomersAreServed
    <2>2. row'.status = "deprovisioning" /\ row'.grace = "long"
      BY <1>1, <1>11 DEF CancelPaid, Row
    <2>3. task[Nightly].pc = "idle"
      BY <1>2, <2>1 DEF NightlyInLife
    <2> QED BY <1>8, <2>1, <2>2, <2>3 DEF RowInLife, CustomersAreServed, InSaga
  <1>12. CASE CancelPaidWindow(t)
    <2>1. row.status = "deprovisioning" /\ row.grace = "long"
      BY <1>2, <1>12 DEF CancelPaidWindow, RequestsInLife
    <2>2. row'.status = "deprovisioning" /\ row'.grace = "long"
      BY <1>1, <1>12, <2>1 DEF CancelPaidWindow, Row
    <2>3. Served /\ task[Nightly].pc = "idle"
      BY <1>2, <2>1 DEF CustomersAreServed, NightlyInLife
    <2> QED BY <1>8, <2>1, <2>2, <2>3 DEF RowInLife, CustomersAreServed, InSaga
  <1>13. CASE OwnerRetryWrite(t)
    <2>1. row.status \in InSaga \cup {"active"}
      BY <1>2, <1>13 DEF OwnerRetryWrite, RequestsInLife
    <2>2. row'.status = "pending" /\ row'.grace = row.grace
      BY <1>1, <1>13 DEF OwnerRetryWrite, Row
    <2>3. task[Nightly].pc = "idle" /\ ~CancelPaid(t)
      BY <1>2, <1>13, <2>1 DEF NightlyInLife, InSaga, OwnerRetryWrite, CancelPaid
    <2> QED BY <1>2, <2>2, <2>3 DEF RowInLife, CustomersAreServed, InSaga
  <1> QED BY <1>4, <1>9, <1>10, <1>11, <1>12, <1>13

\* A step of the nightly run: the instance is out of service.
LEMMA NightlyLife ==
  ASSUME ProvisioningTypeOK, LifeParts, ~early, ~early', TaskStep(Nightly)
  PROVE  LifeParts'
  <1>1. /\ row \in Row /\ task \in [Tasks -> Task] /\ task[Nightly] \in Task
        /\ Nightly \in Tasks /\ Nightly \notin Requests /\ Requests \subseteq Tasks
    BY ProvisioningAssumption DEF ProvisioningTypeOK, Tasks
  <1>2. /\ RowInLife /\ SagasInLife /\ RequestsInLife /\ NightlyInLife
        /\ CustomersAreServed
    BY DEF LifeParts
  <1>3. \/ DeleteServer(Nightly) \/ DeleteDns(Nightly) \/ MarkDeprovisioned(Nightly)
        \/ TaskStops(Nightly)
    BY <1>2 DEF TaskStep, CheckoutReactivate, SendJob, CancelTrial, CancelPaid,
                CancelPaidWindow, OwnerRetryWrite, OwnerGrace, NightlyInLife
  <1>4. row.status = "deprovisioning" /\ row.grace = "over"
    BY <1>2, <1>3 DEF NightlyInLife, DeleteServer, DeleteDns, MarkDeprovisioned, TaskStops
  <1>5. /\ job' = job /\ row'.server = row.server /\ row'.dns = row.dns
        /\ row'.grace = row.grace /\ row'.window = row.window
        /\ row'.status \in {"deprovisioning", "deprovisioned"}
        /\ row'.status = "deprovisioned" => Done(Nightly)
    BY <1>1, <1>3, <1>4
       DEF DeleteServer, DeleteDns, MarkDeprovisioned, TaskStops, Row
  <1>6. /\ \A t \in Requests : task'[t] = task[t]
        /\ task'[Nightly].pc \in {"idle", "delDns", "gone"}
        /\ Done(Nightly) => task'[Nightly].pc = "idle"
    <2>1. IdleTask.pc = "idle"
      BY DEF IdleTask
    <2>2. Done(Nightly) => /\ task'[Nightly].pc = "idle"
                           /\ \A t \in Requests : task'[t] = task[t]
      BY <1>1, <2>1 DEF Done
    <2>3. ASSUME NEW point \in {"delDns", "gone"}, Continue(Nightly, point)
          PROVE  task'[Nightly].pc = point /\ \A t \in Requests : task'[t] = task[t]
      BY <1>1, <2>3 DEF Continue, Task
    <2> QED BY <1>3, <2>2, <2>3
            DEF DeleteServer, DeleteDns, MarkDeprovisioned, TaskStops
  <1>7. SagasInLife'
    BY <1>2, <1>4, <1>5, SagasUndisturbed DEF InSaga
  <1>8. RowInLife' /\ CustomersAreServed'
    BY <1>2, <1>4, <1>5 DEF RowInLife, CustomersAreServed
  <1>9. RequestsInLife' /\ NightlyInLife'
    BY <1>2, <1>4, <1>5, <1>6 DEF RequestsInLife, NightlyInLife, InSaga
  <1> QED BY <1>7, <1>8, <1>9 DEF LifeParts

\* The nightly run starts, or days pass.
LEMMA TimeLife ==
  ASSUME ProvisioningTypeOK, LifeParts, ~early, NightlyStart \/ TimePasses
  PROVE  LifeParts'
  <1>1. /\ row \in Row /\ task \in [Tasks -> Task]
        /\ Nightly \in Tasks /\ Nightly \notin Requests /\ Requests \subseteq Tasks
    BY ProvisioningAssumption DEF ProvisioningTypeOK, Tasks
  <1>2. /\ RowInLife /\ SagasInLife /\ RequestsInLife /\ NightlyInLife
        /\ CustomersAreServed
    BY DEF LifeParts
  <1>3. CASE NightlyStart
    <2>1. /\ \A t \in Requests : task'[t] = task[t]
          /\ task'[Nightly].pc = "delServer"
          /\ UNCHANGED <<row, vps, zone, job, early>>
      BY <1>1, <1>3 DEF NightlyStart, cloudVars
    <2> QED BY <1>2, <1>3, <2>1 DEF LifeParts, RowInLife, SagasInLife, RequestsInLife,
            NightlyInLife, CustomersAreServed, Served, NightlyStart
  <1>4. CASE TimePasses
    <2>1. /\ \A t \in Tasks : task[t].pc = "idle"
          /\ UNCHANGED <<vps, zone, job, task, early>>
      BY <1>4 DEF TimePasses, WindowCloses, GraceEnds, Settled, cloudVars, requestVars
    <2>2. /\ row'.server = row.server /\ row'.dns = row.dns /\ row'.status = row.status
          /\ \/ row'.grace = row.grace /\ row'.window = "over"
             \/ row.window # "open" /\ row'.window = row.window /\ row'.grace = "over"
      BY <1>1, <1>2, <1>4 DEF TimePasses, WindowCloses, GraceEnds, RowInLife, Row
    <2>3. RowInLife' /\ CustomersAreServed'
      BY <1>2, <2>1, <2>2 DEF RowInLife, CustomersAreServed, Served
    <2>4. SagasInLife'
      BY <1>2, <2>1, <2>2 DEF SagasInLife, Served
    <2>5. RequestsInLife' /\ NightlyInLife'
      BY <1>1, <2>1 DEF RequestsInLife, NightlyInLife
    <2> QED BY <2>3, <2>4, <2>5 DEF LifeParts
  <1> QED BY <1>3, <1>4

\* Once the owner or a trial's end has cut the instance short, that is history.
LEMMA EarlyStays ==
  ASSUME ProvisioningNext, early, early \in BOOLEAN
  PROVE  early'
  <1>1. CASE \E j \in Jobs : SagaStep(j)
    BY <1>1 DEF SagaStep, SagaLoad, SagaMark, SagaCreateServer, SagaSaveServer,
       SagaCreateDns, SagaSaveDns, SagaCompensate, SagaMarkFailed, SagaPoll,
       SagaDropDns, SagaTimedOut, SagaActivate, SagaEmail, SagaStops, requestVars
  <1>2. CASE \E t \in Tasks : Arrives(t)
    BY <1>2 DEF Arrives, Checkout, SubscriptionDeleted, OwnerRetry, OwnerDeprovision
  <1>3. CASE \E t \in Tasks : TaskStep(t)
    BY <1>3 DEF TaskStep, CheckoutReactivate, SendJob, CancelTrial, CancelPaid,
       CancelPaidWindow, OwnerRetryWrite, OwnerGrace, DeleteServer, DeleteDns,
       MarkDeprovisioned, TaskStops
  <1>4. CASE NightlyStart \/ TimePasses
    BY <1>4 DEF NightlyStart, TimePasses, WindowCloses, GraceEnds, requestVars
  <1> QED BY <1>1, <1>2, <1>3, <1>4 DEF ProvisioningNext

\* Every step keeps the invariant.
LEMMA LifeStep ==
  ASSUME OneSaga, OneRequest, ProvisioningTypeOK, NameInv, LifeInv,
         [ProvisioningNext]_provisioningVars
  PROVE  LifeInv'
  <1>1. CASE UNCHANGED provisioningVars
    BY <1>1 DEF provisioningVars, LifeInv, RowInLife, SagasInLife, RequestsInLife,
                NightlyInLife, CustomersAreServed, Served
  <1>2. CASE \E j \in Jobs : SagaStep(j)
    BY <1>2, SagaStepLife
  <1>3. CASE \/ \E t \in Tasks : Arrives(t) \/ TaskStep(t)
             \/ NightlyStart \/ TimePasses
    <2>1. SUFFICES ASSUME ~early' PROVE LifeParts'
      BY DEF LifeInv, LifeParts
    <2>2. ~early
      BY <1>3, <2>1, EarlyStays DEF ProvisioningNext, ProvisioningTypeOK
    <2>3. LifeParts
      BY <2>2 DEF LifeInv, LifeParts
    <2>4. ASSUME NEW t \in Tasks, TaskStep(t) PROVE LifeParts'
      BY <2>1, <2>2, <2>3, <2>4, RequestLife, NightlyLife DEF Tasks
    <2> QED BY <1>3, <2>1, <2>2, <2>3, <2>4, ArrivesLife, TimeLife
  <1> QED BY <1>1, <1>2, <1>3 DEF ProvisioningNext

\* The inductive invariant holds throughout.
LEMMA LifeInvariant ==
  ASSUME OneSaga, OneRequest
  PROVE  ProvisioningSpec => [](ProvisioningTypeOK /\ NameInv /\ LifeInv)
  <1>1. ProvisioningInit => NameInv
    BY NamesInit
  <1>2. ProvisioningInit => LifeInv
    <2> SUFFICES ASSUME ProvisioningInit PROVE LifeInv
      OBVIOUS
    <2>1. FreeJob.pc = "free" /\ IdleTask.pc = "idle"
      BY DEF FreeJob, IdleTask
    <2>2. row.status = "none" /\ row.grace = "none"
      BY DEF ProvisioningInit
    <2>3. /\ \A j \in Jobs : job[j].pc = "free"
          /\ \A t \in Tasks : task[t].pc = "idle"
      BY <2>1 DEF ProvisioningInit
    <2> QED BY <2>2, <2>3 DEF LifeInv, RowInLife, SagasInLife, RequestsInLife,
               NightlyInLife, CustomersAreServed, Tasks, SagaPoints
  <1>3. ProvisioningTypeOK /\ NameInv /\ LifeInv /\ [ProvisioningNext]_provisioningVars
          => NameInv' /\ LifeInv'
    BY NamesStep, LifeStep
  <1> QED BY <1>1, <1>2, <1>3, ProvisioningTypeCorrect, PTL DEF ProvisioningSpec

\* With one saga and one request at a time, an instance is served while it is
\* active and until its 30 days are over.
THEOREM CustomersAreServedHolds ==
  ASSUME OneSaga, OneRequest
  PROVE  ProvisioningSpec => []CustomersAreServed
  <1>1. LifeInv => CustomersAreServed
    BY DEF LifeInv, CustomersAreServed
  <1> QED BY <1>1, LifeInvariant, PTL

\* Under the same conditions nothing revives a deprovisioned instance.
THEOREM DeprovisionedIsFinalHolds ==
  ASSUME OneSaga, OneRequest
  PROVE  ProvisioningSpec => DeprovisionedIsFinal
  <1>1. ASSUME ProvisioningTypeOK, LifeInv, [ProvisioningNext]_provisioningVars,
               row.status = "deprovisioned", ~early
        PROVE  row'.status = "deprovisioned"
    <2>1. /\ row \in Row
          /\ SagasInLife /\ RequestsInLife /\ NightlyInLife
      BY <1>1 DEF ProvisioningTypeOK, LifeInv
    <2>2. ASSUME NEW j \in Jobs, SagaStep(j) PROVE row'.status = "deprovisioned"
      BY <1>1, <2>1, <2>2, SagaStepStatus DEF InSaga
    <2>3. CASE NightlyStart \/ TimePasses
      BY <1>1, <2>1, <2>3 DEF NightlyStart, TimePasses, WindowCloses, GraceEnds, Row
    <2>4. ASSUME NEW t \in Tasks, Arrives(t) PROVE row'.status = "deprovisioned"
      BY <1>1, <2>4 DEF Arrives, Checkout, SubscriptionDeleted, OwnerRetry,
                        OwnerDeprovision
    <2>5. ASSUME NEW t \in Tasks, TaskStep(t) PROVE row'.status = "deprovisioned"
      <3>1. CASE row' = row
        BY <1>1, <3>1
      <3>2. CASE MarkDeprovisioned(t)
        BY <2>1, <3>2 DEF MarkDeprovisioned, Row
      <3>3. task[t].pc \notin {"reactivate", "cancelTrial", "cancelPaid", "window",
                               "pending", "grace"}
        BY <1>1, <2>1 DEF Tasks, RequestsInLife, NightlyInLife, InSaga
      <3> QED BY <2>5, <3>1, <3>2, <3>3 DEF TaskStep, CheckoutReactivate, SendJob,
              CancelTrial, CancelPaid, CancelPaidWindow, OwnerRetryWrite, OwnerGrace,
              DeleteServer, DeleteDns, TaskStops
    <2>6. CASE UNCHANGED provisioningVars
      BY <1>1, <2>6 DEF provisioningVars
    <2> QED BY <1>1, <2>2, <2>3, <2>4, <2>5, <2>6 DEF ProvisioningNext
  <1>2. ProvisioningTypeOK /\ LifeInv /\ [ProvisioningNext]_provisioningVars
          => [row.status = "deprovisioned" /\ ~early
                => row'.status = "deprovisioned"]_provisioningVars
    BY <1>1
  <1> QED BY <1>2, LifeInvariant, PTL DEF ProvisioningSpec, DeprovisionedIsFinal

=============================================================================
