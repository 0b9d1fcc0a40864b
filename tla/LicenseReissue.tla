--------------------------- MODULE LicenseReissue ---------------------------
(***************************************************************************)
(* The reissue of the licence of one customer instance (FEAT-012): the     *)
(* owner's endpoints, the license_reissue job, the file on the instance    *)
(* and the API process there, which reads the file once, when it starts.   *)
(***************************************************************************)
EXTENDS Naturals

CONSTANTS
  Owners,       \* bound: owner requests served at the same time
  MaxReissues,  \* bound: rows of license_reissues, numbered by created_at
  Tiers,
  Expiries      \* expiry dates the owner chooses from

ASSUME ReissueAssumption == MaxReissues \in Nat

VARIABLES
  customer,  \* the row of provisionings: active, reissue_status, licence
  reissues,  \* the rows of license_reissues
  request,   \* the requests in the owner API
  queued,    \* jobs that wait
  worker,    \* what the worker of each job is doing
  instance,  \* the licence file, and the licence the API process runs with
  inHand     \* rows whose JWT the owner has downloaded and not yet installed

reissueVars == <<customer, reissues, request, queued, worker, instance, inHand>>

License == [tier : Tiers, expires : Expiries]
NoJwt == [tier |-> "none", expires |-> 0]

Rows == 1..MaxReissues
Created == {r \in Rows : reissues[r].status # "none"}
Latest(r) == r \in Created /\ \A s \in Created : s <= r

\* renewal: made by the bulk endpoint.  wanted: new_tier and new_expires_at,
\* which the job carries too.  jwt: pending_jwt.
ReissueRow == [status : {"none", "pending", "complete", "failed"},
               wanted : License \cup {NoJwt}, renewal : BOOLEAN,
               jwt : License \cup {NoJwt}]

ReissueRequestPoints == {"idle", "create", "mark", "send"}
ReissuePoints == {"idle", "load", "sign", "store", "write", "restart", "poll", "complete",
                 "tell", "fail", "tellFailed"}

-----------------------------------------------------------------------------
(* The owner's endpoints.                                                  *)

\* A request passes the checks of the row as it is now.
MayReissue(o) ==
  /\ request[o].pc = "idle"
  /\ customer.reissue # "in_progress" /\ customer.active

Ask(o, l, renewal) ==
  /\ request' = [request EXCEPT ![o] = [pc |-> "create", wanted |-> l,
                                        renewal |-> renewal, row |-> 0]]
  /\ UNCHANGED <<customer, reissues, queued, worker, instance, inHand>>

RequestReissue(o) == MayReissue(o) /\ \E l \in License : Ask(o, l, FALSE)

\* The bulk endpoint keeps the tier of the row as it loaded it.
RequestRenewal(o) ==
  MayReissue(o) /\ \E e \in Expiries :
    Ask(o, [tier |-> customer.license.tier, expires |-> e], TRUE)

CreateReissue(o) ==
  /\ request[o].pc = "create"
  /\ \E r \in Rows \ Created :
       /\ \A s \in Rows \ Created : r <= s
       /\ reissues' = [reissues EXCEPT ![r] =
            [status |-> "pending", wanted |-> request[o].wanted,
             renewal |-> request[o].renewal, jwt |-> NoJwt]]
       /\ request' = [request EXCEPT ![o] = [@ EXCEPT !.pc = "mark", !.row = r]]
  /\ UNCHANGED <<customer, queued, worker, instance, inHand>>

MarkInProgress(o) ==
  /\ request[o].pc = "mark"
  /\ customer' = [customer EXCEPT !.reissue = "in_progress"]
  /\ request' = [request EXCEPT ![o] = [@ EXCEPT !.pc = "send"]]
  /\ UNCHANGED <<reissues, queued, worker, instance, inHand>>

NoRequest == [pc |-> "idle", wanted |-> NoJwt, renewal |-> FALSE, row |-> 0]

\* boss.send(); its singletonKey holds the time, so that no two are equal.
SendReissueJob(o) ==
  /\ request[o].pc = "send"
  /\ queued' = queued \cup {request[o].row}
  /\ request' = [request EXCEPT ![o] = NoRequest]
  /\ UNCHANGED <<customer, reissues, worker, instance, inHand>>

\* An await of the handler throws, or the process ends.
OwnerRequestFails(o) ==
  /\ request[o].pc # "idle"
  /\ request' = [request EXCEPT ![o] = NoRequest]
  /\ UNCHANGED <<customer, reissues, queued, worker, instance, inHand>>

\* The download of the last reissue's JWT, when it has failed; it clears it.
DownloadJwt(r) ==
  /\ Latest(r) /\ reissues[r].status = "failed" /\ reissues[r].jwt # NoJwt
  /\ inHand' = inHand \cup {r}
  /\ reissues' = [reissues EXCEPT ![r] = [@ EXCEPT !.jwt = NoJwt]]
  /\ UNCHANGED <<customer, request, queued, worker, instance>>

\* The owner copies the file to the instance and restarts it, unless a later
\* reissue has made it obsolete.
InstallByHand(r) ==
  /\ r \in inHand /\ Latest(r)
  /\ instance' = [file |-> reissues[r].wanted, runs |-> reissues[r].wanted]
  /\ inHand' = inHand \ {r}
  /\ UNCHANGED <<customer, reissues, request, queued, worker>>

-----------------------------------------------------------------------------
(* executeLicenseReissue() for the job of row r.                           *)

WorkerAt(r, point) == worker[r] = point
WorkerGoes(r, point) == worker' = [worker EXCEPT ![r] = point]
WorkerGoesOnOrFails(r, point) == \E p \in {point, "fail"} : WorkerGoes(r, p)

TakeJob(r) ==
  /\ r \in queued
  /\ queued' = queued \ {r} /\ WorkerGoes(r, "load")
  /\ UNCHANGED <<customer, reissues, request, instance, inHand>>

LoadCustomer(r) ==
  /\ WorkerAt(r, "load")
  /\ WorkerGoes(r, IF customer.active THEN "sign" ELSE "fail")
  /\ UNCHANGED <<customer, reissues, request, queued, instance, inHand>>

\* decryptSecret(), JSON.parse() and the signature are outside every try.
SignJwt(r) ==
  /\ WorkerAt(r, "sign") /\ WorkerGoes(r, "store")
  /\ UNCHANGED <<customer, reissues, request, queued, instance, inHand>>

\* Without an SSH key the reissue has failed now.
StoreJwt(r) ==
  /\ WorkerAt(r, "store")
  /\ reissues' = [reissues EXCEPT ![r] = [@ EXCEPT !.jwt = reissues[r].wanted]]
  /\ WorkerGoesOnOrFails(r, "write")
  /\ UNCHANGED <<customer, request, queued, instance, inHand>>

\* Mutant of WriteLicenseFile: the API process is not restarted.
WriteLicenseFileOnly(r) ==
  /\ WorkerAt(r, "write")
  /\ instance' = [instance EXCEPT !.file = reissues[r].wanted]
  /\ WorkerGoes(r, "poll")
  /\ UNCHANGED <<customer, reissues, request, queued, inHand>>

\* sshWriteFile(): an error may come before the file is there or after.
WriteLicenseFile(r) ==
  /\ WorkerAt(r, "write")
  /\ \/ instance' = [instance EXCEPT !.file = reissues[r].wanted]
        /\ WorkerGoesOnOrFails(r, "restart")
     \/ UNCHANGED instance /\ WorkerGoes(r, "fail")
  /\ UNCHANGED <<customer, reissues, request, queued, inHand>>

\* sshExec("... restart api"): likewise.
RestartApi(r) ==
  /\ WorkerAt(r, "restart")
  /\ \/ instance' = [instance EXCEPT !.runs = instance.file]
        /\ WorkerGoesOnOrFails(r, "poll")
     \/ UNCHANGED instance /\ WorkerGoes(r, "fail")
  /\ UNCHANGED <<customer, reissues, request, queued, inHand>>

\* The poll compares the tier, and gives up after the last attempt.
PollTier(r) ==
  /\ WorkerAt(r, "poll")
  /\ \/ instance.runs.tier = reissues[r].wanted.tier /\ WorkerGoes(r, "complete")
     \/ WorkerGoes(r, "fail")
  /\ UNCHANGED <<customer, reissues, request, queued, instance, inHand>>

CompleteReissue(r) ==
  /\ WorkerAt(r, "complete")
  /\ reissues' = [reissues EXCEPT ![r] = [@ EXCEPT !.status = "complete", !.jwt = NoJwt]]
  /\ WorkerGoes(r, "tell")
  /\ UNCHANGED <<customer, request, queued, instance, inHand>>

RecordLicense(r) ==
  /\ WorkerAt(r, "tell")
  /\ customer' = [customer EXCEPT !.reissue = "idle", !.license = reissues[r].wanted]
  /\ WorkerGoes(r, "idle")
  /\ UNCHANGED <<reissues, request, queued, instance, inHand>>

FailReissue(r) ==
  /\ WorkerAt(r, "fail")
  /\ reissues' = [reissues EXCEPT ![r] = [@ EXCEPT !.status = "failed"]]
  /\ WorkerGoes(r, "tellFailed")
  /\ UNCHANGED <<customer, request, queued, instance, inHand>>

RecordFailure(r) ==
  /\ WorkerAt(r, "tellFailed")
  /\ customer' = [customer EXCEPT !.reissue = "failed"]
  /\ WorkerGoes(r, "idle")
  /\ UNCHANGED <<reissues, request, queued, instance, inHand>>

\* An exception outside the try of the SSH steps, or the end of the process:
\* retryLimit is 0 and the queue has no dead-letter handler.
WorkerThrows(r) ==
  /\ ~WorkerAt(r, "idle") /\ WorkerGoes(r, "idle")
  /\ UNCHANGED <<customer, reissues, request, queued, instance, inHand>>

\* The customer's instance is deprovisioned.
CustomerLeaves ==
  /\ customer.active
  /\ customer' = [customer EXCEPT !.active = FALSE]
  /\ UNCHANGED <<reissues, request, queued, worker, instance, inHand>>

-----------------------------------------------------------------------------
ReissueInit ==
  /\ \E l \in License :
       /\ customer = [active |-> TRUE, reissue |-> "idle", license |-> l]
       /\ instance = [file |-> l, runs |-> l]
  /\ reissues = [r \in Rows |-> [status |-> "none", wanted |-> NoJwt,
                                 renewal |-> FALSE, jwt |-> NoJwt]]
  /\ request = [o \in Owners |-> NoRequest]
  /\ queued = {} /\ inHand = {}
  /\ worker = [r \in Rows |-> "idle"]

WorkerStep(r) ==
  \/ TakeJob(r) \/ LoadCustomer(r) \/ SignJwt(r) \/ StoreJwt(r)
  \/ WriteLicenseFile(r) \/ RestartApi(r) \/ PollTier(r)
  \/ CompleteReissue(r) \/ RecordLicense(r)
  \/ FailReissue(r) \/ RecordFailure(r) \/ WorkerThrows(r)

ReissueNext ==
  \/ \E o \in Owners :
       \/ RequestReissue(o) \/ RequestRenewal(o) \/ CreateReissue(o)
       \/ MarkInProgress(o) \/ SendReissueJob(o) \/ OwnerRequestFails(o)
  \/ \E r \in Rows : WorkerStep(r) \/ DownloadJwt(r) \/ InstallByHand(r)
  \/ CustomerLeaves

ReissueSpec == ReissueInit /\ [][ReissueNext]_reissueVars

-----------------------------------------------------------------------------
(* Properties.                                                             *)

\* The customer's row, the re-issues, their jobs and the owner's requests have their
\* types.
ReissueTypeOK ==
  /\ customer \in [active : BOOLEAN, reissue : {"idle", "in_progress", "failed"},
                   license : License]
  /\ reissues \in [Rows -> ReissueRow]
  /\ request \in [Owners -> [pc : ReissueRequestPoints, wanted : License \cup {NoJwt},
                             renewal : BOOLEAN, row : 0..MaxReissues]]
  /\ queued \subseteq Rows /\ inHand \subseteq Rows
  /\ worker \in [Rows -> ReissuePoints]
  /\ instance \in [file : License, runs : License]

\* With one owner request at a time: as long as no reissue runs or has failed,
\* the fleet table shows the licence that the instance runs with, whatever
\* step of an earlier reissue failed and was repaired by another or by hand.
IdleTellsInstance ==
  customer.reissue = "idle" => instance.runs = customer.license
=============================================================================
