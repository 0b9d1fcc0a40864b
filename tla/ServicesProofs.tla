--------------------------- MODULE ServicesProofs ---------------------------
(***************************************************************************)
(* What the owner of the fleet is told is true: while requests come one at *)
(* a time, the fleet table names the licence an instance runs with, for    *)
(* any number of re-issues, tiers and expiry dates; and an alert is about  *)
(* an outage, for any threshold.  Then the instance that runs every part   *)
(* of the server that shares no row with the others: each of its           *)
(* behaviours is one of every part, and so what is proved of a part holds  *)
(* there.                                                                  *)
(***************************************************************************)
EXTENDS MCServices, FrontlineProofs, AdministrationProofs, IngressProofs

OneAtATime == \A o, p \in Owners : o = p

\* A job of the row waits or runs.
Active(r) == r \in queued \/ worker[r] # "idle"

\* The row of a job is the last one; the customer is marked and the owner waits.
RowIsSound(r) ==
  /\ Active(r) => /\ customer.reissue = "in_progress" /\ Latest(r)
                  /\ \A o \in Owners : request[o].pc = "idle"
  /\ r \in queued => worker[r] = "idle"
  /\ r \in Created => reissues[r].wanted \in License
  /\ Active(r) /\ worker[r] \notin {"tell", "tellFailed"} => reissues[r].status = "pending"
  /\ worker[r] = "tell" => reissues[r].status = "complete"
  /\ Active(r) /\ worker[r] # "tellFailed" => r \notin inHand
  /\ worker[r] = "restart" => instance.file = reissues[r].wanted
  /\ worker[r] \in {"poll", "complete", "tell"} => instance.runs = reissues[r].wanted

\* A request runs beside no job; the row it made is the last one and pending.
OwnerRequestIsSound(o) ==
  /\ request[o].pc # "idle" => \A r \in Rows : ~Active(r)
  /\ request[o].pc \in {"create", "mark"} => customer.reissue # "in_progress"
  /\ request[o].pc = "create" => request[o].wanted \in License
  /\ request[o].pc = "send" => customer.reissue = "in_progress"
  /\ request[o].pc \in {"mark", "send"} =>
       /\ request[o].row \in Rows /\ Latest(request[o].row) /\ request[o].row \notin inHand
       /\ reissues[request[o].row].status = "pending"

IdleIsSound ==
  customer.reissue = "idle" =>
    /\ instance.runs = customer.license
    /\ \A r \in Rows : Latest(r) => reissues[r].status # "failed" /\ r \notin inHand

ReissueInv ==
  /\ ReissueTypeOK
  /\ \A r \in Created, s \in Rows : s < r => s \in Created
  /\ inHand \subseteq Created
  /\ \A r \in Rows : RowIsSound(r)
  /\ \A o \in Owners : OwnerRequestIsSound(o)
  /\ IdleIsSound

-----------------------------------------------------------------------------
(* The worker.                                                             *)

\* One job at most is alive.
LEMMA OneActive ==
  ASSUME ReissueInv, NEW r \in Rows, NEW s \in Rows, Active(r), Active(s)
  PROVE  r = s
<1>1. Latest(r) /\ Latest(s)
  BY DEF ReissueInv, RowIsSound
<1> QED BY <1>1, ReissueAssumption DEF Latest, Rows, Created

\* The job of r goes on, with its row and the instance as they are then.
LEMMA WorkerEffect ==
  ASSUME ReissueInv, NEW r \in Rows, Active(r), NEW point \in ReissuePoints,
         NEW row \in ReissueRow, row.status # "none", row.wanted = reissues[r].wanted,
         worker' = [worker EXCEPT ![r] = point], reissues' = [reissues EXCEPT ![r] = row],
         queued' = queued \ {r}, instance' \in [file : License, runs : License],
         UNCHANGED <<customer, request, inHand>>,
         point \notin {"idle", "tell", "tellFailed"} => row.status = "pending",
         point = "tell" => row.status = "complete",
         point \notin {"idle", "tellFailed"} => worker[r] # "tellFailed",
         point = "restart" => instance'.file = reissues[r].wanted,
         point \in {"poll", "complete", "tell"} => instance'.runs = reissues[r].wanted
  PROVE  ReissueInv'
<1>1. ReissueTypeOK /\ RowIsSound(r) /\ customer.reissue = "in_progress" /\ Latest(r)
      /\ \A o \in Owners : request[o].pc = "idle"
  BY DEF ReissueInv, RowIsSound
<1>2. ReissueTypeOK'
  BY <1>1 DEF ReissueTypeOK
<1>3. Created' = Created /\ r \in Created
  BY <1>1 DEF Created, ReissueTypeOK, Latest
<1>4. \A s \in Rows : Latest(s)' <=> Latest(s)
  BY <1>3 DEF Latest
<1>5. ASSUME NEW s \in Rows PROVE RowIsSound(s)'
  <2>1. CASE s = r
    <3>1. worker'[r] = point /\ reissues'[r] = row /\ r \notin queued' /\ reissues[r].wanted \in License
      BY <1>1, <1>3 DEF ReissueTypeOK, RowIsSound
    <3> QED BY <1>1, <1>4, <2>1, <3>1 DEF RowIsSound, Active
  <2>2. CASE s # r
    <3>1. ~Active(s)
      BY <2>2, OneActive
    <3>2. worker'[s] = "idle" /\ reissues'[s] = reissues[s] /\ s \notin queued'
      BY <1>1, <2>2, <3>1 DEF ReissueTypeOK, Active
    <3>3. s \in Created' => reissues'[s].wanted \in License
      BY <1>3, <3>2 DEF ReissueInv, RowIsSound
    <3> QED BY <3>2, <3>3 DEF RowIsSound, Active
  <2> QED BY <2>1, <2>2
<1>6. ASSUME NEW o \in Owners PROVE OwnerRequestIsSound(o)'
  BY <1>1 DEF OwnerRequestIsSound
<1>7. IdleIsSound'
  BY <1>1 DEF IdleIsSound
<1> QED BY <1>2, <1>3, <1>5, <1>6, <1>7 DEF ReissueInv

\* What a row is while its job is at a point.
LEMMA WorkerFacts ==
  ASSUME ReissueInv, NEW r \in Rows, worker[r] # "idle"
  PROVE  /\ Active(r) /\ queued \ {r} = queued /\ reissues[r] \in ReissueRow
         /\ reissues[r].status # "none" /\ reissues[r].wanted \in License
         /\ reissues = [reissues EXCEPT ![r] = reissues[r]]
         /\ instance \in [file : License, runs : License] /\ worker[r] \in ReissuePoints
         /\ RowIsSound(r)
BY DEF ReissueInv, ReissueTypeOK, RowIsSound, Active, Latest, Created

\* The steps of a job before its row is settled keep the invariant.
LEMMA WorkerStepsKeepInv ==
  ASSUME ReissueInv, NEW r \in Rows,
         \/ TakeJob(r) \/ LoadCustomer(r) \/ SignJwt(r) \/ StoreJwt(r) \/ PollTier(r)
         \/ CompleteReissue(r) \/ FailReissue(r) \/ WorkerThrows(r)
  PROVE  ReissueInv'
<1> USE DEF WorkerAt, WorkerGoes, WorkerGoesOnOrFails
<1>1. CASE TakeJob(r)
  <2>1. Active(r) /\ worker[r] = "idle" /\ RowIsSound(r) /\ reissues[r] \in ReissueRow
        /\ instance \in [file : License, runs : License] /\ reissues[r].status = "pending"
        /\ reissues = [reissues EXCEPT ![r] = reissues[r]]
    BY <1>1 DEF TakeJob, Active, ReissueInv, RowIsSound, ReissueTypeOK
  <2>2. "load" \in ReissuePoints
    BY DEF ReissuePoints
  <2> QED BY <1>1, <2>1, <2>2, WorkerEffect DEF TakeJob
<1>2. CASE LoadCustomer(r)
  <2>1. PICK point \in {"sign", "fail"} : worker' = [worker EXCEPT ![r] = point]
    BY <1>2 DEF LoadCustomer
  <2>2. worker[r] = "load"
    BY <1>2 DEF LoadCustomer
  <2>3. reissues[r].status = "pending" /\ point \in ReissuePoints
    BY <2>2, WorkerFacts DEF RowIsSound, ReissuePoints
  <2> QED BY <1>2, <2>1, <2>2, <2>3, WorkerFacts, WorkerEffect DEF LoadCustomer
<1>3. CASE SignJwt(r)
  <2>1. worker[r] = "sign"
    BY <1>3 DEF SignJwt
  <2>2. reissues[r].status = "pending" /\ "store" \in ReissuePoints
    BY <2>1, WorkerFacts DEF RowIsSound, ReissuePoints
  <2> QED BY <1>3, <2>1, <2>2, WorkerFacts, WorkerEffect DEF SignJwt
<1>4. CASE StoreJwt(r)
  <2>1. PICK point \in {"write", "fail"} : worker' = [worker EXCEPT ![r] = point]
    BY <1>4 DEF StoreJwt
  <2>2. worker[r] = "store"
    BY <1>4 DEF StoreJwt
  <2>3. reissues[r].status = "pending" /\ point \in ReissuePoints
    BY <2>2, WorkerFacts DEF RowIsSound, ReissuePoints
  <2>4. PICK row \in ReissueRow : /\ row.status = "pending" /\ row.wanted = reissues[r].wanted
                                  /\ reissues' = [reissues EXCEPT ![r] = row]
    <3>1. [reissues[r] EXCEPT !.jwt = reissues[r].wanted] \in ReissueRow
      BY <2>2, WorkerFacts DEF ReissueRow
    <3> QED BY <1>4, <2>2, <2>3, <3>1, WorkerFacts DEF StoreJwt, ReissueRow
  <2> QED BY <1>4, <2>1, <2>2, <2>3, <2>4, WorkerFacts, WorkerEffect DEF StoreJwt
<1>5. CASE PollTier(r)
  <2>1. PICK point \in {"complete", "fail"} : worker' = [worker EXCEPT ![r] = point]
    BY <1>5 DEF PollTier
  <2>2. worker[r] = "poll"
    BY <1>5 DEF PollTier
  <2>3. /\ reissues[r].status = "pending" /\ point \in ReissuePoints
        /\ instance.runs = reissues[r].wanted
    BY <2>2, WorkerFacts DEF RowIsSound, ReissuePoints
  <2> QED BY <1>5, <2>1, <2>2, <2>3, WorkerFacts, WorkerEffect DEF PollTier
<1>6. CASE CompleteReissue(r)
  <2>1. worker[r] = "complete"
    BY <1>6 DEF CompleteReissue
  <2>2. "tell" \in ReissuePoints /\ instance.runs = reissues[r].wanted
    BY <2>1, WorkerFacts DEF RowIsSound, ReissuePoints
  <2>3. PICK row \in ReissueRow : /\ row.status = "complete" /\ row.wanted = reissues[r].wanted
                                  /\ reissues' = [reissues EXCEPT ![r] = row]
    <3>1. [reissues[r] EXCEPT !.status = "complete", !.jwt = NoJwt] \in ReissueRow
      BY <2>1, WorkerFacts DEF ReissueRow
    <3> QED BY <1>6, <2>1, <3>1, WorkerFacts DEF CompleteReissue, ReissueRow
  <2> QED BY <1>6, <2>1, <2>2, <2>3, WorkerFacts, WorkerEffect DEF CompleteReissue
<1>7. CASE FailReissue(r)
  <2>1. worker[r] = "fail" /\ "tellFailed" \in ReissuePoints
    BY <1>7 DEF FailReissue, ReissuePoints
  <2>2. PICK row \in ReissueRow : /\ row.status = "failed" /\ row.wanted = reissues[r].wanted
                                  /\ reissues' = [reissues EXCEPT ![r] = row]
    <3>1. [reissues[r] EXCEPT !.status = "failed"] \in ReissueRow
      BY <2>1, WorkerFacts DEF ReissueRow
    <3> QED BY <1>7, <2>1, <3>1, WorkerFacts DEF FailReissue, ReissueRow
  <2> QED BY <1>7, <2>1, <2>2, WorkerFacts, WorkerEffect DEF FailReissue
<1>8. CASE WorkerThrows(r)
  <2>1. worker[r] # "idle" /\ "idle" \in ReissuePoints
    BY <1>8 DEF WorkerThrows, ReissuePoints
  <2> QED BY <1>8, <2>1, WorkerFacts, WorkerEffect DEF WorkerThrows
<1> QED BY <1>1, <1>2, <1>3, <1>4, <1>5, <1>6, <1>7, <1>8

\* The steps on the instance keep the invariant.
LEMMA InstanceStepsKeepInv ==
  ASSUME ReissueInv, NEW r \in Rows, WriteLicenseFile(r) \/ RestartApi(r)
  PROVE  ReissueInv'
<1> USE DEF WorkerAt, WorkerGoes, WorkerGoesOnOrFails
<1>0. "restart" \in ReissuePoints /\ "poll" \in ReissuePoints /\ "fail" \in ReissuePoints
  BY DEF ReissuePoints
<1>1. CASE WriteLicenseFile(r)
  <2>1. worker[r] = "write" /\ UNCHANGED <<customer, reissues, request, queued, inHand>>
    BY <1>1 DEF WriteLicenseFile
  <2>2. reissues[r].status = "pending"
    BY <2>1, WorkerFacts DEF RowIsSound
  <2>3. CASE UNCHANGED instance /\ worker' = [worker EXCEPT ![r] = "fail"]
    BY <1>0, <2>1, <2>2, <2>3, WorkerFacts, WorkerEffect
  <2>4. ASSUME instance' = [instance EXCEPT !.file = reissues[r].wanted],
               NEW point \in {"restart", "fail"}, worker' = [worker EXCEPT ![r] = point]
        PROVE  ReissueInv'
    <3>1. instance' \in [file : License, runs : License] /\ instance'.file = reissues[r].wanted
      BY <2>1, <2>4, WorkerFacts
    <3> QED BY <1>0, <2>1, <2>2, <2>4, <3>1, WorkerFacts, WorkerEffect
  <2> QED BY <1>1, <2>3, <2>4 DEF WriteLicenseFile
<1>2. CASE RestartApi(r)
  <2>1. worker[r] = "restart" /\ UNCHANGED <<customer, reissues, request, queued, inHand>>
    BY <1>2 DEF RestartApi
  <2>2. reissues[r].status = "pending" /\ instance.file = reissues[r].wanted
    BY <2>1, WorkerFacts DEF RowIsSound
  <2>3. CASE UNCHANGED instance /\ worker' = [worker EXCEPT ![r] = "fail"]
    BY <1>0, <2>1, <2>2, <2>3, WorkerFacts, WorkerEffect
  <2>4. ASSUME instance' = [instance EXCEPT !.runs = instance.file],
               NEW point \in {"poll", "fail"}, worker' = [worker EXCEPT ![r] = point]
        PROVE  ReissueInv'
    <3>1. instance' \in [file : License, runs : License] /\ instance'.runs = reissues[r].wanted
      BY <2>1, <2>2, <2>4, WorkerFacts
    <3> QED BY <1>0, <2>1, <2>2, <2>4, <3>1, WorkerFacts, WorkerEffect
  <2> QED BY <1>2, <2>3, <2>4 DEF RestartApi
<1> QED BY <1>1, <1>2

\* The end of a job keeps the invariant: what it writes is what the instance runs.
LEMMA RecordKeepsInv ==
  ASSUME ReissueInv, NEW r \in Rows, RecordLicense(r) \/ RecordFailure(r)
  PROVE  ReissueInv'
<1> USE DEF WorkerAt, WorkerGoes
<1>1. /\ worker[r] \in {"tell", "tellFailed"} /\ worker' = [worker EXCEPT ![r] = "idle"]
      /\ UNCHANGED <<reissues, request, queued, instance, inHand>>
  BY DEF RecordLicense, RecordFailure
<1>2. /\ Active(r) /\ RowIsSound(r) /\ Latest(r) /\ ReissueTypeOK
      /\ \A o \in Owners : request[o].pc = "idle"
  BY <1>1, WorkerFacts DEF RowIsSound, ReissueInv
<1>3. \A s \in Rows : ~Active(s)'
  BY <1>1, <1>2, OneActive DEF Active, RowIsSound, ReissueTypeOK
<1>4. Created' = Created
  BY <1>1 DEF Created
<1>5. ASSUME NEW s \in Rows PROVE RowIsSound(s)'
  BY <1>1, <1>3, <1>4 DEF RowIsSound, Active, ReissueInv
<1>6. \A o \in Owners : OwnerRequestIsSound(o)'
  BY <1>1, <1>2 DEF OwnerRequestIsSound
<1>7. CASE RecordLicense(r)
  <2>1. /\ worker[r] = "tell" /\ reissues[r].wanted \in License
        /\ customer' = [customer EXCEPT !.reissue = "idle", !.license = reissues[r].wanted]
        /\ instance.runs = reissues[r].wanted /\ reissues[r].status = "complete" /\ r \notin inHand
    BY <1>2, <1>7, WorkerFacts DEF RecordLicense, RowIsSound
  <2>2. /\ customer' \in [active : BOOLEAN, reissue : {"idle", "in_progress", "failed"},
                          license : License]
        /\ customer'.license = reissues[r].wanted
    BY <1>2, <2>1 DEF ReissueTypeOK
  <2>3. ReissueTypeOK'
    BY <1>1, <1>2, <2>2 DEF ReissueTypeOK, ReissuePoints
  <2>4. \A s \in Rows : Latest(s)' => s = r
    BY <1>2, <1>4, ReissueAssumption DEF Latest, Rows, Created
  <2>5. IdleIsSound'
    BY <1>1, <2>1, <2>2, <2>4 DEF IdleIsSound
  <2> QED BY <1>1, <1>4, <1>5, <1>6, <2>3, <2>5 DEF ReissueInv
<1>8. CASE RecordFailure(r)
  <2>1. customer' \in [active : BOOLEAN, reissue : {"idle", "in_progress", "failed"},
                       license : License] /\ customer'.reissue = "failed"
    BY <1>2, <1>8 DEF RecordFailure, ReissueTypeOK
  <2>2. ReissueTypeOK' /\ IdleIsSound'
    BY <1>1, <1>2, <2>1 DEF ReissueTypeOK, ReissuePoints, IdleIsSound
  <2> QED BY <1>1, <1>4, <1>5, <1>6, <2>2 DEF ReissueInv
<1> QED BY <1>7, <1>8

-----------------------------------------------------------------------------
(* The owner.                                                              *)

RequestType == [pc : ReissueRequestPoints, wanted : License \cup {NoJwt},
                renewal : BOOLEAN, row : 0..MaxReissues]

\* A free request.
LEMMA NoRequestType == NoRequest \in RequestType /\ NoRequest.pc = "idle"
BY ReissueAssumption DEF NoRequest, RequestType, ReissueRequestPoints

\* A step that only changes the owner's one request, to a sound one, keeps the
\* invariant.
LEMMA RequestEffect ==
  ASSUME OneAtATime, ReissueInv, NEW o \in Owners, NEW x \in RequestType,
         request' = [request EXCEPT ![o] = x],
         UNCHANGED <<customer, reissues, queued, worker, instance, inHand>>,
         x.pc \in {"idle", "create"},
         x.pc = "create" => x.wanted \in License /\ customer.reissue # "in_progress"
  PROVE  ReissueInv'
<1>1. ReissueTypeOK' /\ request'[o] = x /\ Created' = Created
  BY DEF ReissueInv, ReissueTypeOK, RequestType, Created
<1>2. \A p \in Owners : p = o
  BY DEF OneAtATime
<1>3. ASSUME NEW r \in Rows PROVE RowIsSound(r)'
  <2>1. RowIsSound(r) /\ (Active(r) => customer.reissue = "in_progress")
    BY DEF ReissueInv, RowIsSound
  <2>2. Active(r) => \A p \in Owners : request'[p].pc = "idle"
    BY <1>1, <1>2, <2>1
  <2> QED BY <1>1, <2>1, <2>2 DEF RowIsSound, Active, Latest
<1>4. ASSUME NEW p \in Owners PROVE OwnerRequestIsSound(p)'
  <2>1. request'[p] = x
    BY <1>1, <1>2
  <2>2. x.pc # "idle" => \A r \in Rows : ~Active(r)
    BY DEF ReissueInv, RowIsSound
  <2> QED BY <2>1, <2>2 DEF OwnerRequestIsSound, Active
<1>5. IdleIsSound'
  BY <1>1 DEF ReissueInv, IdleIsSound, Latest
<1> QED BY <1>1, <1>3, <1>4, <1>5 DEF ReissueInv

\* A request that is accepted, or breaks off.
LEMMA RequestKeepsInv ==
  ASSUME OneAtATime, ReissueInv, NEW o \in Owners,
         RequestReissue(o) \/ RequestRenewal(o) \/ OwnerRequestFails(o)
  PROVE  ReissueInv'
<1>1. ASSUME NEW l \in License, NEW renewal \in BOOLEAN, MayReissue(o), Ask(o, l, renewal)
      PROVE  ReissueInv'
  <2> DEFINE x == [pc |-> "create", wanted |-> l, renewal |-> renewal, row |-> 0]
  <2>1. x \in RequestType
    BY ReissueAssumption DEF RequestType, ReissueRequestPoints
  <2> QED BY <1>1, <2>1, RequestEffect DEF Ask, MayReissue
<1>2. CASE RequestReissue(o)
  BY <1>1, <1>2 DEF RequestReissue
<1>3. CASE RequestRenewal(o)
  <2>1. PICK e \in Expiries : Ask(o, [tier |-> customer.license.tier, expires |-> e], TRUE)
    BY <1>3 DEF RequestRenewal
  <2>2. [tier |-> customer.license.tier, expires |-> e] \in License
    BY DEF ReissueInv, ReissueTypeOK, License
  <2>3. PICK l \in License : l = [tier |-> customer.license.tier, expires |-> e]
    BY <2>2
  <2> QED BY <1>1, <1>3, <2>1, <2>3 DEF RequestRenewal
<1>4. CASE OwnerRequestFails(o)
  BY <1>4, NoRequestType, RequestEffect DEF OwnerRequestFails
<1> QED BY <1>2, <1>3, <1>4

\* The insert of a row: it is the last one now.
LEMMA CreateKeepsInv ==
  ASSUME OneAtATime, ReissueInv, NEW o \in Owners, CreateReissue(o)
  PROVE  ReissueInv'
<1> DEFINE x == request[o]
<1>1. PICK r \in Rows \ Created :
        /\ \A s \in Rows \ Created : r <= s
        /\ reissues' = [reissues EXCEPT ![r] = [status |-> "pending", wanted |-> x.wanted,
                                               renewal |-> x.renewal, jwt |-> NoJwt]]
        /\ request' = [request EXCEPT ![o] = [x EXCEPT !.pc = "mark", !.row = r]]
  BY DEF CreateReissue
<1>2. /\ x.pc = "create" /\ x \in RequestType /\ x.wanted \in License
      /\ UNCHANGED <<customer, queued, worker, instance, inHand>>
      /\ customer.reissue # "in_progress" /\ \A s \in Rows : ~Active(s)
  BY DEF CreateReissue, ReissueInv, ReissueTypeOK, RequestType, OwnerRequestIsSound
<1>3. /\ reissues \in [Rows -> ReissueRow] /\ reissues' \in [Rows -> ReissueRow]
      /\ reissues'[r].status = "pending" /\ reissues'[r].wanted \in License
      /\ \A s \in Rows \ {r} : reissues'[s] = reissues[s]
  <2>1. [status |-> "pending", wanted |-> x.wanted, renewal |-> x.renewal, jwt |-> NoJwt]
          \in ReissueRow
    BY <1>2 DEF ReissueRow, RequestType
  <2> QED BY <1>1, <1>2, <2>1 DEF ReissueInv, ReissueTypeOK
<1>4. Created' = Created \cup {r}
  BY <1>3 DEF Created
<1>5. \A s \in Created : s < r
  <2> SUFFICES ASSUME NEW s \in Created PROVE s < r
    OBVIOUS
  <2>1. s \in Rows /\ r \in Rows /\ s \in Nat /\ r \in Nat /\ s # r
    BY ReissueAssumption DEF Created, Rows
  <2>2. ~(r < s)
    BY <1>1, <2>1 DEF ReissueInv
  <2> QED BY <2>1, <2>2
<1>6. \A s \in Rows : Latest(s)' <=> s = r
  <2>1. \A s \in Rows : s \in Nat
    BY ReissueAssumption DEF Rows
  <2>2. Created \subseteq Rows
    BY DEF Created
  <2> QED BY <1>4, <1>5, <2>1, <2>2 DEF Latest
<1>7. \A s \in Created', t \in Rows : t < s => t \in Created'
  <2>1. \A t \in Rows : t < r => t \in Created
    BY <1>1, ReissueAssumption DEF Rows
  <2> QED BY <1>4, <2>1 DEF ReissueInv
<1>8. PICK y \in RequestType : /\ y.pc = "mark" /\ y.row = r /\ request' = [request EXCEPT ![o] = y]
  <2>1. [x EXCEPT !.pc = "mark", !.row = r] \in RequestType
    <3>1. r \in 0..MaxReissues /\ "mark" \in ReissueRequestPoints
      BY ReissueAssumption DEF Rows, ReissueRequestPoints
    <3>2. \A q \in RequestType, n \in 0..MaxReissues, pc \in ReissueRequestPoints :
            [q EXCEPT !.pc = pc, !.row = n] \in RequestType
      BY DEF RequestType
    <3> QED BY <1>2, <3>1, <3>2
  <2> QED BY <1>1, <1>2, <2>1 DEF RequestType
<1>9. ReissueTypeOK'
  BY <1>2, <1>3, <1>8 DEF ReissueInv, ReissueTypeOK, RequestType
<1>10. ASSUME NEW s \in Rows PROVE RowIsSound(s)'
  <2>1. RowIsSound(s) /\ ~Active(s)
    BY <1>2 DEF ReissueInv
  <2>2. s \in Created' => reissues'[s].wanted \in License
    BY <1>3, <1>4, <2>1 DEF RowIsSound
  <2> QED BY <1>2, <2>1, <2>2 DEF RowIsSound, Active
<1>11. ASSUME NEW p \in Owners PROVE OwnerRequestIsSound(p)'
  <2>1. p = o
    BY DEF OneAtATime
  <2>2. request'[p] = y
    BY <1>8, <2>1 DEF ReissueInv, ReissueTypeOK
  <2>3. r \notin inHand
    BY DEF ReissueInv
  <2> QED BY <1>2, <1>3, <1>6, <1>8, <2>2, <2>3 DEF OwnerRequestIsSound, Active
<1>12. IdleIsSound'
  <2>1. r \notin inHand
    BY DEF ReissueInv
  <2> QED BY <1>2, <1>3, <1>6, <2>1 DEF ReissueInv, IdleIsSound
<1> QED BY <1>2, <1>4, <1>7, <1>9, <1>10, <1>11, <1>12 DEF ReissueInv

\* The mark of the customer and the job's insert: no job is alive before.
LEMMA HandOverKeepsInv ==
  ASSUME OneAtATime, ReissueInv, NEW o \in Owners, MarkInProgress(o) \/ SendReissueJob(o)
  PROVE  ReissueInv'
<1>1. /\ request[o].pc \in {"mark", "send"} /\ OwnerRequestIsSound(o) /\ ReissueTypeOK
      /\ request[o] \in RequestType /\ \A p \in Owners : p = o
      /\ UNCHANGED <<reissues, worker, instance, inHand>>
  BY DEF ReissueInv, ReissueTypeOK, RequestType, MarkInProgress, SendReissueJob, OneAtATime
<1>2. /\ \A s \in Rows : ~Active(s) /\ (s \in Created => reissues[s].wanted \in License)
      /\ Created' = Created
  BY <1>1 DEF OwnerRequestIsSound, ReissueInv, RowIsSound, Created
<1>3. PICK r \in Rows : /\ r = request[o].row /\ Latest(r) /\ Latest(r)' /\ r \notin inHand
                        /\ reissues[r].status = "pending"
  BY <1>1, <1>2 DEF OwnerRequestIsSound, Latest
<1>4. CASE MarkInProgress(o)
  <2>1. PICK x \in RequestType : /\ x.pc = "send" /\ x.row = r
                                 /\ request' = [request EXCEPT ![o] = x]
    <3>1. [request[o] EXCEPT !.pc = "send"] \in RequestType
      BY <1>1 DEF RequestType, ReissueRequestPoints
    <3> QED BY <1>1, <1>3, <1>4, <3>1 DEF MarkInProgress, RequestType
  <2>2. /\ customer' \in [active : BOOLEAN, reissue : {"idle", "in_progress", "failed"},
                          license : License]
        /\ customer'.reissue = "in_progress" /\ queued' = queued
    BY <1>1, <1>4 DEF MarkInProgress, ReissueTypeOK
  <2>3. ReissueTypeOK' /\ request'[o] = x
    BY <1>1, <2>1, <2>2 DEF ReissueTypeOK, RequestType
  <2>4. \A s \in Rows : RowIsSound(s)'
    BY <1>1, <1>2, <2>2 DEF RowIsSound, Active
  <2>5. \A p \in Owners : OwnerRequestIsSound(p)'
    BY <1>1, <1>2, <1>3, <2>1, <2>2, <2>3 DEF OwnerRequestIsSound, Active
  <2> QED BY <1>1, <1>2, <2>2, <2>3, <2>4, <2>5 DEF ReissueInv, IdleIsSound
<1>5. CASE SendReissueJob(o)
  <2>1. /\ queued' = queued \cup {r} /\ customer' = customer /\ customer.reissue = "in_progress"
        /\ request' = [request EXCEPT ![o] = NoRequest]
    BY <1>1, <1>3, <1>5 DEF SendReissueJob, OwnerRequestIsSound
  <2>2. ReissueTypeOK' /\ \A p \in Owners : request'[p].pc = "idle"
    BY <1>1, <2>1, NoRequestType DEF ReissueTypeOK, RequestType
  <2>3. ASSUME NEW s \in Rows PROVE RowIsSound(s)'
    BY <1>1, <1>2, <1>3, <2>1, <2>2 DEF RowIsSound, Active
  <2> QED BY <1>1, <1>2, <2>1, <2>2, <2>3 DEF ReissueInv, OwnerRequestIsSound, IdleIsSound
<1> QED BY <1>1, <1>4, <1>5

\* The download of a failed re-issue's JWT and its installation by hand.
LEMMA ByHandKeepsInv ==
  ASSUME ReissueInv, NEW r \in Rows, DownloadJwt(r) \/ InstallByHand(r)
  PROVE  ReissueInv'
<1>1. /\ ReissueTypeOK /\ Latest(r) /\ r \in Created /\ RowIsSound(r)
      /\ reissues[r] \in ReissueRow /\ UNCHANGED <<customer, request, queued, worker>>
  BY DEF DownloadJwt, InstallByHand, Latest, ReissueInv, ReissueTypeOK
<1>2. CASE DownloadJwt(r)
  <2>1. PICK row \in ReissueRow : /\ row.status = "failed" /\ row.wanted = reissues[r].wanted
                                  /\ reissues' = [reissues EXCEPT ![r] = row]
    <3>1. [reissues[r] EXCEPT !.jwt = NoJwt] \in ReissueRow
      BY <1>1 DEF ReissueRow
    <3> QED BY <1>1, <1>2, <3>1 DEF DownloadJwt, ReissueRow
  <2>2. /\ inHand' = inHand \cup {r} /\ instance' = instance /\ reissues[r].status = "failed"
    BY <1>2 DEF DownloadJwt
  <2>3. /\ \A s \in Rows : /\ reissues'[s].status = reissues[s].status
                           /\ reissues'[s].wanted = reissues[s].wanted
        /\ Created' = Created
    BY <1>1, <2>1, <2>2 DEF ReissueTypeOK, Created
  <2>4. \A s \in Rows : Latest(s)' <=> Latest(s)
    BY <2>3 DEF Latest
  <2>5. ReissueTypeOK'
    BY <1>1, <2>1, <2>2 DEF ReissueTypeOK
  <2>6. ASSUME NEW s \in Rows PROVE RowIsSound(s)'
    <3>1. RowIsSound(s)
      BY DEF ReissueInv
    <3>2. Active(r) => worker[r] = "tellFailed"
      BY <1>1, <2>2 DEF RowIsSound
    <3> QED BY <1>1, <2>2, <2>3, <2>4, <3>1, <3>2 DEF RowIsSound, Active
  <2>7. ASSUME NEW p \in Owners PROVE OwnerRequestIsSound(p)'
    <3>1. OwnerRequestIsSound(p)
      BY DEF ReissueInv
    <3> QED BY <1>1, <2>2, <2>3, <2>4, <3>1 DEF OwnerRequestIsSound, Active
  <2>8. IdleIsSound'
    BY <1>1, <2>2 DEF IdleIsSound, ReissueInv
  <2> QED BY <1>1, <2>2, <2>3, <2>5, <2>6, <2>7, <2>8 DEF ReissueInv
<1>3. CASE InstallByHand(r)
  <2>1. /\ r \in inHand /\ inHand' = inHand \ {r} /\ reissues' = reissues
        /\ instance' = [file |-> reissues[r].wanted, runs |-> reissues[r].wanted]
        /\ reissues[r].wanted \in License
    BY <1>1, <1>3 DEF InstallByHand, RowIsSound
  <2>2. Created' = Created
    BY <2>1 DEF Created
  <2>3. \A s \in Rows : Latest(s)' <=> Latest(s)
    BY <2>2 DEF Latest
  <2>4. ReissueTypeOK'
    BY <1>1, <2>1 DEF ReissueTypeOK
  <2>5. ASSUME NEW s \in Rows PROVE RowIsSound(s)'
    <3>1. RowIsSound(s)
      BY DEF ReissueInv
    <3>2. Active(s) => s = r
      BY <1>1, <3>1, ReissueAssumption DEF RowIsSound, Latest, Rows, Created
    <3>3. Active(s) => worker[s] = "tellFailed"
      BY <2>1, <3>1, <3>2 DEF RowIsSound
    <3>4. worker[s] # "idle" => Active(s)
      BY DEF Active
    <3> QED BY <1>1, <2>1, <2>2, <2>3, <3>1, <3>3, <3>4 DEF RowIsSound, Active
  <2>6. ASSUME NEW p \in Owners PROVE OwnerRequestIsSound(p)'
    <3>1. OwnerRequestIsSound(p)
      BY DEF ReissueInv
    <3> QED BY <1>1, <2>1, <2>3, <3>1 DEF OwnerRequestIsSound, Active
  <2>7. IdleIsSound'
    BY <1>1, <2>1 DEF IdleIsSound, ReissueInv
  <2> QED BY <1>1, <2>1, <2>2, <2>4, <2>5, <2>6, <2>7 DEF ReissueInv
<1> QED BY <1>2, <1>3

\* The instance is deprovisioned: its licence and re-issue stay.
LEMMA LeavingKeepsInv == ReissueInv /\ CustomerLeaves => ReissueInv'
<1> SUFFICES ASSUME ReissueInv, CustomerLeaves PROVE ReissueInv'
  OBVIOUS
<1>1. /\ customer' \in [active : BOOLEAN, reissue : {"idle", "in_progress", "failed"},
                        license : License]
      /\ customer'.reissue = customer.reissue /\ customer'.license = customer.license
      /\ UNCHANGED <<reissues, request, queued, worker, instance, inHand>>
  BY DEF CustomerLeaves, ReissueInv, ReissueTypeOK
<1>2. Created' = Created
  BY <1>1 DEF Created
<1>3. \A s \in Rows : (Latest(s)' <=> Latest(s)) /\ (Active(s)' <=> Active(s))
  BY <1>1, <1>2 DEF Latest, Active
<1>4. \A s \in Rows : RowIsSound(s)'
  BY <1>1, <1>2, <1>3 DEF RowIsSound, ReissueInv
<1>5. \A p \in Owners : OwnerRequestIsSound(p)'
  BY <1>1, <1>3 DEF OwnerRequestIsSound, ReissueInv
<1> QED BY <1>1, <1>2, <1>3, <1>4, <1>5 DEF ReissueInv, ReissueTypeOK, IdleIsSound

-----------------------------------------------------------------------------
\* The invariant holds at the start: nothing was re-issued.
LEMMA ReissueInitOK == ReissueInit => ReissueInv
<1> SUFFICES ASSUME ReissueInit PROVE ReissueInv
  OBVIOUS
<1>1. PICK l \in License : /\ customer = [active |-> TRUE, reissue |-> "idle", license |-> l]
                           /\ instance = [file |-> l, runs |-> l]
  BY DEF ReissueInit
<1>2. /\ request = [o \in Owners |-> NoRequest] /\ queued = {} /\ inHand = {}
      /\ worker = [r \in Rows |-> "idle"]
      /\ reissues = [r \in Rows |-> [status |-> "none", wanted |-> NoJwt,
                                    renewal |-> FALSE, jwt |-> NoJwt]]
  BY DEF ReissueInit
<1>3. Created = {} /\ \A r \in Rows : ~Active(r)
  BY <1>2 DEF Created, Active
<1>4. ReissueTypeOK
  <2>1. reissues \in [Rows -> ReissueRow]
    BY <1>2 DEF ReissueRow
  <2>2. request \in [Owners -> RequestType]
    BY <1>2, NoRequestType
  <2> QED BY <1>1, <1>2, <2>1, <2>2 DEF ReissueTypeOK, RequestType, ReissuePoints
<1>5. \A r \in Rows : RowIsSound(r)
  BY <1>2, <1>3 DEF RowIsSound
<1>6. \A o \in Owners : OwnerRequestIsSound(o)
  BY <1>2, NoRequestType DEF OwnerRequestIsSound
<1>7. IdleIsSound
  BY <1>1, <1>3 DEF IdleIsSound, Latest
<1> QED BY <1>2, <1>3, <1>4, <1>5, <1>6, <1>7 DEF ReissueInv

\* Every step keeps the invariant.
LEMMA ReissueStepOK == OneAtATime /\ ReissueInv /\ [ReissueNext]_reissueVars => ReissueInv'
<1> SUFFICES ASSUME OneAtATime, ReissueInv, [ReissueNext]_reissueVars PROVE ReissueInv'
  OBVIOUS
<1>1. ASSUME NEW o \in Owners,
             \/ RequestReissue(o) \/ RequestRenewal(o) \/ CreateReissue(o)
             \/ MarkInProgress(o) \/ SendReissueJob(o) \/ OwnerRequestFails(o)
      PROVE  ReissueInv'
  BY <1>1, RequestKeepsInv, CreateKeepsInv, HandOverKeepsInv
<1>2. ASSUME NEW r \in Rows, WorkerStep(r) \/ DownloadJwt(r) \/ InstallByHand(r)
      PROVE  ReissueInv'
  BY <1>2, WorkerStepsKeepInv, InstanceStepsKeepInv, RecordKeepsInv, ByHandKeepsInv
     DEF WorkerStep
<1>3. CASE UNCHANGED reissueVars
  <2>1. /\ UNCHANGED <<customer, reissues, request, queued, worker, instance, inHand>>
        /\ Created' = Created
    BY <1>3 DEF reissueVars, Created
  <2>2. \A r \in Rows : (Latest(r)' <=> Latest(r)) /\ (Active(r)' <=> Active(r))
    BY <2>1 DEF Latest, Active
  <2>3. \A r \in Rows : RowIsSound(r)'
    BY <2>1, <2>2 DEF RowIsSound, ReissueInv
  <2>4. \A o \in Owners : OwnerRequestIsSound(o)'
    BY <2>1, <2>2 DEF OwnerRequestIsSound, ReissueInv
  <2> QED BY <2>1, <2>2, <2>3, <2>4 DEF ReissueInv, ReissueTypeOK, IdleIsSound
<1> QED BY <1>1, <1>2, <1>3, LeavingKeepsInv DEF ReissueNext

\* With one owner request at a time, as long as no re-issue runs or has failed
\* the fleet table shows the licence the instance runs with.
THEOREM IdleTellsInstanceHolds ==
  ASSUME OneAtATime
  PROVE  ReissueSpec => []IdleTellsInstance
<1>1. ReissueInv /\ [ReissueNext]_reissueVars => ReissueInv'
  BY ReissueStepOK
<1>2. ReissueInv => IdleTellsInstance
  BY DEF ReissueInv, IdleIsSound, IdleTellsInstance
<1> QED BY <1>1, <1>2, ReissueInitOK, PTL DEF ReissueSpec

-----------------------------------------------------------------------------
(* The types, however many requests of the owner overlap: what a job       *)
(* carries is a licence, because a row is stored before its job exists.    *)

RowsHaveLicense ==
  /\ ReissueTypeOK
  /\ queued \subseteq Created /\ inHand \subseteq Created
  /\ \A r \in Created : reissues[r].wanted \in License
  /\ \A r \in Rows : worker[r] # "idle" => r \in Created
  /\ \A o \in Owners : /\ request[o].pc = "create" => request[o].wanted \in License
                       /\ request[o].pc \in {"mark", "send"} => request[o].row \in Created

\* A request in the types of the owner API.
LEMMA AskedLicense ==
  ASSUME RowsHaveLicense, NEW o \in Owners, NEW l \in License, NEW renewal \in BOOLEAN,
         Ask(o, l, renewal)
  PROVE  RowsHaveLicense'
<1> DEFINE x == [pc |-> "create", wanted |-> l, renewal |-> renewal, row |-> 0]
<1>1. x \in RequestType
  BY ReissueAssumption DEF RequestType, ReissueRequestPoints
<1>2. request' = [request EXCEPT ![o] = x] /\ request' \in [Owners -> RequestType]
  BY <1>1 DEF Ask, RowsHaveLicense, ReissueTypeOK, RequestType
<1> QED BY <1>2 DEF Ask, RowsHaveLicense, ReissueTypeOK, RequestType, Created

\* The requests of the owner.
LEMMA RequestsKeepLicense ==
  ASSUME RowsHaveLicense, NEW o \in Owners,
         \/ RequestReissue(o) \/ RequestRenewal(o) \/ CreateReissue(o)
         \/ MarkInProgress(o) \/ SendReissueJob(o) \/ OwnerRequestFails(o)
  PROVE  RowsHaveLicense'
<1>1. CASE RequestReissue(o)
  BY <1>1, AskedLicense DEF RequestReissue
<1>2. CASE RequestRenewal(o)
  <2>1. PICK e \in Expiries : Ask(o, [tier |-> customer.license.tier, expires |-> e], TRUE)
    BY <1>2 DEF RequestRenewal
  <2>2. [tier |-> customer.license.tier, expires |-> e] \in License
    BY DEF RowsHaveLicense, ReissueTypeOK, License
  <2> QED BY <2>1, <2>2, AskedLicense
<1>3. CASE CreateReissue(o)
  <2> DEFINE x == request[o]
  <2>1. PICK r \in Rows \ Created :
          /\ reissues' = [reissues EXCEPT ![r] = [status |-> "pending", wanted |-> x.wanted,
                                                 renewal |-> x.renewal, jwt |-> NoJwt]]
          /\ request' = [request EXCEPT ![o] = [x EXCEPT !.pc = "mark", !.row = r]]
    BY <1>3 DEF CreateReissue
  <2>2. x \in RequestType /\ x.wanted \in License /\ r \in 0..MaxReissues
    <3>1. x \in RequestType /\ x.pc = "create"
      BY <1>3 DEF CreateReissue, RowsHaveLicense, ReissueTypeOK, RequestType
    <3>2. r \in 0..MaxReissues
      BY ReissueAssumption DEF Rows
    <3> QED BY <3>1, <3>2 DEF RowsHaveLicense
  <2>3. [x EXCEPT !.pc = "mark", !.row = r] \in RequestType
    BY <2>2 DEF RequestType, ReissueRequestPoints
  <2>4. request' \in [Owners -> RequestType] /\ reissues' \in [Rows -> ReissueRow]
    BY <2>1, <2>2, <2>3 DEF RowsHaveLicense, ReissueTypeOK, RequestType, ReissueRow
  <2>5. Created' = Created \cup {r} /\ reissues'[r].wanted \in License
        /\ \A s \in Created : reissues'[s] = reissues[s]
    BY <2>1, <2>2 DEF RowsHaveLicense, ReissueTypeOK, Created
  <2>6. UNCHANGED <<customer, queued, worker, instance, inHand>>
    BY <1>3 DEF CreateReissue
  <2>7. \A p \in Owners : /\ request'[p].pc = "create" => request'[p].wanted \in License
                          /\ request'[p].pc \in {"mark", "send"} => request'[p].row \in Created'
    BY <2>1, <2>2, <2>5 DEF RowsHaveLicense, ReissueTypeOK, RequestType
  <2>8. ReissueTypeOK'
    BY <2>4, <2>6 DEF RowsHaveLicense, ReissueTypeOK, RequestType
  <2> QED BY <2>5, <2>6, <2>7, <2>8 DEF RowsHaveLicense
<1>4. CASE MarkInProgress(o) \/ SendReissueJob(o) \/ OwnerRequestFails(o)
  <2>1. PICK x \in RequestType :
          /\ request' = [request EXCEPT ![o] = x]
          /\ x.pc \in {"idle", "send"} /\ (x.pc = "send" => x.row \in Created)
    <3>1. CASE MarkInProgress(o)
      <4>1. [request[o] EXCEPT !.pc = "send"] \in RequestType
        BY DEF RowsHaveLicense, ReissueTypeOK, RequestType, ReissueRequestPoints
      <4>2. request[o].row \in Created
        BY <3>1 DEF MarkInProgress, RowsHaveLicense
      <4> QED BY <3>1, <4>1, <4>2 DEF MarkInProgress, RequestType
    <3>2. CASE SendReissueJob(o) \/ OwnerRequestFails(o)
      BY <3>2, NoRequestType DEF SendReissueJob, OwnerRequestFails
    <3> QED BY <1>4, <3>1, <3>2
  <2>2. request' \in [Owners -> RequestType]
    BY <2>1 DEF RowsHaveLicense, ReissueTypeOK, RequestType
  <2>3. UNCHANGED <<reissues, worker, instance, inHand>> /\ Created' = Created
    BY <1>4 DEF MarkInProgress, SendReissueJob, OwnerRequestFails, Created
  <2>4. queued' \subseteq Created /\ Created \subseteq Rows
    BY <1>4 DEF MarkInProgress, SendReissueJob, OwnerRequestFails, RowsHaveLicense, Created
  <2>5. customer' \in [active : BOOLEAN, reissue : {"idle", "in_progress", "failed"},
                       license : License]
    BY <1>4 DEF MarkInProgress, SendReissueJob, OwnerRequestFails, RowsHaveLicense, ReissueTypeOK
  <2>6. \A p \in Owners : /\ request'[p].pc = "create" => request'[p].wanted \in License
                          /\ request'[p].pc \in {"mark", "send"} => request'[p].row \in Created'
    BY <2>1, <2>3 DEF RowsHaveLicense, ReissueTypeOK, RequestType
  <2>7. ReissueTypeOK'
    BY <2>2, <2>3, <2>4, <2>5 DEF RowsHaveLicense, ReissueTypeOK, RequestType
  <2> QED BY <2>3, <2>4, <2>6, <2>7 DEF RowsHaveLicense
<1> QED BY <1>1, <1>2, <1>3, <1>4

\* The jobs, and what the owner does by hand.
LEMMA RowsKeepLicense ==
  ASSUME RowsHaveLicense, NEW r \in Rows, WorkerStep(r) \/ DownloadJwt(r) \/ InstallByHand(r)
  PROVE  RowsHaveLicense'
<1>0. /\ ReissueTypeOK /\ Created \subseteq Rows /\ queued \subseteq Created
      /\ inHand \subseteq Created
  BY DEF RowsHaveLicense, Created
<1>1. r \in Created /\ reissues[r].wanted \in License
  BY DEF WorkerStep, TakeJob, LoadCustomer, SignJwt, StoreJwt, WriteLicenseFile, RestartApi,
         PollTier, CompleteReissue, RecordLicense, FailReissue, RecordFailure, WorkerThrows,
         WorkerAt, DownloadJwt, InstallByHand, Latest, RowsHaveLicense
<1>2. /\ \/ worker' = worker
         \/ \E p \in ReissuePoints : worker' = [worker EXCEPT ![r] = p]
      /\ queued' \subseteq queued /\ request' = request
      /\ inHand' \subseteq inHand \cup {r}
  BY DEF WorkerStep, TakeJob, LoadCustomer, SignJwt, StoreJwt, WriteLicenseFile, RestartApi,
         PollTier, CompleteReissue, RecordLicense, FailReissue, RecordFailure, WorkerThrows,
         WorkerGoes, WorkerGoesOnOrFails, DownloadJwt, InstallByHand, ReissuePoints
<1>3. \/ reissues' = reissues
      \/ \E s \in {"none", "pending", "complete", "failed"}, j \in License \cup {NoJwt} :
           /\ reissues' = [reissues EXCEPT ![r] = [@ EXCEPT !.status = s, !.jwt = j]]
           /\ s # "none"
  <2>1. reissues[r] \in ReissueRow /\ reissues[r].status # "none"
    BY <1>0, <1>1 DEF ReissueTypeOK, Created
  <2>2. CASE StoreJwt(r)
    <3>1. reissues' = [reissues EXCEPT ![r] = [@ EXCEPT !.status = reissues[r].status,
                                                        !.jwt = reissues[r].wanted]]
      BY <1>0, <2>1, <2>2 DEF StoreJwt, ReissueRow, ReissueTypeOK
    <3> QED BY <1>1, <2>1, <3>1 DEF ReissueRow
  <2>3. CASE CompleteReissue(r)
    BY <2>3 DEF CompleteReissue
  <2>4. CASE FailReissue(r)
    <3>1. reissues' = [reissues EXCEPT ![r] = [@ EXCEPT !.status = "failed",
                                                        !.jwt = reissues[r].jwt]]
      BY <1>0, <2>1, <2>4 DEF FailReissue, ReissueRow, ReissueTypeOK
    <3> QED BY <2>1, <3>1 DEF ReissueRow
  <2>5. CASE DownloadJwt(r)
    <3>1. reissues' = [reissues EXCEPT ![r] = [@ EXCEPT !.status = reissues[r].status,
                                                        !.jwt = NoJwt]]
      BY <1>0, <2>1, <2>5 DEF DownloadJwt, ReissueRow, ReissueTypeOK
    <3> QED BY <2>1, <3>1 DEF ReissueRow
  <2> QED BY <2>2, <2>3, <2>4, <2>5 DEF WorkerStep, TakeJob, LoadCustomer, SignJwt,
             WriteLicenseFile, RestartApi, PollTier, RecordLicense, RecordFailure, WorkerThrows,
             InstallByHand
<1>4. /\ customer' \in [active : BOOLEAN, reissue : {"idle", "in_progress", "failed"},
                        license : License]
      /\ instance' \in [file : License, runs : License]
  <2>1. CASE WriteLicenseFile(r) \/ RestartApi(r) \/ InstallByHand(r)
    BY <1>0, <1>1, <2>1 DEF WriteLicenseFile, RestartApi, InstallByHand, ReissueTypeOK
  <2>2. CASE RecordLicense(r) \/ RecordFailure(r)
    BY <1>0, <1>1, <2>2 DEF RecordLicense, RecordFailure, ReissueTypeOK
  <2>3. CASE \/ TakeJob(r) \/ LoadCustomer(r) \/ SignJwt(r) \/ StoreJwt(r) \/ PollTier(r)
             \/ CompleteReissue(r) \/ FailReissue(r) \/ WorkerThrows(r) \/ DownloadJwt(r)
    BY <1>0, <2>3 DEF TakeJob, LoadCustomer, SignJwt, StoreJwt, PollTier, CompleteReissue,
           FailReissue, WorkerThrows, DownloadJwt, ReissueTypeOK
  <2> QED BY <2>1, <2>2, <2>3 DEF WorkerStep
<1>5. /\ reissues' \in [Rows -> ReissueRow] /\ Created' = Created
      /\ \A s \in Rows : reissues'[s].wanted = reissues[s].wanted
  <2>1. CASE reissues' = reissues
    BY <1>0, <2>1 DEF ReissueTypeOK, Created
  <2>2. CASE reissues' # reissues
    <3>1. PICK s \in {"none", "pending", "complete", "failed"}, j \in License \cup {NoJwt} :
            /\ reissues' = [reissues EXCEPT ![r] = [@ EXCEPT !.status = s, !.jwt = j]]
            /\ s # "none"
      BY <1>3, <2>2
    <3> DEFINE y == [reissues[r] EXCEPT !.status = s, !.jwt = j]
    <3>2. reissues \in [Rows -> ReissueRow] /\ reissues' = [reissues EXCEPT ![r] = y]
      BY <1>0, <3>1 DEF ReissueTypeOK
    <3>3. y \in ReissueRow /\ y.status = s /\ y.wanted = reissues[r].wanted
      BY <3>2 DEF ReissueRow
    <3> HIDE DEF y
    <3>4. reissues' \in [Rows -> ReissueRow] /\ reissues'[r] = y
          /\ \A q \in Rows : q # r => reissues'[q] = reissues[q]
      BY <3>2, <3>3
    <3>5. Created' = Created
      BY <1>1, <3>1, <3>3, <3>4 DEF Created
    <3> QED BY <3>3, <3>4, <3>5
  <2> QED BY <2>1, <2>2
<1>6. worker' \in [Rows -> ReissuePoints] /\ \A s \in Rows : worker'[s] # "idle" => s \in Created
  BY <1>1, <1>2 DEF RowsHaveLicense, ReissueTypeOK
<1>7. ReissueTypeOK'
  BY <1>0, <1>1, <1>2, <1>4, <1>5, <1>6 DEF ReissueTypeOK
<1> QED BY <1>0, <1>1, <1>2, <1>5, <1>6, <1>7 DEF RowsHaveLicense

\* The rows of the re-issue have their types, without the assumption that requests
\* come one at a time: a licence is signed, written and recorded from a row that
\* names one (executeLicenseReissue()).
THEOREM ReissueTypeCorrect == ReissueSpec => []ReissueTypeOK
<1>1. ReissueInit => RowsHaveLicense
  <2> SUFFICES ASSUME ReissueInit PROVE RowsHaveLicense
    OBVIOUS
  <2>1. Created = {} /\ reissues \in [Rows -> ReissueRow]
    BY DEF ReissueInit, Created, ReissueRow
  <2>2. ReissueTypeOK
    <3>1. request \in [Owners -> RequestType] /\ worker \in [Rows -> ReissuePoints]
      BY NoRequestType DEF ReissueInit, ReissuePoints
    <3>2. /\ customer \in [active : BOOLEAN, reissue : {"idle", "in_progress", "failed"},
                           license : License]
          /\ instance \in [file : License, runs : License]
          /\ queued \subseteq Rows /\ inHand \subseteq Rows
      BY DEF ReissueInit
    <3> QED BY <2>1, <3>1, <3>2 DEF ReissueTypeOK, RequestType
  <2> QED BY <2>1, <2>2, NoRequestType DEF ReissueInit, RowsHaveLicense
<1>2. RowsHaveLicense /\ [ReissueNext]_reissueVars => RowsHaveLicense'
  <2> SUFFICES ASSUME RowsHaveLicense, [ReissueNext]_reissueVars PROVE RowsHaveLicense'
    OBVIOUS
  <2>1. CASE CustomerLeaves
    BY <2>1 DEF CustomerLeaves, RowsHaveLicense, ReissueTypeOK, Created
  <2>2. CASE UNCHANGED reissueVars
    BY <2>2 DEF reissueVars, RowsHaveLicense, ReissueTypeOK, Created
  <2> QED BY <2>1, <2>2, RequestsKeepLicense, RowsKeepLicense DEF ReissueNext
<1>3. RowsHaveLicense => ReissueTypeOK
  BY DEF RowsHaveLicense
<1> QED BY <1>1, <1>2, <1>3, PTL DEF ReissueSpec

-----------------------------------------------------------------------------
(* Health.                                                                 *)

\* Unless a result was not stored, the row is no older than the silence, and one
\* that says unreachable stands for a check that found it so.
HealthInv ==
  /\ health \in [status : Answers \cup {"none"}, age : 0..MaxAge]
  /\ reachable \in Answers /\ silent \in 0..MaxAge /\ failures \in 0..2
  /\ "result" \notin missed =>
       /\ health.age <= silent
       /\ health.status = "unreachable" => failures >= 1
  /\ AlertIsTrue

\* Every step keeps the invariant of the health check.
LEMMA HealthStepOK == HealthInv /\ [HealthNext]_healthVars => HealthInv'
<1> SUFFICES ASSUME HealthInv, [HealthNext]_healthVars PROVE HealthInv'
  OBVIOUS
<1>1. CASE CheckInstanceHealth
  <2>1. PICK kept \in BOOLEAN :
          /\ health' = IF kept THEN [status |-> reachable, age |-> 0] ELSE health
          /\ missed' = (IF kept /\ reachable # "unreachable" THEN {} ELSE missed)
                         \cup (IF kept THEN {} ELSE {"result"})
    BY <1>1 DEF CheckInstanceHealth
  <2>2. /\ silent' = IF reachable = "unreachable" THEN silent ELSE 0
        /\ failures' = IF reachable # "unreachable" THEN 0
                       ELSE IF failures = 2 THEN 2 ELSE failures + 1
        /\ alert' = AlertIsSent(reachable) /\ reachable' = reachable
    BY <1>1 DEF CheckInstanceHealth
  <2>3. CASE kept
    BY <2>1, <2>2, <2>3, HealthAssumption DEF HealthInv, AlertIsTrue, AlertIsSent, Answers
  <2>4. CASE ~kept
    BY <2>1, <2>2, <2>4, HealthAssumption DEF HealthInv, AlertIsTrue, Answers
  <2> QED BY <2>3, <2>4
<1>2. CASE CheckIsMissed
  BY <1>2 DEF CheckIsMissed, HealthInv, AlertIsTrue
<1>3. CASE InstanceChanges
  BY <1>3 DEF InstanceChanges, HealthInv, AlertIsTrue
<1>4. CASE PeriodPasses
  BY <1>4, HealthAssumption DEF PeriodPasses, HealthInv, AlertIsTrue, Older
<1>5. CASE UNCHANGED healthVars
  BY <1>5 DEF healthVars, HealthInv, AlertIsTrue
<1> QED BY <1>1, <1>2, <1>3, <1>4, <1>5 DEF HealthNext

\* An alert is about an instance that two checks found unreachable, more than the
\* threshold after its last answer, unless a result could not be stored.
THEOREM AlertIsTrueHolds == HealthSpec => []AlertIsTrue
<1>1. HealthInit => HealthInv
  BY HealthAssumption DEF HealthInit, HealthInv, AlertIsTrue, Answers
<1>2. HealthInv => AlertIsTrue
  BY DEF HealthInv
<1> QED BY <1>1, <1>2, HealthStepOK, PTL DEF HealthSpec
-----------------------------------------------------------------------------
(* All parts together.                                                     *)

\* What a behaviour is about takes a step of its own, and every other part stays as
\* it is.
LEMMA StepsAreOfParts ==
  ASSUME [ServicesNext]_servicesVars
  PROVE  /\ [FrontlineNext]_frontlineVars /\ [IngressNext]_ingressVars
         /\ [ReissueNext]_reissueVars /\ [HealthNext]_healthVars
         /\ [KnowledgeNext]_knowledgeVars /\ [PermissionsNext]_permissionVars
         /\ [AgentRunsNext]_agentVars /\ [RetentionNext]_retentionVars
         /\ [SettingsNext]_settingsVars /\ [NotificationsNext]_notificationsVars
         /\ [ChatNext]_chatVars
<1>1. CASE UNCHANGED servicesVars
  BY <1>1 DEF servicesVars
<1>2. CASE ServicesNext
  <2>1. OthersStay
    BY <1>2 DEF ServicesNext
  <2>2. /\ part = "frontline" => FrontlineNext
        /\ part = "reissue" => ReissueNext
        /\ part = "health" => HealthNext
        /\ part = "knowledge" => KnowledgeNext
        /\ part = "permissions" => PermissionsNext
        /\ part = "agents" => AgentRunsNext
        /\ part = "retention" => RetentionNext
        /\ part = "settings" => SettingsNext
        /\ part = "notifications" => NotificationsNext
    BY <1>2 DEF ServicesNext, Together
  <2>3. part \in DOMAIN Together => IngressNext
    BY <1>2 DEF ServicesNext, IngressPart, Together
  <2>4. part \in {"chatPage", "chatReplies"} => ChatNext
    BY <1>2 DEF ServicesNext, ChatPart, Together
  <2> QED BY <2>1, <2>2, <2>3, <2>4 DEF OthersStay
<1> QED BY <1>1, <1>2

\* The instance in which all parts run implements each of them: what is proved of a
\* part above and in the other modules holds of the whole.
THEOREM ServicesAreTheirParts ==
  ServicesSpec => /\ FrontlineSpec /\ IngressSpec /\ ReissueSpec /\ HealthSpec
                  /\ KnowledgeSpec /\ PermissionsSpec /\ AgentRunsSpec /\ RetentionSpec
                  /\ SettingsSpec /\ NotificationsSpec /\ ChatSpec
<1>1. ServicesInit => /\ FrontlineInit /\ IngressInit /\ ReissueInit /\ HealthInit
                      /\ KnowledgeInit /\ PermissionsInit /\ AgentRunsInit /\ RetentionInit
                      /\ SettingsInit /\ NotificationsInit /\ ChatInit
  BY DEF ServicesInit
<1>2. [ServicesNext]_servicesVars =>
         /\ [FrontlineNext]_frontlineVars /\ [IngressNext]_ingressVars
         /\ [ReissueNext]_reissueVars /\ [HealthNext]_healthVars
         /\ [KnowledgeNext]_knowledgeVars /\ [PermissionsNext]_permissionVars
         /\ [AgentRunsNext]_agentVars /\ [RetentionNext]_retentionVars
         /\ [SettingsNext]_settingsVars /\ [NotificationsNext]_notificationsVars
         /\ [ChatNext]_chatVars
  BY StepsAreOfParts
<1> QED BY <1>1, <1>2, PTL DEF ServicesSpec, FrontlineSpec, IngressSpec, ReissueSpec, HealthSpec,
           KnowledgeSpec, PermissionsSpec, AgentRunsSpec, RetentionSpec, SettingsSpec,
           NotificationsSpec, ChatSpec

\* Whatever a behaviour is about, its rows, jobs and requests have their types, for
\* any values of the parameters of its part.
THEOREM ServicesTypeCorrect == ServicesSpec => []ServicesTypeOK
<1>1. /\ FrontlineTypeOK /\ IngressTypeOK /\ ReissueTypeOK /\ KnowledgeTypeOK
      /\ PermissionsTypeOK /\ AgentRunsTypeOK /\ RetentionTypeOK /\ SettingsTypeOK
      /\ NotificationsTypeOK /\ ChatTypeOK
      => ServicesTypeOK
  BY DEF ServicesTypeOK
<1> QED BY <1>1, ServicesAreTheirParts, FrontlineTypeCorrect, IngressTypeCorrect,
           ReissueTypeCorrect, KnowledgeTypeCorrect, PermissionsTypeCorrect,
           AgentRunsTypeCorrect, RetentionTypeCorrect, SettingsTypeCorrect,
           NotificationsTypeCorrect, ChatTypeCorrect, PTL
=============================================================================
