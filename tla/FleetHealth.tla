---------------------------- MODULE FleetHealth ----------------------------
(***************************************************************************)
(* The health check of one customer instance: a cron job of the fleet      *)
(* server that asks the instance, stores the answer and the time, and      *)
(* sends an alert when the instance has been unreachable for two hours.    *)
(* Time is counted in periods of the cron job.                             *)
(***************************************************************************)
EXTENDS Naturals

CONSTANTS
  AlertThreshold,  \* the two hours, in periods
  MaxAge           \* bound: ages are not told apart beyond it

ASSUME HealthAssumption == AlertThreshold \in Nat /\ MaxAge \in Nat /\ AlertThreshold < MaxAge

VARIABLES
  health,     \* last_health_status, and how old last_health_check_at is
  reachable,  \* what the instance answers at this time
  silent,     \* periods since the instance last gave a health answer
  failures,   \* checks since then that it did not answer, of which two count
  missed,     \* "check", "result": since the last answer that was stored, a check
              \* did not run, a result was not stored
  alert,      \* whether the last check sent an alert
  due         \* the cron job of this period has not run yet

healthVars == <<health, reachable, silent, failures, missed, alert, due>>

Answers == {"ok", "degraded", "unreachable"}

Older(age) == IF age = MaxAge THEN MaxAge ELSE age + 1

\* Mutant of AlertIsSent: the status of the row is not looked at.
AlertByAge(answer) == answer = "unreachable" /\ health.age > AlertThreshold

\* wasAlreadyUnreachable and downMs > ALERT_THRESHOLD, on the row as it was
\* before this check.
AlertIsSent(answer) ==
  /\ answer = "unreachable" /\ health.status = "unreachable"
  /\ health.age > AlertThreshold

\* checkInstanceHealth(); the update of the row may fail, which is only logged.
\* A 5xx is an answer of the instance.
CheckInstanceHealth ==
  /\ due /\ due' = FALSE
  /\ \E stored \in BOOLEAN :
       /\ health' = IF stored THEN [status |-> reachable, age |-> 0] ELSE health
       /\ missed' = (IF stored /\ reachable # "unreachable" THEN {} ELSE missed)
                      \cup (IF stored THEN {} ELSE {"result"})
  /\ silent' = IF reachable = "unreachable" THEN silent ELSE 0
  /\ failures' = IF reachable # "unreachable" THEN 0 ELSE IF failures = 2 THEN 2 ELSE failures + 1
  /\ alert' = AlertIsSent(reachable)
  /\ UNCHANGED reachable

\* A period without a check: the fleet server or its queue was down.
CheckIsMissed ==
  /\ due /\ due' = FALSE /\ missed' = missed \cup {"check"} /\ alert' = FALSE
  /\ UNCHANGED <<health, reachable, silent, failures>>

InstanceChanges ==
  /\ \E s \in Answers \ {reachable} : reachable' = s
  /\ UNCHANGED <<health, silent, failures, missed, alert, due>>

PeriodPasses ==
  /\ ~due /\ due' = TRUE
  /\ health' = [health EXCEPT !.age = Older(@)]
  /\ silent' = Older(silent)
  /\ UNCHANGED <<reachable, failures, missed, alert>>

\* A provisioned instance that was never checked.
HealthInit ==
  /\ health = [status |-> "none", age |-> 0]
  /\ reachable \in Answers /\ silent = 0 /\ failures = 0
  /\ missed = {} /\ alert = FALSE /\ due = TRUE

HealthNext ==
  CheckInstanceHealth \/ CheckIsMissed \/ InstanceChanges \/ PeriodPasses

HealthSpec == HealthInit /\ [][HealthNext]_healthVars

-----------------------------------------------------------------------------
(* Properties.                                                             *)

\* An alert is about an instance that two checks, more than two hours after its
\* last answer, found unreachable, although the fleet server itself may have been
\* down: unless the row could not be updated, when an answer in between was
\* forgotten.
AlertIsTrue ==
  alert /\ "result" \notin missed => silent > AlertThreshold /\ failures = 2

\* "Sends alert email ... if unreachable for > 2 hours": when all checks of more
\* than two hours found the instance unreachable, the last one sends an alert.
\* The code breaks it: every check renews the time the hours are counted from.
OutageIsAlerted == ~due /\ missed = {} /\ silent > AlertThreshold => alert
=============================================================================
