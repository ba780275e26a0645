----------------------------- MODULE Webhooks -----------------------------
(***************************************************************************)
(* Webhook notifications (common/events/webhooks.service.ts): the          *)
(* registrations in the database, a notification that loads them and       *)
(* starts one delivery each, the retry loop of a delivery, and the drain   *)
(* of the deliveries in flight when the process shuts down. Callers fire   *)
(* a notification and do not await it.                                     *)
(*                                                                         *)
(* A payload's content, its signature and the wait before a retry (random, *)
(* below 1, 2 and 4 s) are left out; a receiver may process a request      *)
(* whose answer is lost, late, a redirect, an error status or carries a    *)
(* wrong response signature, and all five are a failed attempt.            *)
(***************************************************************************)
EXTENDS Naturals, FiniteSets

CONSTANTS
  Notifications,      \* calls of the notify methods
  Registrations,      \* rows of webhookRegistration
  Wants,              \* the events each registration asks for
  Dead,               \* registrations whose endpoint never answers
  MAX_RETRY_ATTEMPTS

ASSUME RetryAssumption == MAX_RETRY_ATTEMPTS \in Nat

VARIABLES
  databaseFails,      \* whether loading the registrations may fail
  row,                \* per registration: none, active, inactive
  calls,              \* per notification: none, the event loading, started
  delivery,           \* per notification and registration: none, sending,
                      \* sleeping, delivered, failed
  attempt,            \* its attempt number
  received,           \* the receiver has processed it
  process,            \* up, draining, exited
  awaited,            \* the deliveries the drain waits for
  timedOut,           \* the drain hit its timeout
  atStop              \* history: the deliveries in flight when shutdown began

hookVars == <<databaseFails, row, calls, delivery, attempt, received,
              process, awaited, timedOut, atStop>>

Deliveries == Notifications \X Registrations
WebhookEvents == {"policy.status.change", "claim.status.change", "policy.oracle_key.change"}

\* inFlightDeliveries: from the start of the first attempt until the loop ends.
InFlight == {d \in Deliveries : delivery[d] \in {"sending", "sleeping"}}

HooksInit ==
  /\ databaseFails \in BOOLEAN
  /\ row = [g \in Registrations |-> "none"]
  /\ calls = [n \in Notifications |-> "none"]
  /\ delivery = [d \in Deliveries |-> "none"]
  /\ attempt = [d \in Deliveries |-> 0]
  /\ received = [d \in Deliveries |-> FALSE]
  /\ process = "up"
  /\ awaited = {}
  /\ timedOut = FALSE
  /\ atStop = {}

Running == process # "exited"
shutdown == <<process, awaited, timedOut, atStop>>

RegisterWebhook(g) ==
  /\ process = "up"
  /\ row[g] = "none"
  /\ row' = [row EXCEPT ![g] = "active"]
  /\ UNCHANGED <<databaseFails, calls, delivery, attempt, received, shutdown>>

\* updateMany on the active row; a second call finds none and answers 400.
UnregisterWebhook(g) ==
  /\ process = "up"
  /\ row[g] = "active"
  /\ row' = [row EXCEPT ![g] = "inactive"]
  /\ UNCHANGED <<databaseFails, calls, delivery, attempt, received, shutdown>>

Notify(n, event) ==
  /\ Running
  /\ calls[n] = "none"
  /\ calls' = [calls EXCEPT ![n] = event]
  /\ UNCHANGED <<databaseFails, row, delivery, attempt, received, shutdown>>

NotifyPolicyStatusChange(n) == Notify(n, "policy.status.change")
NotifyClaimStatusChange(n) == Notify(n, "claim.status.change")
NotifyPolicyOracleKeyChange(n) == Notify(n, "policy.oracle_key.change")

\* The mutant: deliveries run one after the other and stop at a failure, so
\* only one registration's is started.
Start_First(n, loaded) ==
  LET first == {g \in loaded : g \in Dead \/ loaded \cap Dead = {}}
  IN  [d \in Deliveries |-> IF d[1] = n /\ d[2] \in first THEN "sending" ELSE delivery[d]]

\* One delivery for each registration loaded, all started at once.
Start(n, loaded) ==
  [d \in Deliveries |-> IF d[1] = n /\ d[2] \in loaded THEN "sending" ELSE delivery[d]]

\* getRegistrationsForEvent answers; a failed query is logged and gives none.
Load(n) ==
  /\ Running
  /\ calls[n] \in WebhookEvents
  /\ calls' = [calls EXCEPT ![n] = "started"]
  /\ \/ delivery' = Start(n, {g \in Registrations : row[g] = "active" /\ calls[n] \in Wants[g]})
     \/ databaseFails /\ UNCHANGED delivery
  /\ UNCHANGED <<databaseFails, row, attempt, received, shutdown>>

\* deliverWebhook succeeds: a 2xx in time, and no wrong response signature.
Succeed(d) ==
  /\ Running
  /\ delivery[d] = "sending"
  /\ d[2] \notin Dead
  /\ delivery' = [delivery EXCEPT ![d] = "delivered"]
  /\ received' = [received EXCEPT ![d] = TRUE]
  /\ UNCHANGED <<databaseFails, row, calls, attempt, shutdown>>

\* deliverWebhook throws: the loop sleeps before the next attempt, or, after
\* the last one, throws and the failure is logged. The receiver may have
\* processed the request all the same.
Fail(d) ==
  /\ Running
  /\ delivery[d] = "sending"
  /\ delivery' = [delivery EXCEPT ![d] =
                    IF attempt[d] < MAX_RETRY_ATTEMPTS THEN "sleeping" ELSE "failed"]
  /\ \/ UNCHANGED received
     \/ d[2] \notin Dead /\ received' = [received EXCEPT ![d] = TRUE]
  /\ UNCHANGED <<databaseFails, row, calls, attempt, shutdown>>

Retry(d) ==
  /\ Running
  /\ delivery[d] = "sleeping"
  /\ delivery' = [delivery EXCEPT ![d] = "sending"]
  /\ attempt' = [attempt EXCEPT ![d] = @ + 1]
  /\ UNCHANGED <<databaseFails, row, calls, received, shutdown>>

\* The mutant: only the requests on the wire are tracked, not the loop.
Snapshot_Requests == {d \in Deliveries : delivery[d] = "sending"}

\* The deliveries onApplicationShutdown collects for its allSettled.
Snapshot == InFlight

\* onApplicationShutdown: nothing in flight returns at once.
OnApplicationShutdown ==
  /\ process = "up"
  /\ awaited' = Snapshot
  /\ atStop' = InFlight
  /\ process' = IF Snapshot = {} THEN "exited" ELSE "draining"
  /\ UNCHANGED <<databaseFails, row, calls, delivery, attempt, received, timedOut>>

\* allSettled of the snapshot wins the race.
Drained ==
  /\ process = "draining"
  /\ awaited \cap InFlight = {}
  /\ process' = "exited"
  /\ UNCHANGED <<databaseFails, row, calls, delivery, attempt, received, awaited, timedOut, atStop>>

\* The drain timeout wins the race.
DrainTimeout ==
  /\ process = "draining"
  /\ awaited \cap InFlight # {}
  /\ process' = "exited"
  /\ timedOut' = TRUE
  /\ UNCHANGED <<databaseFails, row, calls, delivery, attempt, received, awaited, atStop>>

HooksNext ==
  \/ \E g \in Registrations: RegisterWebhook(g) \/ UnregisterWebhook(g)
  \/ \E n \in Notifications:
       \/ NotifyPolicyStatusChange(n) \/ NotifyClaimStatusChange(n)
       \/ NotifyPolicyOracleKeyChange(n) \/ Load(n)
  \/ \E d \in Deliveries: Succeed(d) \/ Fail(d) \/ Retry(d)
  \/ OnApplicationShutdown \/ Drained \/ DrainTimeout

HooksSpec == HooksInit /\ [][HooksNext]_hookVars

-----------------------------------------------------------------------------
HooksTypeOK ==
  /\ row \in [Registrations -> {"none", "active", "inactive"}]
  /\ calls \in [Notifications -> {"none", "started"} \cup WebhookEvents]
  /\ delivery \in [Deliveries -> {"none", "sending", "sleeping", "delivered", "failed"}]
  /\ attempt \in [Deliveries -> 0..MAX_RETRY_ATTEMPTS]
  /\ received \in [Deliveries -> BOOLEAN]
  /\ process \in {"up", "draining", "exited"}
  /\ awaited \subseteq Deliveries
  /\ timedOut \in BOOLEAN
  /\ atStop \subseteq Deliveries

\* A delivery has run its course: it succeeded, or used up every attempt.
Settled(d) ==
  \/ delivery[d] = "delivered" /\ received[d]
  \/ delivery[d] = "failed" /\ attempt[d] = MAX_RETRY_ATTEMPTS

\* When a shutdown starts with deliveries in flight and its timeout does not
\* strike, the process exits only after each of them, those asleep between two
\* attempts included, was delivered or given up on after its last attempt.
DrainSettlesInFlight ==
  process = "exited" /\ ~timedOut => \A d \in atStop: Settled(d)

\* A notification reaches every registration that asked for its event, however long
\* another registration's endpoint fails: one of its attempts is processed, or
\* all of them fail, unless the process exits first.
DeliveredDespiteOthers ==
  \A n \in Notifications, g \in Registrations:
    calls[n] \in Wants[g] /\ row[g] = "active" /\ ~databaseFails ~>
      \/ process = "exited"
      \/ row[g] = "inactive"
      \/ Settled(<<n, g>>)
=============================================================================
