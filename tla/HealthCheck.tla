---------------------------- MODULE HealthCheck ----------------------------
(***************************************************************************)
(* GET /health of one process (health/health.controller.ts), over the      *)
(* probes of stellar/stellar.service.ts and the heartbeats of              *)
(* common/worker-heartbeat.ts.                                             *)
(*                                                                         *)
(* A check runs four groups of probes in parallel, each group in order.    *)
(* The result of the external APIs is cached for ExternalTtl, a healthy    *)
(* answer to a caller without the operator key for ResponseTtl; checks     *)
(* overlap and fill the caches in any order. What a probe finds is "ok",   *)
(* "bad" (an answer that shows a fault) or "throws" (an error or a         *)
(* timeout). One dependency is watched and the others stay well, so of the *)
(* groups only the watched one's is followed step by step: the others find *)
(* nothing, and that the slowest ends last is when the answer comes.       *)
(***************************************************************************)
EXTENDS Integers, Sequences

CONSTANTS
  Checks,        \* overlapping requests
  Watched,       \* the probes that may find a fault, one per behaviour
  ResponseTtl,   \* 5 s in ticks
  ExternalTtl,   \* EXTERNAL_API_CACHE_TTL_MS in ticks
  HeartbeatTtl,  \* ttlSeconds of a worker in ticks
  MaxCheck       \* bound: ticks a check takes, from the timeouts of its probes

ASSUME HealthAssumption ==
  /\ Watched \subseteq {"select", "pool", "throughput", "replication", "rpc", "network",
                        "keeper", "ping", "heartbeats", "memory", "openMeteo", "aviationStack"}
  /\ ResponseTtl \in Nat \ {0} /\ ExternalTtl \in Nat \ {0} /\ HeartbeatTtl \in Nat \ {0}
  /\ MaxCheck \in Nat

VARIABLES
  watched,       \* the probe watched
  found,         \* what that probe finds now
  beat,          \* ticks the worker's heartbeat has left
  turned,         \* ticks since the dependency went bad or got well, up to Horizon
  call,          \* per check: [pc, at, error, age, admin, answer]
  external,      \* externalApiCache: [age, error]
  response       \* healthResponseCache: its age

healthVars == <<watched, found, beat, turned, call, external, response>>

Groups == [database |-> <<"select", "pool", "throughput", "replication">>,
           stellar  |-> <<"rpc", "network", "keeper">>,
           queue    |-> <<"ping", "heartbeats", "memory">>,
           external |-> <<"openMeteo", "aviationStack">>]

\* What of a probe marks its group as failed; the rest is logged.
FatalDatabase == [select |-> {"throws"}, pool |-> {"bad"}]
FatalReplication == [throughput |-> {}, replication |-> {"bad"}]
FatalStellar == [rpc |-> {"throws"}, network |-> {"bad", "throws"}, keeper |-> {"bad", "throws"}]
FatalQueue == [ping |-> {"bad", "throws"}, heartbeats |-> {"bad"}, memory |-> {}]
FatalExternal == [openMeteo |-> {"bad", "throws"}, aviationStack |-> {"bad", "throws"}]

Fatal(probe) ==
  CASE probe \in DOMAIN FatalDatabase -> FatalDatabase[probe]
    [] probe \in DOMAIN FatalReplication -> FatalReplication[probe]
    [] probe \in DOMAIN FatalStellar -> FatalStellar[probe]
    [] probe \in DOMAIN FatalQueue -> FatalQueue[probe]
    [] probe \in DOMAIN FatalExternal -> FatalExternal[probe]

Horizon == ExternalTtl + MaxCheck + ResponseTtl + HeartbeatTtl
\* The probes of the group of the watched one.
Probes == CHOOSE ps \in {Groups[g] : g \in DOMAIN Groups}: \E i \in DOMAIN ps: ps[i] = watched
IsExternal == Probes = Groups.external
IdleCheck == [pc |-> "idle", at |-> 1, error |-> FALSE, age |-> 0, admin |-> FALSE, answer |-> "none"]
Expired == ExternalTtl + MaxCheck + ResponseTtl   \* the age of an entry that is not there

\* The caches are empty and the worker has just run.
HealthInit ==
  /\ watched \in Watched
  /\ found = "ok" /\ beat = HeartbeatTtl
  /\ turned = Horizon
  /\ call = [c \in Checks |-> IdleCheck]
  /\ external = [age |-> Expired, error |-> FALSE]
  /\ response = Expired

-----------------------------------------------------------------------------
\* The dependencies

\* getAccountBalance asks the RPC and falls back to Horizon; no account is a
\* balance of "0".
GetAccountBalance(rpc, horizon) ==
  IF rpc # "throws" THEN rpc ELSE IF horizon = "404" THEN "bad" ELSE horizon

\* checkNetworkStatus: the node must call itself healthy and serve our network.
CheckNetworkStatus(health, network) ==
  CASE "throws" \in {health, network} -> "throws"
    [] health = "ok" /\ network = "ok" -> "ok"
    [] OTHER -> "bad"

Outcomes == {"ok", "bad", "throws"}
Findings(probe) ==
  CASE probe = "keeper" -> {GetAccountBalance(r, h) : r \in Outcomes, h \in Outcomes \cup {"404"}}
    [] probe = "network" -> {CheckNetworkStatus(h, n) : h, n \in Outcomes}
    [] probe \in {"select", "rpc"} -> {"ok", "throws"}
    [] probe = "heartbeats" -> {"ok", "stopped", "throws"}
    [] OTHER -> Outcomes

Faulty(f) == f \in Fatal(watched) \/ f = "stopped"

\* The dependency changes; a worker that stops sends no more heartbeats.
Change == \E f \in Findings(watched) \ {found}:
  /\ found' = f
  /\ turned' = IF Faulty(f) # Faulty(found) THEN 0 ELSE turned
  /\ beat' = IF watched = "heartbeats" /\ f = "ok" THEN HeartbeatTtl ELSE beat
  /\ UNCHANGED <<watched, call, external, response>>

\* recordWorkerHeartbeat at the end of a tick of the worker.
RecordWorkerHeartbeat ==
  /\ watched = "heartbeats" /\ found # "stopped" /\ beat < HeartbeatTtl
  /\ beat' = HeartbeatTtl
  /\ UNCHANGED <<watched, found, turned, call, external, response>>

\* What the watched probe sees.
Seen ==
  IF watched # "heartbeats" THEN found
  ELSE IF found = "throws" THEN "throws" ELSE IF beat = 0 THEN "bad" ELSE "ok"

-----------------------------------------------------------------------------
\* The endpoint

Fresh(age) == age < ResponseTtl

\* A fresh answer is served as it is, except to the operator.
ServeCached(c) ==
  /\ call[c].pc = "idle" /\ Fresh(response)
  /\ call' = [call EXCEPT ![c].pc = "done", ![c].answer = "ok"]
  /\ UNCHANGED <<watched, found, beat, turned, external, response>>

\* The groups start together; the external one takes its cached result.
Start(c) == \E admin \in BOOLEAN:
  /\ call[c].pc = "idle" /\ (Fresh(response) => admin)
  /\ LET cached == IsExternal /\ external.age < ExternalTtl IN
     call' = [call EXCEPT ![c] =
                [pc |-> "probing", at |-> IF cached THEN Len(Probes) + 1 ELSE 1,
                 error |-> cached /\ external.error, age |-> 0, admin |-> admin, answer |-> "none"]]
  /\ UNCHANGED <<watched, found, beat, turned, external, response>>

\* The mutant: the external result is dated from the end of its probes.
Stamp_End(c) == 0

\* The external result is dated from the start of the check.
Stamp(c) == call[c].age

\* The next probe of the group answers; the last external one stores the result.
Probe(c) ==
  LET i == call[c].at
      fails == Probes[i] = watched /\ Seen \in Fatal(watched) IN
  /\ call[c].pc = "probing" /\ i <= Len(Probes)
  /\ call' = [call EXCEPT ![c].at = i + 1, ![c].error = @ \/ fails]
  /\ external' = IF IsExternal /\ i = Len(Probes)
                 THEN [age |-> Stamp(c), error |-> call[c].error \/ fails] ELSE external
  /\ UNCHANGED <<watched, found, beat, turned, response>>

\* Every group is through: 200 or 503. Only a healthy public answer is kept.
Answer(c) ==
  /\ call[c].pc = "probing" /\ call[c].at > Len(Probes)
  /\ call' = [call EXCEPT ![c].pc = "done", ![c].answer = IF call[c].error THEN "degraded" ELSE "ok"]
  /\ response' = IF ~call[c].admin /\ ~call[c].error THEN 0 ELSE response
  /\ UNCHANGED <<watched, found, beat, turned, external>>

Return(c) ==
  /\ call[c].pc = "done"
  /\ call' = [call EXCEPT ![c] = IdleCheck]
  /\ UNCHANGED <<watched, found, beat, turned, external, response>>

Older(age, limit) == IF age >= limit THEN Expired ELSE age + 1

\* Time passes. A check ends in time, a live worker beats in time.
HealthTick ==
  /\ \A c \in Checks: call[c].pc # "done" /\ (call[c].pc = "probing" => call[c].age < MaxCheck)
  /\ watched = "heartbeats" /\ found # "stopped" => beat > 1
  /\ call' = [c \in Checks |-> IF call[c].pc = "probing" THEN [call[c] EXCEPT !.age = @ + 1] ELSE call[c]]
  /\ external' = [external EXCEPT !.age = Older(@, ExternalTtl + MaxCheck)]
  /\ response' = Older(response, ResponseTtl)
  /\ beat' = IF beat > 0 /\ watched = "heartbeats" THEN beat - 1 ELSE beat
  /\ turned' = IF turned < Horizon THEN turned + 1 ELSE turned
  /\ UNCHANGED <<watched, found>>

HealthNext ==
  \/ Change \/ RecordWorkerHeartbeat \/ HealthTick
  \/ \E c \in Checks: ServeCached(c) \/ Start(c) \/ Probe(c) \/ Answer(c) \/ Return(c)

HealthSpec == HealthInit /\ [][HealthNext]_healthVars

-----------------------------------------------------------------------------
\* How old the finding behind a healthy answer can be, and behind a 503.
HealthyLag == MaxCheck + ResponseTtl - 1
  + (IF IsExternal THEN ExternalTtl - 1 ELSE 0)
  + (IF watched = "heartbeats" THEN HeartbeatTtl ELSE 0)
DegradedLag == MaxCheck + (IF IsExternal THEN ExternalTtl - 1 ELSE 0)

\* The health endpoint speaks of the recent past, whatever its two caches and
\* overlapping checks do: no 200 once a dependency has been bad for longer
\* than a check and the caches (and a worker's heartbeat) last, no 503 once it
\* has been well for longer than a check and the external cache last.
AnswerIsRecent == \A c \in Checks: call[c].pc = "done" =>
  /\ call[c].answer = "ok" => ~(Faulty(found) /\ turned > HealthyLag)
  /\ call[c].answer = "degraded" => ~(~Faulty(found) /\ turned > DegradedLag)
=============================================================================
