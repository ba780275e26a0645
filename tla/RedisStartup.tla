--------------------------- MODULE RedisStartup ---------------------------
(***************************************************************************)
(* The shared Redis client from startup to shutdown: connectOnce and       *)
(* connectWithRetry (redis/redis-startup.ts) and RedisConnectionService    *)
(* (redis/redis-connection.service.ts). Startup retries the first          *)
(* connection itself, with ioredis' own reconnection switched off, and     *)
(* hands reconnection to ioredis once connected.                           *)
(*                                                                         *)
(* A hung attempt is cut by the attempt timeout, which closes the socket:  *)
(* an answer cannot come later. The backoff between attempts is a sleep of *)
(* any length. The continuation of a successful attempt up to enableRuntimeReconnect runs  *)
(* without returning to the event loop, so it is part of that step.        *)
(***************************************************************************)
EXTENDS Naturals

CONSTANTS
  MaxAttempts     \* REDIS_STARTUP_MAX_ATTEMPTS

VARIABLES
  startup,        \* connecting, sleeping, up, failed
  attempt,        \* number of the attempt
  socket,         \* the client's connection: closed, opening, ready, reconnecting
  retryStrategy,  \* none at startup, runtime afterwards
  shut            \* onModuleDestroy has closed the client

vars == <<startup, attempt, socket, retryStrategy, shut>>

\* onModuleInit calls connectWithRetry, whose first attempt starts at once.
Init ==
  /\ startup = "connecting" /\ attempt = 1 /\ socket = "opening"
  /\ retryStrategy = "none" /\ shut = FALSE

\* The mutant: ioredis never gets a strategy of its own.
Connected_NoRuntime ==
  /\ startup = "connecting"
  /\ startup' = "up"
  /\ socket' = "ready"
  /\ UNCHANGED <<attempt, retryStrategy, shut>>

\* connect() resolves before the timer: reconnection is ioredis' from now on.
Connected ==
  /\ startup = "connecting"
  /\ startup' = "up"
  /\ socket' = "ready"
  /\ retryStrategy' = "runtime"
  /\ UNCHANGED <<attempt, shut>>

\* connect() rejects, or the timer closes the hung socket: a sleep follows, or
\* after the last attempt a startup error.
AttemptFails ==
  /\ startup = "connecting"
  /\ startup' = IF attempt < MaxAttempts THEN "sleeping" ELSE "failed"
  /\ socket' = "closed"
  /\ UNCHANGED <<attempt, retryStrategy, shut>>

NextAttempt ==
  /\ startup = "sleeping"
  /\ attempt' = attempt + 1
  /\ startup' = "connecting"
  /\ socket' = "opening"
  /\ UNCHANGED <<retryStrategy, shut>>

\* The connection is lost at run time: ioredis asks its retryStrategy.
Lost ==
  /\ startup = "up" /\ socket = "ready"
  /\ socket' = IF retryStrategy = "runtime" /\ ~shut THEN "reconnecting" ELSE "closed"
  /\ UNCHANGED <<startup, attempt, retryStrategy, shut>>

Reconnect ==
  /\ socket = "reconnecting"
  /\ socket' = "ready"
  /\ UNCHANGED <<startup, attempt, retryStrategy, shut>>

\* onModuleDestroy: quit a ready client, disconnect any other, once.
OnModuleDestroy ==
  /\ startup = "up" /\ ~shut
  /\ shut' = TRUE
  /\ socket' = "closed"
  /\ UNCHANGED <<startup, attempt, retryStrategy>>

Next ==
  \/ Connected \/ AttemptFails \/ NextAttempt
  \/ Lost \/ Reconnect \/ OnModuleDestroy

Spec == Init /\ [][Next]_vars

\* Startup ends, and a client it connected is connected again whenever the
\* connection is lost at run time, until shutdown: the strategy that keeps
\* ioredis from reconnecting during startup does not outlive startup.
RedisComesBack ==
  startup # "failed" /\ ~shut ~> socket = "ready" \/ startup = "failed" \/ shut
=============================================================================
