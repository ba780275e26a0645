----------------------------- MODULE MCClients -----------------------------
(***************************************************************************)
(* The clients of the services outside the process in one model: the two   *)
(* circuit breakers, the database clients and the Redis client. They share *)
(* no state, so every behaviour runs one of them, chosen in the initial    *)
(* state.                                                                  *)
(***************************************************************************)
EXTENDS OracleBreaker

CONSTANTS HorizonCall, HorizonAttempts, HorizonThreshold, HorizonReset,
          MaxUrl, MaxRotations, Drain, QueryLife,
          RedisAttempts

VARIABLES part,
          open, elapsed, timeouts, hProbe, attempt, hProbing,
          vault, accepted, env, url, client, connected, created, rotations,
          rotation, retiring, refresh, plan, query, cut, stopped,
          startup, rAttempt, socket, retryStrategy, shut

H == INSTANCE HorizonBreaker WITH
        Call <- HorizonCall, MaxAttempts <- HorizonAttempts,
        Threshold <- HorizonThreshold, ResetTimeout <- HorizonReset,
        probe <- hProbe, probing <- hProbing

D == INSTANCE CredentialRotation WITH open <- connected
R == INSTANCE RedisStartup WITH MaxAttempts <- RedisAttempts, attempt <- rAttempt

ASSUME H!NumbersAssumption

horizon == <<open, elapsed, timeouts, hProbe, attempt, hProbing>>
database == <<vault, accepted, env, url, client, connected, created, rotations,
              rotation, retiring, refresh, plan, query, cut, stopped>>
redis == <<startup, rAttempt, socket, retryStrategy, shut>>
vars == <<part, breakerVars, horizon, database, redis>>

\* Only the oracle's circuit has several initial states.
Init ==
    /\ part \in {"oracle", "horizon", "database", "redis"}
    /\ BreakerInit /\ H!Init /\ D!Init /\ R!Init
    /\ part # "oracle" => ~rejects

Oracle(A) == part = "oracle" /\ A /\ UNCHANGED <<part, horizon, database, redis>>
Horizon(A) == part = "horizon" /\ A /\ UNCHANGED <<part, breakerVars, database, redis>>
Database(A) == part = "database" /\ A /\ UNCHANGED <<part, breakerVars, horizon, redis>>
RedisPart(A) == part = "redis" /\ A /\ UNCHANGED <<part, breakerVars, horizon, database>>

Next == Oracle(BreakerNext) \/ Horizon(H!Next) \/ Database(D!Next) \/ RedisPart(R!Next)

\* Upstream calls end (each has a timeout) and time passes; the refresh timer
\* fires, Vault answers some of the refreshes, and the database comes to accept
\* what Vault hands out; a connection attempt ends, and Redis comes back.
FairSpec ==
    /\ Init /\ [][Next]_vars
    /\ \A c \in Call : WF_vars(Oracle(Finish(c)))
    /\ WF_vars(Horizon(H!Tick))
    /\ \A c \in HorizonCall : WF_vars(Horizon(H!Step(c)))
    /\ WF_vars(Database(D!Refresh)) /\ SF_vars(Database(D!Fetched))
    /\ WF_vars(Database(D!ConnectPrimary \/ D!Swap \/ D!ConnectFails))
    /\ WF_vars(Database(D!Activate))
    /\ WF_vars(RedisPart(R!Connected \/ R!AttemptFails))
    /\ WF_vars(RedisPart(R!NextAttempt)) /\ WF_vars(RedisPart(R!Reconnect))

\* The properties of OracleBreaker are stated there; those of the other modules
\* are stated and explained in them.

\* HorizonBreaker: a set flag stands for a probe in flight.
FlagMeansProbe == H!FlagMeansProbe
\* HorizonBreaker: it comes to a state in which it lets the next call through.
NeverRefusesForGood == H!NeverRefusesForGood
\* CredentialRotation: no pool and no URL is left behind by a failed rotation.
ClientsAccounted == D!ClientsAccounted
\* CredentialRotation: a rotation does not cut short queries.
QueriesOutliveRotation == D!QueriesOutliveRotation
\* CredentialRotation: accepted credentials are in use in the end.
RotationApplied == D!RotationApplied
\* RedisStartup: the client is connected again after every loss.
RedisComesBack == part = "redis" => R!RedisComesBack
=============================================================================
