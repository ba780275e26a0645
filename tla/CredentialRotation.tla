------------------------ MODULE CredentialRotation ------------------------
(***************************************************************************)
(* The database clients of one process and the rotation of their           *)
(* credentials: PrismaService (prisma/prisma.service.ts) holds a primary   *)
(* and an optional replica client, and                                     *)
(* DatabaseCredentialRotationService re-reads Vault on a timer, puts       *)
(* changed URLs into process.env and asks for a swap.                      *)
(*                                                                         *)
(* A URL is the number of its credentials; 0 is an unset replica URL.      *)
(* Clients are numbered as they are created. A client connects exactly     *)
(* when the database accepts its credentials; refresh is the only caller   *)
(* of rotateCredentials, and shares one run between overlapping calls.     *)
(***************************************************************************)
EXTENDS Naturals, Sequences, FiniteSets

CONSTANTS
  MaxUrl,        \* bound: credentials Vault hands out for each key
  MaxRotations,  \* bound: rotations that create clients
  Drain,         \* DATABASE_ROTATION_DRAIN_MS in ticks
  QueryLife      \* the longest query or transaction, in ticks

Keys == {"primary", "replica"}
Urls == 0..MaxUrl
None == 0

VARIABLES
  vault,      \* per key: the URL Vault holds
  accepted,   \* the credentials the database accepts
  env,        \* process.env
  url,        \* primaryUrl and replicaUrl: what the current clients were built from
  client,     \* per key: the current client, None without a replica
  open,       \* the clients that are connected
  created,    \* how many clients were created
  rotations,  \* rotations begun
  rotation,   \* how the promise of the last one ended: fulfilled, rejected
  retiring,   \* drain timers: [clients, left]
  refresh,    \* the refresh: idle, fetching, connectPrimary, connectReplica
  plan,       \* of a refresh: [secrets, previous, next]
  query,      \* a running query: [client, left], client None when there is none
  cut,        \* a query was cut by the disconnection of its client
  stopped     \* onModuleDestroy has run

vars == <<vault, accepted, env, url, client, open, created, rotations, rotation,
          retiring, refresh, plan, query, cut, stopped>>
outside == <<vault, accepted>>
clients == <<env, url, client, open, created, rotations, rotation, retiring>>

NoPlan == [secrets |-> [k \in Keys |-> None], previous |-> [k \in Keys |-> None],
           next |-> [k \in Keys |-> None]]
NoQuery == [client |-> None, left |-> 0]
Start == [k \in Keys |-> IF k = "primary" THEN 1 ELSE 0]

\* After the constructor and a successful onModuleInit, without a replica.
Init ==
  /\ vault = Start /\ env = Start /\ url = Start
  /\ accepted = {1}
  /\ client = [k \in Keys |-> IF k = "primary" THEN 1 ELSE None]
  /\ open = {1} /\ created = 1 /\ rotations = 0 /\ rotation = "fulfilled"
  /\ retiring = {}
  /\ refresh = "idle" /\ plan = NoPlan
  /\ query = NoQuery /\ cut = FALSE /\ stopped = FALSE

-----------------------------------------------------------------------------
\* Vault and the database

\* An operator stores new credentials in Vault, before or after the database
\* accepts them.
Rotate(k) == \E u \in Urls \ {None, vault[k]}:
  /\ u > vault[k]
  /\ vault' = [vault EXCEPT ![k] = u]
  /\ UNCHANGED <<accepted, clients, refresh, plan, query, cut, stopped>>

Activate == \E u \in Urls \ ({None} \cup accepted):
  /\ accepted' = accepted \cup {u}
  /\ UNCHANGED <<vault, clients, refresh, plan, query, cut, stopped>>

-----------------------------------------------------------------------------
\* Disconnecting clients cuts the query that runs on one of them.
Disconnect(cs) ==
  /\ open' = open \ cs
  /\ cut' = (cut \/ query.client \in cs)
  /\ query' = IF query.client \in cs THEN NoQuery ELSE query

\* The timer ticks: refresh starts unless one is in flight.
Refresh ==
  /\ ~stopped
  /\ refresh = "idle"
  /\ refresh' = "fetching"
  /\ UNCHANGED <<outside, clients, plan, query, cut, stopped>>

FetchFails ==
  /\ refresh = "fetching"
  /\ refresh' = "idle"
  /\ UNCHANGED <<outside, clients, plan, query, cut, stopped>>

\* The credential keys whose value in Vault is set and differs from process.env.
Changed == {k \in Keys : vault[k] # None /\ vault[k] # env[k]}

\* The mutant: a rotation that failed rejects those chained to it.
Chained_NoCatch == rotation

\* rotateCredentials chains the swap to the last rotation, whose rejection it
\* catches.
Chained == IF rotation = "rejected" THEN "fulfilled" ELSE rotation

\* fetchVaultSecrets answers. Changed keys go to process.env, and the swap
\* builds a client for every URL that differs from its current client's. If it
\* did not come to the swap, process.env would be restored.
Fetched ==
  /\ refresh = "fetching"
  /\ IF Changed = {} \/ Chained = "rejected"
     THEN /\ refresh' = "idle"
          /\ UNCHANGED <<clients, plan>>
     ELSE LET newEnv == [k \in Keys |-> IF k \in Changed THEN vault[k] ELSE env[k]]
              rebuilt == {k \in Keys : newEnv[k] # url[k]}
              number == [k \in Keys |-> IF k = "primary" THEN created + 1
                                         ELSE created + Cardinality(rebuilt)]
          IN  /\ rotations < MaxRotations
              /\ rotations' = rotations + 1
              /\ env' = newEnv
              /\ plan' = [secrets |-> newEnv, previous |-> env,
                          next |-> [k \in Keys |-> IF k \in rebuilt THEN number[k] ELSE None]]
              /\ created' = created + Cardinality(rebuilt)
              /\ refresh' = "connectPrimary"
              /\ UNCHANGED <<url, client, open, rotation, retiring>>
  /\ UNCHANGED <<outside, query, cut, stopped>>

\* $connect of one of the new clients.
Connects(k) == plan.next[k] = None \/ plan.secrets[k] \in accepted

ConnectPrimary ==
  /\ refresh = "connectPrimary"
  /\ Connects("primary")
  /\ open' = open \cup ({plan.next["primary"]} \ {None})
  /\ refresh' = "connectReplica"
  /\ UNCHANGED <<outside, env, url, client, created, rotations, rotation, retiring, plan,
                 query, cut, stopped>>

\* The mutant: an unset DATABASE_ROTATION_DRAIN_MS is no drain at all.
RotationDrain_Unset == 0

\* getRotationDrainMs.
RotationDrain == Drain

\* Both are connected: they replace the current clients, which are left to the
\* drain timer.
Swap ==
  LET built == {k \in Keys : plan.next[k] # None}
      retired == {client[k] : k \in built} \ {None}
  IN  /\ refresh = "connectReplica"
      /\ Connects("replica")
      /\ open' = open \cup ({plan.next["replica"]} \ {None})
      /\ client' = [k \in Keys |-> IF k \in built THEN plan.next[k] ELSE client[k]]
      /\ url' = [k \in Keys |-> IF k \in built THEN plan.secrets[k] ELSE url[k]]
      /\ retiring' = retiring \cup {[clients |-> retired, left |-> RotationDrain]}
      /\ refresh' = "idle" /\ rotation' = "fulfilled"
      /\ plan' = NoPlan
      /\ UNCHANGED <<outside, env, created, rotations, query, cut, stopped>>

\* The mutant: only the client that failed is closed.
Abandoned_Failed == IF refresh = "connectPrimary" THEN {plan.next["primary"]} ELSE {plan.next["replica"]}

\* The new clients of a failed rotation.
Abandoned == {plan.next[k] : k \in Keys} \ {None}

\* process.env as it was before the refresh.
Restored == plan.previous

\* A $connect throws: both new clients are closed, process.env is restored, and
\* the current clients stay.
ConnectFails ==
  /\ \/ refresh = "connectPrimary" /\ ~Connects("primary")
     \/ refresh = "connectReplica" /\ ~Connects("replica")
  /\ Disconnect(Abandoned)
  /\ env' = Restored
  /\ refresh' = "idle" /\ rotation' = "rejected"
  /\ plan' = NoPlan
  /\ UNCHANGED <<outside, url, client, created, rotations, retiring, stopped>>

\* A query or interactive transaction binds to the client that is current.
StartQuery(k) ==
  /\ ~stopped
  /\ query = NoQuery /\ client[k] # None
  /\ query' = [client |-> client[k], left |-> QueryLife]
  /\ UNCHANGED <<outside, clients, refresh, plan, cut, stopped>>

EndQuery ==
  /\ query # NoQuery
  /\ query' = NoQuery
  /\ UNCHANGED <<outside, clients, refresh, plan, cut, stopped>>

\* A drain timer fires: its clients are disconnected.
DrainTimer(t) ==
  /\ t.left = 0
  /\ retiring' = retiring \ {t}
  /\ Disconnect(t.clients)
  /\ UNCHANGED <<outside, env, url, client, created, rotations, rotation, refresh, plan,
                 stopped>>

\* Time passes; a timer that is due fires and a query ends within its life.
Tick ==
  /\ \A t \in retiring: t.left > 0
  /\ query = NoQuery \/ query.left > 0
  /\ retiring # {} \/ query # NoQuery
  /\ retiring' = {[t EXCEPT !.left = @ - 1] : t \in retiring}
  /\ query' = IF query = NoQuery THEN query ELSE [query EXCEPT !.left = @ - 1]
  /\ UNCHANGED <<outside, env, url, client, open, created, rotations, rotation, refresh,
                 plan, cut, stopped>>

\* onModuleDestroy of both services: no more refreshes; retired and current
\* clients are disconnected. A refresh under way goes on.
OnModuleDestroy ==
  /\ ~stopped
  /\ stopped' = TRUE
  /\ retiring' = {}
  /\ Disconnect(UNION {t.clients : t \in retiring} \cup {client[k] : k \in Keys})
  /\ UNCHANGED <<outside, env, url, client, created, rotations, rotation, refresh, plan>>

Next ==
  \/ \E k \in Keys: Rotate(k) \/ StartQuery(k)
  \/ Activate
  \/ Refresh \/ FetchFails \/ Fetched \/ ConnectPrimary \/ Swap \/ ConnectFails
  \/ EndQuery \/ Tick \/ OnModuleDestroy
  \/ \E t \in retiring: DrainTimer(t)

Spec == Init /\ [][Next]_vars

-----------------------------------------------------------------------------
\* Between refreshes, every connected client is a current one or has a drain
\* timer that will close it, and process.env names the URLs of the current
\* clients: a rotation that fails half-way, with the new primary connected and
\* the new replica refused, leaves neither an open pool nor a wrong URL.
ClientsAccounted ==
  refresh = "idle" /\ ~stopped =>
    /\ open = ({client[k] : k \in Keys} \ {None}) \cup UNION {t.clients : t \in retiring}
    /\ env = url

\* A rotation never cuts a query shorter than the drain period: only the
\* shutdown of the process does.
QueriesOutliveRotation == cut => stopped

\* Credentials that Vault keeps and the database accepts are in use in the
\* end, also when the database accepted them only after a refresh had failed,
\* unless the process stops or the bound on rotations is reached.
RotationApplied ==
  \A k \in Keys, u \in Urls:
    vault[k] = u /\ u # None ~>
      url[k] = u \/ vault[k] # u \/ stopped \/ rotations = MaxRotations
=============================================================================
