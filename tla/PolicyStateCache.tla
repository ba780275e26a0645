-------------------------- MODULE PolicyStateCache --------------------------
(***************************************************************************)
(* PolicyStateCacheService for one policy: an L1 entry in the memory of    *)
(* each replica, an L2 entry in Redis, and under both the reading cache of *)
(* OracleService.  Readers fill the caches while writers change the policy *)
(* and the readings; a state is abstracted to the versions it was computed *)
(* from.  A command runs at Redis or in the database in one step and its   *)
(* reply is processed in a later one.  The commands of a replica share one *)
(* connection, so its un-awaited SET runs before its next command.         *)
(*                                                                         *)
(* Memory pressure (IN_MEMORY_MAX_ENTRIES) drops an entry early, which the *)
(* expiry of the TTL already covers.                                       *)
(***************************************************************************)
EXTENDS Integers

CONSTANTS Replica, Reader,
          Runs,          \* the replica a reader runs on
          Ttl,           \* POLICY_DERIVED_STATE_TTL_SECONDS, in ticks
          ReadingTtl,    \* READING_CACHE_TTL_MS, in ticks
          MaxWait,       \* the longest a load, or a SET on its way, takes, in ticks
          FaultSets,     \* the environments: may Redis and replicas fail?
          MaxChanges     \* bound: writes and readings, in each environment

\* One reader on a replica: see ReadState.
ASSUME StateAssumption ==
    /\ Runs \in [Reader -> Replica]
    /\ \A x, y \in Reader : Runs[x] = Runs[y] => x = y
    /\ Ttl \in Nat \ {0} /\ ReadingTtl \in Nat \ {0}
    /\ MaxWait \in Nat

VARIABLES
    db,        \* versions of the stored policy and of its latest reading
    l1, l2,    \* memoryCache of each replica; the Redis entry
    rdCache,   \* readingCache of each replica
    inFlight,  \* whether inFlight of a replica holds a promise
    sets,      \* a replica's un-awaited redis.set
    pc, val,   \* where each reader is, and the state it is loading
    loadAge,   \* how long its load has taken so far
    setAge,    \* how long a replica's redis.set has
    wpc,       \* the write a replica is in: its path and how far it got
    inbox,     \* whether an invalidation message is on its way to a replica
    faults,    \* the failures possible in this behaviour
    others,    \* history: writes other than ClaimsService's, with and without an event
    since      \* history: ticks since the last write, up to StaleHorizon

stateVars == <<db, l1, l2, rdCache, inFlight, sets, pc, val, loadAge, setAge, wpc,
               inbox, faults, others, since>>

Version == [pol : Nat, rd : Nat]
State == [v : Version, raced : BOOLEAN]   \* raced: see Del and Receive
Entry == [s : State, ttl : 1..Ttl]
NoEntry == [none |-> TRUE]
StaleHorizon == 2 * Ttl + ReadingTtl + 3 * MaxWait

\* The code that writes a policy or its product: ClaimsService; cancelPolicy,
\* updateProduct and deactivateProduct; updatePolicy with and without a new
\* oracle key.
Path == {"claims", "status", "oracleKey", "times"}

StateTypeOK ==
    /\ db \in Version
    /\ l1 \in [Replica -> Entry \cup {NoEntry}] /\ l2 \in Entry \cup {NoEntry}
    /\ rdCache \in
        [Replica -> [rd : Nat, ttl : 1..ReadingTtl] \cup {NoEntry}]
    /\ inFlight \in [Replica -> BOOLEAN] /\ inbox \in [Replica -> BOOLEAN]
    /\ sets \in [Replica -> State \cup {NoEntry}]
    /\ pc \in [Reader -> {"idle", "got", "miss", "look", "fill"}]
    /\ val \in [Reader -> State \cup {NoEntry}]
    /\ loadAge \in [Reader -> 0..MaxWait] /\ setAge \in [Replica -> 0..MaxWait]
    /\ wpc \in [Replica -> Path \cup {"idle", "del", "publish", "reading"}]
    /\ faults \in FaultSets
    /\ others \subseteq {"event", "silent"} /\ since \in 0..StaleHorizon

StateInit ==
    /\ db = [pol |-> 0, rd |-> 0]
    /\ l1 = [r \in Replica |-> NoEntry] /\ l2 = NoEntry
    /\ rdCache = [r \in Replica |-> NoEntry]
    /\ inFlight = [r \in Replica |-> FALSE] /\ inbox = [r \in Replica |-> FALSE]
    /\ sets = [r \in Replica |-> NoEntry]
    /\ pc = [x \in Reader |-> "idle"] /\ val = [x \in Reader |-> NoEntry]
    /\ loadAge = [x \in Reader |-> 0] /\ setAge = [r \in Replica |-> 0]
    /\ wpc = [r \in Replica |-> "idle"]
    /\ faults \in FaultSets
    /\ others = {} /\ since = StaleHorizon

Held(s) == [s |-> s, ttl |-> Ttl]
Raced(s) == IF s = NoEntry THEN NoEntry ELSE [s EXCEPT !.raced = TRUE]

\* A write is under way, or its message has not reached this replica.
Writing(r) == inbox[r] \/ \E q \in Replica : wpc[q] \notin {"idle", "reading"}

-----------------------------------------------------------------------------
(* getDerivedPolicyState                                                   *)

\* A call that finds a promise or an L1 entry answers from it and changes
\* nothing; the others ask Redis.  An error of redis.get is logged and counts as
\* a miss.  The look into the memory and the run of the GET are one step: with
\* one reader on a replica nothing fills its memory between them.
ReadState(x) ==
    /\ pc[x] = "idle" /\ ~inFlight[Runs[x]] /\ l1[Runs[x]] = NoEntry
    /\ sets[Runs[x]] = NoEntry
    /\ \/ /\ l2 # NoEntry
          /\ pc' = [pc EXCEPT ![x] = "got"]
          /\ val' = [val EXCEPT ![x] = l2.s]
       \/ /\ l2 = NoEntry \/ "redis" \in faults
          /\ pc' = [pc EXCEPT ![x] = "miss"]
          /\ val' = [val EXCEPT ![x] = [v |-> db, raced |-> FALSE]]
    /\ UNCHANGED <<db, l1, l2, rdCache, inFlight, sets, wpc, inbox, faults,
                   others, since, loadAge, setAge>>

\* The reply of redis.get is a state: it enters the memory with a TTL of its
\* own.  The mutant slides the TTL of the Redis entry as well.
Promote_Slides(x) ==
    /\ pc[x] = "got"
    /\ l1' = [l1 EXCEPT ![Runs[x]] = Held(val[x])]
    /\ l2' = IF l2 = NoEntry THEN NoEntry ELSE Held(l2.s)
    /\ pc' = [pc EXCEPT ![x] = "idle"] /\ val' = [val EXCEPT ![x] = NoEntry]
    /\ loadAge' = [loadAge EXCEPT ![x] = 0]
    /\ UNCHANGED <<db, rdCache, inFlight, sets, wpc, inbox, faults, others,
                   since, setAge>>
Promote(x) ==
    /\ pc[x] = "got"
    /\ l1' = [l1 EXCEPT ![Runs[x]] = Held(val[x])]
    /\ pc' = [pc EXCEPT ![x] = "idle"] /\ val' = [val EXCEPT ![x] = NoEntry]
    /\ loadAge' = [loadAge EXCEPT ![x] = 0]
    /\ UNCHANGED <<db, l2, rdCache, inFlight, sets, wpc, inbox, faults, others,
                   since, setAge>>

\* The reply is a miss: computePolicyState starts, its promise in inFlight, and
\* its first query reads the policy with its product and claims.
QueryPolicy(x) ==
    /\ pc[x] = "miss"
    /\ inFlight' = [inFlight EXCEPT ![Runs[x]] = TRUE]
    /\ pc' = [pc EXCEPT ![x] = "look"]
    /\ val' = [val EXCEPT ![x].v.pol = db.pol]
    /\ UNCHANGED <<db, l1, l2, rdCache, sets, wpc, inbox, faults, others,
                   since, loadAge, setAge>>

\* It stores the state in the memory, sends it to Redis without waiting, and
\* takes a promise out of inFlight, whoever put it there.
StoreState(x, s) ==
    /\ l1' = [l1 EXCEPT ![Runs[x]] = Held(s)]
    /\ sets' = [sets EXCEPT ![Runs[x]] = s]
    /\ inFlight' = [inFlight EXCEPT ![Runs[x]] = FALSE]
    /\ pc' = [pc EXCEPT ![x] = "idle"] /\ val' = [val EXCEPT ![x] = NoEntry]
    /\ loadAge' = [loadAge EXCEPT ![x] = 0]

\* getLatestReading: from the reading cache, or by a query.
CachedReading(x) ==
    /\ pc[x] = "look" /\ rdCache[Runs[x]] # NoEntry
    /\ StoreState(x, [val[x] EXCEPT !.v.rd = rdCache[Runs[x]].rd])
    /\ UNCHANGED <<db, l2, rdCache, wpc, inbox, faults, others, since, setAge>>

QueryReading(x) ==
    /\ pc[x] = "look" /\ rdCache[Runs[x]] = NoEntry
    /\ pc' = [pc EXCEPT ![x] = "fill"]
    /\ val' = [val EXCEPT ![x].v.rd = db.rd]
    /\ UNCHANGED <<db, l1, l2, rdCache, inFlight, sets, wpc, inbox, faults,
                   others, since, loadAge, setAge>>

Fill(x) ==
    /\ pc[x] = "fill"
    /\ rdCache' = [rdCache EXCEPT
                    ![Runs[x]] = [rd |-> val[x].v.rd, ttl |-> ReadingTtl]]
    /\ StoreState(x, val[x])
    /\ UNCHANGED <<db, l2, wpc, inbox, faults, others, since, setAge>>

\* A query that fails rejects the promise; nothing is cached.
Fail(x) ==
    /\ "crash" \in faults /\ pc[x] \in {"look", "fill"}
    /\ inFlight' = [inFlight EXCEPT ![Runs[x]] = FALSE]
    /\ pc' = [pc EXCEPT ![x] = "idle"] /\ val' = [val EXCEPT ![x] = NoEntry]
    /\ loadAge' = [loadAge EXCEPT ![x] = 0]
    /\ UNCHANGED <<db, l1, l2, rdCache, sets, wpc, inbox, faults, others,
                   since, setAge>>

\* The SET of a fill reaches Redis, or fails and is logged.
SetL2(r) ==
    /\ sets[r] # NoEntry
    /\ \/ l2' = Held(sets[r])
       \/ "redis" \in faults /\ UNCHANGED l2
    /\ sets' = [sets EXCEPT ![r] = NoEntry] /\ setAge' = [setAge EXCEPT ![r] = 0]
    /\ UNCHANGED <<db, l1, rdCache, inFlight, pc, val, wpc, inbox, faults,
                   others, since, loadAge>>

-----------------------------------------------------------------------------
(* Writers                                                                 *)

\* A write commits.
Commit(r, path) ==
    /\ wpc[r] = "idle" /\ db.pol + db.rd < MaxChanges[faults]
    /\ db' = [db EXCEPT !.pol = @ + 1]
    /\ wpc' = [wpc EXCEPT ![r] = path]
    /\ others' = others \cup IF path = "claims" THEN {}
                           ELSE IF path = "times" THEN {"silent"} ELSE {"event"}
    /\ since' = 0
    /\ UNCHANGED <<l1, l2, rdCache, inFlight, sets, pc, val, inbox, faults,
                   loadAge, setAge>>

\* invalidateMemoryOnly, and the clearing of both maps on a product update.
DropL1(rs) ==
    /\ l1' = [r \in Replica |-> IF r \in rs THEN NoEntry ELSE l1[r]]
    /\ inFlight' = [r \in Replica |-> r \notin rs /\ inFlight[r]]

\* The event listeners of onModuleInit drop the L1 entry of the replica that
\* wrote; a change of the times alone emits no event.
Dropped(r) == IF wpc[r] = "times" THEN {} ELSE {r}

\* What follows a commit: invalidate(policyId) in ClaimsService, an event of
\* StatusEventsService elsewhere.  A status or product event reaches the
\* listeners of its own replica only, an oracle key event those of every replica.
AfterCommit(r) ==
    /\ wpc[r] \in Path
    /\ DropL1(Dropped(r))
    /\ wpc' = [wpc EXCEPT ![r] = IF @ = "claims" THEN "del" ELSE "idle"]
    /\ inbox' = IF wpc[r] = "oracleKey"
                THEN [q \in Replica |-> q # r \/ inbox[q]] ELSE inbox
    /\ UNCHANGED <<db, l2, rdCache, sets, pc, val, faults, others, since,
                   loadAge, setAge>>

\* redis.del; when it fails the publish is skipped with it.  The loads in
\* progress race it: their SET follows.
Del(r) ==
    /\ wpc[r] = "del" /\ sets[r] = NoEntry
    /\ \/ /\ l2' = NoEntry /\ wpc' = [wpc EXCEPT ![r] = "publish"]
          /\ val' = [x \in Reader |-> Raced(val[x])]
          /\ sets' = [q \in Replica |-> Raced(sets[q])]
       \/ /\ "redis" \in faults
          /\ wpc' = [wpc EXCEPT ![r] = "idle"] /\ UNCHANGED <<l2, val, sets>>
    /\ UNCHANGED <<db, l1, rdCache, inFlight, pc, inbox, faults, others, since,
                   loadAge, setAge>>

\* redis.publish reaches every subscriber, this replica's own included.
Publish_SkipsSelf(r) ==
    /\ wpc[r] = "publish" /\ sets[r] = NoEntry
    /\ inbox' = [q \in Replica |-> q # r \/ inbox[q]]
    /\ wpc' = [wpc EXCEPT ![r] = "idle"]
    /\ UNCHANGED <<db, l1, l2, rdCache, inFlight, sets, pc, val, faults,
                   others, since, loadAge, setAge>>
Publish(r) ==
    /\ wpc[r] = "publish" /\ sets[r] = NoEntry
    /\ \/ inbox' = [q \in Replica |-> TRUE]
       \/ "redis" \in faults /\ UNCHANGED inbox
    /\ wpc' = [wpc EXCEPT ![r] = "idle"]
    /\ UNCHANGED <<db, l1, l2, rdCache, inFlight, sets, pc, val, faults,
                   others, since, loadAge, setAge>>

\* The subscriber's 'message' handler; a disconnected subscriber misses it.  The
\* loads in progress on this replica race it: they fill the memory afterwards.
Receive(r) ==
    /\ inbox[r]
    /\ inbox' = [inbox EXCEPT ![r] = FALSE]
    /\ \/ DropL1({r})
       \/ "redis" \in faults /\ UNCHANGED <<l1, inFlight>>
    /\ val' = [x \in Reader |-> IF Runs[x] = r THEN Raced(val[x]) ELSE val[x]]
    /\ UNCHANGED <<db, l2, rdCache, sets, pc, wpc, faults, others, since,
                   loadAge, setAge>>

\* A reading is upserted, then its key leaves this replica's reading cache.
CommitReading(r) ==
    /\ wpc[r] = "idle" /\ db.pol + db.rd < MaxChanges[faults]
    /\ db' = [db EXCEPT !.rd = @ + 1]
    /\ wpc' = [wpc EXCEPT ![r] = "reading"]
    /\ since' = 0
    /\ UNCHANGED <<l1, l2, rdCache, inFlight, sets, pc, val, inbox, faults,
                   others, loadAge, setAge>>

DropReading(r) ==
    /\ wpc[r] = "reading"
    /\ wpc' = [wpc EXCEPT ![r] = "idle"]
    /\ rdCache' = [rdCache EXCEPT ![r] = NoEntry]
    /\ UNCHANGED <<db, l1, l2, inFlight, sets, pc, val, inbox, faults, others,
                   since, loadAge, setAge>>

-----------------------------------------------------------------------------

\* The process dies: its memory, its calls and its write are gone, and what
\* it committed is not followed by an invalidation.
Crash(r) ==
    /\ "crash" \in faults
    /\ DropL1({r})
    /\ rdCache' = [rdCache EXCEPT ![r] = NoEntry]
    /\ sets' = [sets EXCEPT ![r] = NoEntry] /\ setAge' = [setAge EXCEPT ![r] = 0]
    /\ pc' = [x \in Reader |-> IF Runs[x] = r THEN "idle" ELSE pc[x]]
    /\ val' = [x \in Reader |-> IF Runs[x] = r THEN NoEntry ELSE val[x]]
    /\ loadAge' = [x \in Reader |-> IF Runs[x] = r THEN 0 ELSE loadAge[x]]
    /\ wpc' = [wpc EXCEPT ![r] = "idle"]
    /\ inbox' = [inbox EXCEPT ![r] = FALSE]
    /\ UNCHANGED <<db, l2, faults, others, since>>

Age(e) == IF e = NoEntry \/ e.ttl = 1 THEN NoEntry ELSE [e EXCEPT !.ttl = @ - 1]

\* Time passes, while calls load and a SET is on its way as well: a TTL runs from
\* the moment its entry is stored.
StateTick ==
    /\ \A x \in Reader : pc[x] # "idle" => loadAge[x] < MaxWait
    /\ \A r \in Replica : sets[r] # NoEntry => setAge[r] < MaxWait
    /\ l1' = [r \in Replica |-> Age(l1[r])]
    /\ l2' = Age(l2)
    /\ rdCache' = [r \in Replica |-> Age(rdCache[r])]
    /\ loadAge' = [x \in Reader |-> IF pc[x] = "idle" THEN 0 ELSE loadAge[x] + 1]
    /\ setAge' = [r \in Replica |-> IF sets[r] = NoEntry THEN 0 ELSE setAge[r] + 1]
    /\ since' = IF since = StaleHorizon THEN StaleHorizon ELSE since + 1
    /\ UNCHANGED <<db, inFlight, sets, pc, val, wpc, inbox, faults, others>>

StateNext ==
    \/ \E x \in Reader :
        \/ ReadState(x) \/ Promote(x) \/ QueryPolicy(x)
        \/ CachedReading(x) \/ QueryReading(x) \/ Fill(x) \/ Fail(x)
    \/ \E r \in Replica :
        \/ \E path \in Path : Commit(r, path)
        \/ AfterCommit(r) \/ Del(r) \/ Publish(r) \/ Receive(r) \/ SetL2(r)
        \/ CommitReading(r) \/ DropReading(r) \/ Crash(r)
    \/ StateTick

StateSpec == StateInit /\ [][StateNext]_stateVars

-----------------------------------------------------------------------------

\* Every cached state that some call may still be given.
Cached == {e \in {l1[r] : r \in Replica} \cup {l2} : e # NoEntry}

\* With Redis and the replicas up, a write of ClaimsService leaves no old state
\* behind once it is over and its message delivered: invalidate clears the own
\* memory, then Redis, then by message every memory that was filled from Redis
\* in between.  A state stays old only if its load spanned the deletion from
\* Redis or the arrival of the message.
FreshUnlessRaced ==
    faults = {} /\ others = {} =>
        /\ \A r \in Replica : l1[r] # NoEntry /\ ~Writing(r) =>
            l1[r].s.raced \/ l1[r].s.v.pol = db.pol
        /\ l2 # NoEntry /\ (\A r \in Replica : wpc[r] \in {"idle", "reading"}) =>
            l2.s.raced \/ l2.s.v.pol = db.pol

\* No write, race, lost message, failed command or crash leaves an old state
\* for good.  A load that read it stores it in Redis after two waits, its own and
\* the SET's; at the end of the TTL there a GET takes it up, and after a third wait
\* a memory keeps it for the TTL once more.  An old reading was in the reading
\* cache for its TTL before.
StaleStateExpires ==
    \A e \in Cached :
        /\ e.s.v.pol # db.pol => since < 2 * Ttl + 3 * MaxWait
        /\ e.s.v.rd # db.rd => since < 2 * Ttl + ReadingTtl + 3 * MaxWait

\* What the comment on invalidate says: "Called on every write path that
\* mutates policy state, claims, or oracle key."  cancelPolicy writes the status
\* and updatePolicy the oracle key without calling it.
FreshAfterEveryWrite ==
    faults = {} /\ "silent" \notin others =>
        \A r \in Replica : l1[r] # NoEntry /\ ~Writing(r) =>
            l1[r].s.raced \/ l1[r].s.v.pol = db.pol

=============================================================================
