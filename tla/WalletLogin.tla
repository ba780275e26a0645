----------------------------- MODULE WalletLogin -----------------------------
(***************************************************************************)
(* One wallet's challenges and logins: getChallenge and login of           *)
(* AuthController, the header login of WalletAuthMiddleware, the cleanup   *)
(* worker.  The nonce lives in Redis and, mirrored, in a database row; the *)
(* failed attempts are counted in Redis.  Every await is a step.           *)
(***************************************************************************)
EXTENDS Integers, FiniteSets

CONSTANTS Request,      \* requests that may be in flight together
          MaxNonces,    \* bound: the nonces issued
          NonceTtl,     \* AUTH_NONCE_TTL_SECONDS, in ticks
          MaxFailed,    \* AUTH_MAX_FAILED_ATTEMPTS
          LockoutTtl,   \* AUTH_LOCKOUT_DURATION_SECONDS, in ticks
          FaultSets     \* the environments

LoginAssumption == MaxNonces \in Nat /\ NonceTtl \in Nat /\ LockoutTtl \in Nat \ {0}

VARIABLES
    redis,     \* auth:nonce: the nonce, 0 for none, and its TTL
    db,        \* the AuthChallenge row: the same, kept after it expired
    lockout,   \* auth:lockout: the count, 0 for no key; a ttl of 0 is no expiry
    issued,    \* nonces issued so far
    pc,        \* where each request is
    arg,       \* the nonce it stores or has found; 0 for none
    faults     \* what may fail in this behaviour

vars == <<redis, db, lockout, issued, pc, arg, faults>>

None == [n |-> 0, ttl |-> 0]
MaxCount == MaxFailed + Cardinality(Request)

TypeOK ==
    /\ redis \in [n : 0..MaxNonces, ttl : 0..NonceTtl]
    /\ db \in [n : 0..MaxNonces, ttl : 0..NonceTtl]
    /\ lockout \in [count : 0..MaxCount, ttl : 0..LockoutTtl]
    /\ issued \in 0..MaxNonces
    /\ pc \in [Request -> {"idle", "set", "mirror", "locked?", "consume", "find",
                           "drop", "verify", "count", "expire", "clear",
                           "headerFind", "headerDrop"}]
    /\ arg \in [Request -> 0..MaxNonces]
    /\ faults \in FaultSets

Init ==
    /\ redis = None /\ db = None /\ lockout = [count |-> 0, ttl |-> 0]
    /\ issued = 0
    /\ pc = [x \in Request |-> "idle"] /\ arg = [x \in Request |-> 0]
    /\ faults \in FaultSets

Goto(x, step) == pc' = [pc EXCEPT ![x] = step] /\ UNCHANGED <<arg, faults>>
End(x) ==
    /\ pc' = [pc EXCEPT ![x] = "idle"] /\ arg' = [arg EXCEPT ![x] = 0]
    /\ UNCHANGED faults

\* A Redis command fails: the request ends with a 500.
RedisThrows(x) ==
    /\ "redis" \in faults
    /\ pc[x] \in {"set", "locked?", "count", "expire", "clear"}
    /\ End(x)
    /\ UNCHANGED <<redis, db, lockout, issued>>

-----------------------------------------------------------------------------
(* getChallenge: Redis, then the mirror, whose failure is only logged      *)

Challenge(x) ==
    /\ pc[x] = "idle" /\ issued < MaxNonces
    /\ issued' = issued + 1
    /\ pc' = [pc EXCEPT ![x] = "set"]
    /\ arg' = [arg EXCEPT ![x] = issued + 1]
    /\ UNCHANGED <<redis, db, lockout, faults>>

SetNonce(x) ==
    /\ pc[x] = "set"
    /\ redis' = [n |-> arg[x], ttl |-> NonceTtl]
    /\ Goto(x, "mirror")
    /\ UNCHANGED <<db, lockout, issued>>

Mirror(x) ==
    /\ pc[x] = "mirror"
    /\ \/ db' = [n |-> arg[x], ttl |-> NonceTtl]
       \/ "database" \in faults /\ UNCHANGED db
    /\ End(x)
    /\ UNCHANGED <<redis, lockout, issued>>

-----------------------------------------------------------------------------
(* login                                                                   *)

Begin(x, step) ==
    /\ pc[x] = "idle"
    /\ Goto(x, step)
    /\ UNCHANGED <<redis, db, lockout, issued>>

Login(x) == Begin(x, "locked?")

Locked == lockout.count >= MaxFailed

CheckLockout(x) ==
    /\ pc[x] = "locked?"
    /\ IF Locked THEN End(x) ELSE Goto(x, "consume")
    /\ UNCHANGED <<redis, db, lockout, issued>>

\* consumeNonce: GETDEL, or the script that does the same.  When both fail the
\* nonce counts as absent.
Consume(x) ==
    /\ pc[x] = "consume"
    /\ \/ /\ redis # None
          /\ redis' = None
          /\ arg' = [arg EXCEPT ![x] = redis.n]
          /\ pc' = [pc EXCEPT ![x] = "verify"]
          /\ UNCHANGED faults
       \/ /\ redis = None \/ "redis" \in faults
          /\ Goto(x, "find")
          /\ UNCHANGED redis
    /\ UNCHANGED <<db, lockout, issued>>

\* The fallback: the row is read, then deleted, then used if it is in time.
Find(x) ==
    /\ pc[x] = "find"
    /\ \/ /\ db # None
          /\ arg' = [arg EXCEPT ![x] = IF db.ttl > 0 THEN db.n ELSE 0]
          /\ pc' = [pc EXCEPT ![x] = "drop"]
          /\ UNCHANGED faults
       \/ (db = None \/ "database" \in faults) /\ End(x)
    /\ UNCHANGED <<redis, db, lockout, issued>>

Drop(x) ==
    /\ pc[x] = "drop"
    /\ db' = None \/ ("database" \in faults /\ UNCHANGED db)
    /\ IF arg[x] = 0 THEN End(x) ELSE Goto(x, "verify")
    /\ UNCHANGED <<redis, lockout, issued>>

\* The message against the nonce, then the signature.  Both are the client's, so
\* any outcome may follow; a message that does not match is not counted as a
\* failed attempt.
Verify(x) ==
    /\ pc[x] = "verify"
    /\ End(x) \/ Goto(x, "clear") \/ Goto(x, "count")
    /\ UNCHANGED <<redis, db, lockout, issued>>

\* INCR, which leaves the TTL alone; the first failure sets it, in a command of
\* its own.
FirstFailure_AtLimit(count) == count = MaxFailed + 1
FirstFailure(count) == count = 1

Count(x) ==
    /\ pc[x] = "count"
    /\ lockout' = [lockout EXCEPT !.count = @ + 1]
    /\ IF FirstFailure(lockout'.count) THEN Goto(x, "expire") ELSE End(x)
    /\ UNCHANGED <<redis, db, issued>>

Expire(x) ==
    /\ pc[x] = "expire"
    /\ lockout' = IF lockout.count > 0
                  THEN [lockout EXCEPT !.ttl = LockoutTtl] ELSE lockout
    /\ End(x)
    /\ UNCHANGED <<redis, db, issued>>

\* The counter goes and the token is signed.
Clear(x) ==
    /\ pc[x] = "clear"
    /\ lockout' = [count |-> 0, ttl |-> 0]
    /\ End(x)
    /\ UNCHANGED <<redis, db, issued>>

-----------------------------------------------------------------------------
(* The header login, which knows the row only, and the cleanup             *)

Header(x) == Begin(x, "headerFind")

HeaderFind(x) ==
    /\ pc[x] = "headerFind"
    /\ \/ db # None /\ Goto(x, "headerDrop")
       \/ (db = None \/ db.ttl > 0) /\ End(x)
    /\ UNCHANGED <<redis, db, lockout, issued>>

\* The row of an expired challenge or of an accepted one is deleted.
HeaderDrop(x) ==
    /\ pc[x] = "headerDrop"
    /\ db' = None \/ ("database" \in faults /\ UNCHANGED db)
    /\ End(x)
    /\ UNCHANGED <<redis, lockout, issued>>

CleanupExpiredChallenges ==
    /\ db # None /\ db.ttl = 0
    /\ db' = None
    /\ UNCHANGED <<redis, lockout, issued, pc, arg, faults>>

Crash(x) ==
    /\ "crash" \in faults /\ pc[x] # "idle"
    /\ End(x)
    /\ UNCHANGED <<redis, db, lockout, issued>>

Tick ==
    /\ redis' = IF redis.ttl > 1 THEN [redis EXCEPT !.ttl = @ - 1] ELSE None
    /\ db' = IF db.ttl > 0 THEN [db EXCEPT !.ttl = @ - 1] ELSE db
    /\ lockout' = CASE lockout.ttl > 1 -> [lockout EXCEPT !.ttl = @ - 1]
                    [] lockout.ttl = 1 -> [count |-> 0, ttl |-> 0]
                    [] OTHER -> lockout
    /\ UNCHANGED <<issued, pc, arg, faults>>

Step(x) ==
    \/ SetNonce(x) \/ Mirror(x) \/ CheckLockout(x) \/ Consume(x) \/ Find(x)
    \/ Drop(x) \/ Verify(x) \/ Count(x) \/ Expire(x) \/ Clear(x)
    \/ HeaderFind(x) \/ HeaderDrop(x)

Next ==
    \/ \E x \in Request :
        Challenge(x) \/ Login(x) \/ Header(x) \/ Step(x) \/ RedisThrows(x) \/ Crash(x)
    \/ CleanupExpiredChallenges \/ Tick

Spec == Init /\ [][Next]_vars

\* Every await is answered, and time passes.
FairSpec == Spec /\ WF_vars(Tick) /\ \A x \in Request : WF_vars(Step(x))

-----------------------------------------------------------------------------

\* The counter of failed attempts never stays without an end: between the INCR
\* that creates it and the EXPIRE after it, failures, successes and lapses of the
\* key by other requests leave a request that has its EXPIRE still to send, or a TTL.
LockoutHasExpiry ==
    faults \cap {"redis", "crash"} = {} /\ lockout.count > 0 /\ lockout.ttl = 0 =>
        \E x \in Request : pc[x] = "expire"

\* "Account temporarily locked": while requests run to their end a lockout
\* ends, however failures, successes and lapses of the key interleave: one of
\* the requests that count from zero sets the TTL after its INCR.
LockoutEnds ==
    faults \cap {"redis", "crash"} = {} /\ Locked ~> ~Locked

=============================================================================
