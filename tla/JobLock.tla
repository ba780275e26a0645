------------------------------- MODULE JobLock -------------------------------
(***************************************************************************)
(* The Redis lock that keeps a scheduled job to one instance               *)
(* (redis/distributed-lock.service.ts).  A run is one call of runWithLock: *)
(* two runs may belong to two instances, or to two ticks of one.           *)
(*                                                                         *)
(* Time is kept as what is left of each timer.  A random token is modelled *)
(* by one that nobody holds.  In a reliable behaviour Redis answers every  *)
(* command and timers fire when they are due; in another, commands fail    *)
(* before or after they took effect and the event loop may be late.        *)
(***************************************************************************)
EXTENDS Integers, FiniteSets

CONSTANTS Run,       \* the runs that may overlap
          Token,     \* tokens of acquisitions
          NoToken,   \* no token, and the absent key
          Ttl        \* ttlMs, in ticks

ASSUME TtlAssumption == Ttl \in Nat /\ Ttl >= 3
ASSUME TokenAssumption == NoToken \notin Token

VARIABLES
    key,     \* the Redis key: the token it holds and its remaining PX
    pc,      \* where a run is: idle, in its task, or about to release
    token,   \* the token a run acquired
    beat,    \* ticks until the run's heartbeat timer fires
    left,    \* history: ticks until what Redis last granted the run runs out
    reliable \* Redis and the timers are never late in this behaviour

vars == <<key, pc, token, beat, left, reliable>>

NoKey == [token |-> NoToken, px |-> 0]

\* Math.floor(ttlMs / 3).
ExtendInterval_Ttl == Ttl
ExtendInterval_Times == Ttl * 3
ExtendInterval == Ttl \div 3

\* The comparison of both Lua scripts.
TokenMatches_Blind(r) == TRUE
TokenMatches(r) == key.token = token[r]

Unused == Token \ ({key.token} \cup {token[r] : r \in Run})

\* NX.
KeyAbsent == key.token = NoToken

TypeOK ==
    /\ key \in [token : Token \cup {NoToken}, px : 0..Ttl]
    /\ pc \in [Run -> {"idle", "task", "release"}]
    /\ token \in [Run -> Token \cup {NoToken}]
    /\ beat \in [Run -> 0..Ttl]
    /\ left \in [Run -> 0..Ttl]
    /\ reliable \in BOOLEAN

Init ==
    /\ key = NoKey
    /\ pc = [r \in Run |-> "idle"]
    /\ token = [r \in Run |-> NoToken]
    /\ beat = [r \in Run |-> 0]
    /\ left = [r \in Run |-> 0]
    /\ reliable \in BOOLEAN

-----------------------------------------------------------------------------
(* A run                                                                   *)

\* acquire answered OK: the task starts and the heartbeat is armed.  (When the
\* key is held the run returns executed: false and nothing changes.)
Acquire(r) ==
    /\ pc[r] = "idle"
    /\ KeyAbsent
    /\ \E t \in Unused :
          /\ key' = [token |-> t, px |-> Ttl]
          /\ token' = [token EXCEPT ![r] = t]
    /\ pc' = [pc EXCEPT ![r] = "task"]
    /\ beat' = [beat EXCEPT ![r] = ExtendInterval]
    /\ left' = [left EXCEPT ![r] = Ttl]
    /\ UNCHANGED reliable

\* The SET took effect and its answer was lost: acquire returns null, the run is
\* skipped and the key stays with a token nobody has.
AcquireUnanswered(r) ==
    /\ ~reliable
    /\ pc[r] = "idle"
    /\ KeyAbsent
    /\ \E t \in Unused : key' = [token |-> t, px |-> Ttl]
    /\ UNCHANGED <<pc, token, beat, left, reliable>>

\* The heartbeat: compare-and-extend.  A run that lost the key only logs it.
Renew(r) ==
    /\ pc[r] = "task"
    /\ beat[r] = 0
    /\ IF TokenMatches(r)
       THEN /\ key' = [token |-> key.token, px |-> Ttl]
            /\ left' = [left EXCEPT ![r] = Ttl]
       ELSE UNCHANGED <<key, left>>
    /\ beat' = [beat EXCEPT ![r] = ExtendInterval]
    /\ UNCHANGED <<pc, token, reliable>>

\* The renewal failed; the timer goes on.
RenewFailed(r) ==
    /\ ~reliable
    /\ pc[r] = "task"
    /\ beat[r] = 0
    /\ beat' = [beat EXCEPT ![r] = ExtendInterval]
    /\ UNCHANGED <<key, pc, token, left, reliable>>

\* The task returned or threw; the heartbeat is cleared.
TaskDone(r) ==
    /\ pc[r] = "task"
    /\ pc' = [pc EXCEPT ![r] = "release"]
    /\ UNCHANGED <<key, token, beat, left, reliable>>

Leave(r) ==
    /\ pc' = [pc EXCEPT ![r] = "idle"]
    /\ token' = [token EXCEPT ![r] = NoToken]
    /\ beat' = [beat EXCEPT ![r] = 0]
    /\ left' = [left EXCEPT ![r] = 0]
    /\ UNCHANGED reliable

\* release: compare-and-delete.
Release(r) ==
    /\ pc[r] = "release"
    /\ key' = IF TokenMatches(r) THEN NoKey ELSE key
    /\ Leave(r)

\* The release did not reach Redis, or the instance died: the key is left to
\* its TTL.
Abandon(r) ==
    /\ pc[r] # "idle"
    /\ Leave(r)
    /\ UNCHANGED key

-----------------------------------------------------------------------------
(* Time                                                                    *)

Less(n) == IF n = 0 THEN 0 ELSE n - 1

\* PX: Redis drops the key when its time is over.
KeyAfterTick_NoPx == key
KeyAfterTick ==
    IF key.px <= 1 THEN NoKey ELSE [token |-> key.token, px |-> key.px - 1]

Tick ==
    /\ reliable => \A r \in Run : pc[r] = "task" => beat[r] > 0
    /\ key' = KeyAfterTick
    /\ beat' = [r \in Run |-> Less(beat[r])]
    /\ left' = [r \in Run |-> Less(left[r])]
    /\ UNCHANGED <<pc, token, reliable>>

Next ==
    \/ \E r \in Run : \/ Acquire(r) \/ AcquireUnanswered(r)
                      \/ Renew(r) \/ RenewFailed(r)
                      \/ TaskDone(r) \/ Release(r) \/ Abandon(r)
    \/ Tick

Spec == Init /\ [][Next]_vars

\* Time passes.  Nothing is assumed of the tasks, the cron or Redis' answers.
FairSpec == Spec /\ WF_vars(Tick)

-----------------------------------------------------------------------------
(* Properties                                                              *)

Active(r) == pc[r] # "idle"
Holds(r) == Active(r) /\ key.token = token[r]

\* runWithLock, "Run a task exclusively under a distributed lock", while Redis
\* answers and the heartbeats are on time: at most one run is in its task,
\* however long tasks take.
Exclusive ==
    reliable => \A r, s \in Run : pc[r] = "task" /\ pc[s] = "task" => r = s

\* A run loses the key only when the time Redis granted it is over: no other
\* run's acquire, renewal or release takes it away (NX, compare-and-delete).
LostOnlyByLapse == \A r \in Run : Active(r) => Holds(r) \/ left[r] = 0

\* The key lives exactly as long as its holder's own grants: a late heartbeat of
\* a run that lost the key does not prolong its successor's (compare-and-extend).
PxIsHoldersGrant == \A r \in Run : Holds(r) => key.px = left[r]

\* A key whose holder died or never learned of it does not stop the job for
\* good: Redis drops it.
OrphanedKeyLapses == []<>(key.token = NoToken \/ \E r \in Run : Holds(r))
=============================================================================
