----------------------------- MODULE Idempotency -----------------------------
(***************************************************************************)
(* Requests with one Idempotency-Key, as IdempotencyMiddleware and         *)
(* RequestTimeoutMiddleware treat them: the cached response, the lock that *)
(* lets one of them run the handler, the others polling, the 408 timer.    *)
(* A handler is not cancelled when its request is answered by the timer or *)
(* left by its client.                                                     *)
(***************************************************************************)
EXTENDS Integers, Sequences, FiniteSets

CONSTANTS Request,
          NoRequest,
          WaitTimeout,      \* IDEMPOTENCY_WAIT_TIMEOUT_MS, 25 s, in ticks
          RequestTimeout,   \* SERVER_TIMEOUT_MS, 30 s
          LockTtl,          \* IDEMPOTENCY_LOCK_TTL_SECONDS, 35 s
          FaultSets         \* the environments

TimesAssumption ==
    /\ WaitTimeout \in Nat /\ RequestTimeout \in Nat /\ LockTtl \in Nat
    /\ NoRequest \notin Request

\* The lock's TTL is longer than a request may take.
LockOutlivesRequest == RequestTimeout < LockTtl

VARIABLES
    cached,    \* whether storeKey holds a 2xx response
    lock,      \* the token in lockKey and its remaining TTL
    pc,        \* where each request's handle() is
    age,       \* ticks since a request arrived, up to RequestTimeout
    answer,    \* what its client got
    handler,   \* its handler: none, running, or the way it ended
    cmds,      \* its un-awaited Redis commands
    hold,      \* its use of the lock: no, held by runWithLock, or released
    faults     \* what may fail in this behaviour

vars == <<cached, lock, pc, age, answer, handler, cmds, hold, faults>>

Free == [by |-> NoRequest, ttl |-> 0]
Answer == {"none", "ok", "error", "replay", "408", "409", "gone"}

TypeOK ==
    /\ cached \in BOOLEAN
    /\ lock \in {Free} \cup [by : Request, ttl : 1..LockTtl]
    /\ pc \in [Request -> {"new", "get", "lock", "recheck", "poll", "done"}]
    /\ age \in [Request -> 0..RequestTimeout]
    /\ answer \in [Request -> Answer]
    /\ handler \in [Request -> {"none", "running", "ok", "error", "dead"}]
    /\ cmds \in [Request -> {<<>>, <<"set", "release">>, <<"release">>}]
    /\ hold \in [Request -> {"no", "held", "released"}]
    /\ faults \in FaultSets

Init ==
    /\ cached = FALSE /\ lock = Free
    /\ pc = [x \in Request |-> "new"] /\ age = [x \in Request |-> 0]
    /\ answer = [x \in Request |-> "none"]
    /\ handler = [x \in Request |-> "none"]
    /\ cmds = [x \in Request |-> <<>>] /\ hold = [x \in Request |-> "no"]
    /\ faults \in FaultSets

-----------------------------------------------------------------------------
(* handle                                                                  *)

Arrive(x) ==
    /\ pc[x] = "new"
    /\ pc' = [pc EXCEPT ![x] = "get"]
    /\ UNCHANGED <<cached, lock, age, answer, handler, cmds, hold, faults>>

\* The response goes out unless the timer or the client came first.
Send(x, a) == answer' = [answer EXCEPT ![x] = IF @ = "none" THEN a ELSE @]

\* replayCached at the head of the loop.
Get(x) ==
    /\ pc[x] = "get"
    /\ IF cached THEN Send(x, "replay") /\ pc' = [pc EXCEPT ![x] = "done"]
                 ELSE UNCHANGED answer /\ pc' = [pc EXCEPT ![x] = "lock"]
    /\ UNCHANGED <<cached, lock, age, handler, cmds, hold, faults>>

\* The SET NX EX; a ttl of 0 would never lapse.
TryLock_NoNx(x) == lock' = [by |-> x, ttl |-> LockTtl]
TryLock_NoEx(x) == lock = Free /\ lock' = [by |-> x, ttl |-> 0]
TryLock(x) == lock = Free /\ lock' = [by |-> x, ttl |-> LockTtl]

\* A request that does not get the lock polls until its deadline.
GivesUp_Late(x) == age[x] > WaitTimeout
GivesUp(x) == age[x] >= WaitTimeout
Acquire(x) ==
    /\ pc[x] = "lock"
    /\ \/ TryLock(x) /\ pc' = [pc EXCEPT ![x] = "recheck"] /\ UNCHANGED answer
       \/ /\ lock # Free /\ GivesUp(x) /\ UNCHANGED lock
          /\ Send(x, "409") /\ pc' = [pc EXCEPT ![x] = "done"]
       \/ /\ lock # Free /\ ~GivesUp(x) /\ UNCHANGED <<lock, answer>>
          /\ pc' = [pc EXCEPT ![x] = "poll"]
    /\ UNCHANGED <<cached, age, handler, cmds, hold, faults>>

Poll(x) ==
    /\ pc[x] = "poll"
    /\ pc' = [pc EXCEPT ![x] = "get"]
    /\ UNCHANGED <<cached, lock, age, answer, handler, cmds, hold, faults>>

\* With the lock: replay what was cached since, or runWithLock and next().  The
\* listeners on 'close' miss a client that has already gone.
Recheck_Trusts(x) ==
    /\ pc[x] = "recheck"
    /\ handler' = [handler EXCEPT ![x] = "running"]
    /\ hold' = [hold EXCEPT ![x] = "held"]
    /\ pc' = [pc EXCEPT ![x] = "done"]
    /\ UNCHANGED <<cached, lock, age, answer, cmds, faults>>
Recheck(x) ==
    /\ pc[x] = "recheck"
    /\ pc' = [pc EXCEPT ![x] = "done"]
    /\ IF cached
       THEN /\ Send(x, "replay")
            /\ cmds' = [cmds EXCEPT ![x] = <<"release">>]
            /\ UNCHANGED <<handler, hold>>
       ELSE /\ handler' = [handler EXCEPT ![x] = "running"]
            /\ hold' = [hold EXCEPT ![x] = "held"]
            /\ UNCHANGED <<answer, cmds>>
    /\ UNCHANGED <<cached, lock, age, faults>>

\* A Redis command of handle() fails: the request runs without the lock, or
\* with a lock that nobody releases.
FailOpen(x) ==
    /\ "redis" \in faults /\ pc[x] \in {"get", "lock", "recheck"}
    /\ pc' = [pc EXCEPT ![x] = "done"]
    /\ handler' = IF answer[x] \in {"none", "gone"}
                  THEN [handler EXCEPT ![x] = "running"] ELSE handler
    /\ UNCHANGED <<cached, lock, age, answer, cmds, hold, faults>>

-----------------------------------------------------------------------------
(* The handler and the end of the response                                 *)

\* The response is over: 'finish' or 'close' releases the lock once.
Release(x) ==
    IF hold[x] = "held"
    THEN /\ cmds' = [cmds EXCEPT ![x] = <<"release">>]
         /\ hold' = [hold EXCEPT ![x] = "released"]
    ELSE UNCHANGED <<cmds, hold>>

\* The handler's res.json.  A 2xx of a request not yet released is stored, and
\* the lock goes after the store has settled; any other response releases it by
\* ending, which a client that left before runWithLock may prevent.
Respond(x, end) ==
    /\ handler[x] = "running"
    /\ handler' = [handler EXCEPT ![x] = end]
    /\ Send(x, end)
    /\ \/ /\ end = "ok" /\ hold[x] = "held"
          /\ cmds' = [cmds EXCEPT ![x] = <<"set", "release">>]
          /\ hold' = [hold EXCEPT ![x] = "released"]
       \/ ~(end = "ok" /\ hold[x] = "held") /\ Release(x)
       \/ end = "error" /\ answer[x] = "gone" /\ UNCHANGED <<cmds, hold>>
    /\ UNCHANGED <<cached, lock, pc, age, faults>>

\* The timer of RequestTimeoutMiddleware: a 408, and the socket is destroyed.
TimeOut(x) ==
    /\ pc[x] # "new" /\ answer[x] = "none" /\ age[x] = RequestTimeout
    /\ Send(x, "408")
    /\ Release(x)
    /\ UNCHANGED <<cached, lock, pc, age, handler, faults>>

\* The client closes the connection.
Leave(x) ==
    /\ "client" \in faults
    /\ pc[x] # "new" /\ answer[x] = "none"
    /\ Send(x, "gone")
    /\ Release(x)
    /\ UNCHANGED <<cached, lock, pc, age, handler, faults>>

\* One un-awaited command runs: the store, or the compare-and-delete.  Its
\* failure is logged.
Command(x) ==
    /\ cmds[x] # <<>>
    /\ cmds' = [cmds EXCEPT ![x] = Tail(@)]
    /\ \/ cmds[x][1] = "set" /\ cached' = TRUE /\ UNCHANGED lock
       \/ /\ cmds[x][1] = "release"
          /\ lock' = IF lock.by = x THEN Free ELSE lock
          /\ UNCHANGED cached
       \/ "redis" \in faults /\ UNCHANGED <<cached, lock>>
    /\ UNCHANGED <<pc, age, answer, handler, hold, faults>>

\* The process that serves the request dies.
Crash(x) ==
    /\ "crash" \in faults /\ pc[x] # "new"
    /\ handler[x] = "running" \/ pc[x] # "done" \/ cmds[x] # <<>>
    /\ pc' = [pc EXCEPT ![x] = "done"]
    /\ handler' = [handler EXCEPT ![x] = IF @ = "running" THEN "dead" ELSE @]
    /\ cmds' = [cmds EXCEPT ![x] = <<>>]
    /\ Send(x, "gone")
    /\ UNCHANGED <<cached, lock, age, hold, faults>>

\* Redis answers within a tick: the commands sent, the second look under the
\* lock and, at the deadline, the round of the loop that a poll began.
Settled(x) ==
    /\ cmds[x] = <<>> /\ pc[x] # "recheck"
    /\ pc[x] \in {"get", "lock"} => age[x] < WaitTimeout
    /\ answer[x] = "none" => age[x] < RequestTimeout

\* A tick is longer than the poll interval.
Tick ==
    /\ \A x \in Request : Settled(x)
    /\ age' = [x \in Request |->
                IF pc[x] = "new" \/ answer[x] # "none" THEN age[x] ELSE age[x] + 1]
    /\ pc' = [x \in Request |-> IF pc[x] = "poll" THEN "get" ELSE pc[x]]
    /\ lock' = CASE lock.ttl = 1 -> Free
                 [] lock.ttl > 1 -> [lock EXCEPT !.ttl = @ - 1]
                 [] OTHER -> lock
    /\ UNCHANGED <<cached, answer, handler, cmds, hold, faults>>

Next ==
    \/ \E x \in Request :
        \/ Arrive(x) \/ Get(x) \/ Acquire(x) \/ Poll(x) \/ Recheck(x)
        \/ FailOpen(x) \/ TimeOut(x) \/ Leave(x) \/ Command(x) \/ Crash(x)
        \/ \E end \in {"ok", "error"} : Respond(x, end)
    \/ Tick

Spec == Init /\ [][Next]_vars

\* Node runs what is due and Redis answers; a handler need not return, and no
\* client need leave.
Fairness ==
    /\ \A x \in Request :
        /\ WF_vars(Get(x) \/ Acquire(x) \/ Recheck(x))
        /\ WF_vars(Command(x)) /\ WF_vars(TimeOut(x))
    /\ WF_vars(Tick)

FairSpec == Spec /\ Fairness

-----------------------------------------------------------------------------

\* While Redis answers, no two requests that still owe their client an answer
\* run the handler together, whoever crashes, times out or leaves: the lock
\* outlives the request that holds it.
OneLiveHandler ==
    "redis" \notin faults =>
        \A x, y \in Request :
            /\ handler[x] = "running" /\ handler[y] = "running"
            /\ answer[x] = "none" /\ answer[y] = "none"
            => x = y

\* Once a client got the handler's 2xx no request starts the handler again: the
\* response is stored before the lock goes, and whoever gets the lock next looks
\* for it a second time.
SuccessIsFinal ==
    [][faults \cap {"redis", "crash"} = {} =>
        \A x \in Request : handler[x] = "none" /\ handler'[x] = "running" =>
            \A y \in Request : answer[y] # "ok"]_vars

\* What the comment on the constants promises: a waiter gives up before the
\* request timeout and answers 409, so a 408 always stands for a handler that
\* took too long.
WaitersGet409 ==
    "redis" \notin faults =>
        \A x \in Request : answer[x] = "408" => handler[x] # "none"

\* No crash, abort or failed release leaves the key locked for good.
LockComesFree == lock # Free ~> lock = Free

\* What the API description says of retries: with the same key "a request that
\* actually succeeded server-side but timed out on the client is not re-executed".
NotReexecuted ==
    [][\A x \in Request : handler[x] = "none" /\ handler'[x] = "running" =>
        \A y \in Request : handler[y] # "ok"]_vars

=============================================================================
