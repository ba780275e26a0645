------------------------------- MODULE MCRequests ---------------------------
(***************************************************************************)
(* What stands between a client and the handlers: idempotency keys, wallet *)
(* logins, tokens and the operator's failed attempts in one model. They    *)
(* share no state, so every behaviour runs one of them, chosen in the      *)
(* initial state.                                                          *)
(***************************************************************************)
EXTENDS Integers

CONSTANTS Request,
          MaxNonces, NonceTtl, MaxFailed, LockoutTtl, FaultSets,
          MaxTokens, AccessLife, RefreshLife,
          Window, MaxFailures, Grace,
          Keyed, NoRequest, WaitTimeout, RequestTimeout, LockTtl, KeyFaults

VARIABLES part,
          redis, db, lockout, issued, pc, arg, faults,
          kind, left, mark, family, rotation, tok, marked,
          record, guard, read, uptime, recent,
          cached, lock, keyed, age, answer, handler, cmds, hold, failing

L == INSTANCE WalletLogin
T == INSTANCE Tokens WITH Call <- Request, pc <- rotation
O == INSTANCE OperatorLockout WITH pc <- guard
I == INSTANCE Idempotency WITH Request <- Keyed, FaultSets <- KeyFaults,
                               pc <- keyed, faults <- failing

ASSUME IAssumption == I!TimesAssumption /\ I!LockOutlivesRequest
ASSUME LAssumption == L!LoginAssumption
ASSUME TAssumption == T!LivesAssumption
ASSUME OAssumption == O!WindowAssumption

login == <<redis, db, lockout, issued, pc, arg, faults>>
tokens == <<kind, left, mark, family, rotation, tok, marked>>
operator == <<record, guard, read, uptime, recent>>
keys == <<cached, lock, keyed, age, answer, handler, cmds, hold, failing>>
vars == <<part, login, tokens, operator, keys>>

Init ==
    /\ part \in {"login", "tokens", "operator", "keys"}
    /\ L!Init /\ T!Init /\ O!Init /\ I!Init
    /\ part # "login" => faults = {}
    /\ part # "keys" => failing = {}

Login(A) == part = "login" /\ A /\ UNCHANGED <<part, tokens, operator, keys>>
Keys(A) == part = "keys" /\ A /\ UNCHANGED <<part, login, tokens, operator>>

Next ==
    \/ Login(L!Next)
    \/ part = "tokens" /\ T!Next /\ UNCHANGED <<part, login, operator, keys>>
    \/ part = "operator" /\ O!Next /\ UNCHANGED <<part, login, tokens, keys>>
    \/ Keys(I!Next)

FairSpec ==
    /\ Init /\ [][Next]_vars
    /\ WF_vars(Login(L!Tick))
    /\ \A x \in Request : WF_vars(Login(L!Step(x)))
    /\ \A x \in Keyed :
        /\ WF_vars(Keys(I!Get(x) \/ I!Acquire(x) \/ I!Recheck(x)))
        /\ WF_vars(Keys(I!Command(x))) /\ WF_vars(Keys(I!TimeOut(x)))
    /\ WF_vars(Keys(I!Tick))

\* WalletLogin: the counter of failed attempts has a TTL, or is about to get it.
LockoutHasExpiry == L!LockoutHasExpiry
\* WalletLogin: a lockout ends while requests run to their end.
LockoutEnds == L!LockoutEnds
\* Tokens: a revoked or rotated token stays barred until its exp.
MarkOutlivesToken == T!MarkOutlivesToken
\* OperatorLockout: checkRateLimit refuses only after MaxFailures in a window.
RefusedForRecentFailures == O!RefusedForRecentFailures
\* Idempotency: no two requests that owe an answer run the handler together.
OneLiveHandler == I!OneLiveHandler
\* Idempotency: after a client got a 2xx, the handler does not start again.
SuccessIsFinal == I!SuccessIsFinal
\* Idempotency: no crash, abort or failed release leaves the key locked.
LockComesFree == I!LockComesFree
\* Idempotency: a handler that succeeded does not run again, as the API
\* description says of a retry with the same key.
NotReexecuted == I!NotReexecuted
=============================================================================
