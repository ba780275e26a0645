--------------------------- MODULE OperatorLockout ---------------------------
(***************************************************************************)
(* OperatorAuthGuard for one client address: the API key or admin token of *)
(* a request, and the record of failed attempts in Redis, which is read    *)
(* and written back in two commands.                                       *)
(***************************************************************************)
EXTENDS Integers, FiniteSets

CONSTANTS Request,
          Window,        \* RATE_LIMIT_WINDOW_MS, in ticks
          MaxFailures,   \* RATE_LIMIT_MAX_FAILURES
          Grace          \* API_KEY_ROTATION_GRACE_MINUTES, in ticks

VARIABLES
    record,    \* the key's value: count, ticks to resetAt; and its PX
    pc, read,  \* where each request is, and the record it has read
    uptime,    \* ticks since the process started, up to Grace
    recent     \* history: ticks since each of the latest failures, up to Window

vars == <<record, pc, read, uptime, recent>>

WindowAssumption == Window \in Nat /\ MaxFailures \in Nat

None == [count |-> 0, reset |-> 0, px |-> 0]
MaxCount == MaxFailures + Cardinality(Request)

TypeOK ==
    /\ record \in [count : 0..MaxCount, reset : 0..Window, px : 0..Window]
    /\ pc \in [Request -> {"idle", "check", "clear", "decide", "load", "store", "reset"}]
    /\ read \in [Request -> [count : 0..MaxCount, reset : 0..Window, px : 0..Window]]
    /\ uptime \in 0..Grace
    /\ recent \in [1..MaxFailures -> 0..Window]

Init ==
    /\ record = None
    /\ pc = [x \in Request |-> "idle"] /\ read = [x \in Request |-> None]
    /\ uptime = 0
    /\ recent = [i \in 1..MaxFailures |-> Window]

Goto(x, step) == pc' = [pc EXCEPT ![x] = step]

-----------------------------------------------------------------------------
(* canActivate                                                             *)

Start(x) ==
    /\ pc[x] = "idle"
    /\ Goto(x, "check")
    /\ UNCHANGED <<record, read, uptime, recent>>

\* checkRateLimit reads the record: a client at the limit is refused until
\* resetAt, and the record of a past window is deleted.
CheckRateLimit(x) ==
    /\ pc[x] = "check"
    /\ Goto(x, CASE record # None /\ record.reset = 0 -> "clear"
                 [] record.reset > 0 /\ record.count >= MaxFailures -> "idle"
                 [] OTHER -> "decide")
    /\ UNCHANGED <<record, read, uptime, recent>>

ClearPast(x) ==
    /\ pc[x] = "clear"
    /\ record' = None
    /\ Goto(x, "decide")
    /\ UNCHANGED <<read, uptime, recent>>

\* resolveApiKeySource: a current key always, a previous one within the grace.
Accepts(credential) ==
    \/ credential \in {"key", "admin token"}
    \/ credential = "previous key" /\ uptime < Grace

\* A token that does not verify, or a malformed header, is refused without being
\* counted: verifyAsync and getOptionalBearerToken throw UnauthorizedException.
Decide(x, credential) ==
    /\ pc[x] = "decide"
    /\ Goto(x, CASE Accepts(credential) -> "reset"
                 [] credential = "bad token" -> "idle"
                 [] OTHER -> "load")
    /\ UNCHANGED <<record, read, uptime, recent>>

\* recordFailure: GET ...
Load(x) ==
    /\ pc[x] = "load"
    /\ read' = [read EXCEPT ![x] = record]
    /\ Goto(x, "store")
    /\ UNCHANGED <<record, uptime, recent>>

\* ... and SET, of a new record or of the old one with its resetAt.  Its PX is at
\* least a second, so it may outlive the window.
Px(reset) == IF reset > 1 THEN reset ELSE 2
Counted_Slides(r) ==
    IF r = None \/ r.reset = 0 THEN [count |-> 1, reset |-> Window, px |-> Window]
    ELSE [count |-> r.count + 1, reset |-> Window, px |-> Window]
Counted(r) ==
    IF r = None \/ r.reset = 0 THEN [count |-> 1, reset |-> Window, px |-> Window]
    ELSE [count |-> r.count + 1, reset |-> r.reset, px |-> Px(r.reset)]

Store(x) ==
    /\ pc[x] = "store"
    /\ record' = Counted(read[x])
    /\ read' = [read EXCEPT ![x] = None]
    /\ recent' = [i \in 1..MaxFailures |-> IF i = 1 THEN 0 ELSE recent[i - 1]]
    /\ Goto(x, "idle")
    /\ UNCHANGED uptime

\* resetFailures, after which the request is let in.
Reset(x) ==
    /\ pc[x] = "reset"
    /\ record' = None
    /\ Goto(x, "idle")
    /\ UNCHANGED <<read, uptime, recent>>

\* Redis answers within a tick, so no record is written back in a later tick
\* than it was read in.
Tick ==
    /\ \A x \in Request : pc[x] # "store"
    /\ record' = IF record.px > 1
                 THEN [record EXCEPT !.px = @ - 1,
                                       !.reset = IF @ > 0 THEN @ - 1 ELSE 0]
                 ELSE None
    /\ uptime' = IF uptime < Grace THEN uptime + 1 ELSE uptime
    /\ recent' = [i \in 1..MaxFailures |->
                     IF recent[i] < Window THEN recent[i] + 1 ELSE Window]
    /\ UNCHANGED <<pc, read>>

Next ==
    \/ \E x \in Request :
        \/ Start(x) \/ CheckRateLimit(x) \/ ClearPast(x) \/ Load(x) \/ Store(x) \/ Reset(x)
        \/ \E credential \in {"key", "previous key", "admin token",
                              "other token", "bad token", "none"} : Decide(x, credential)
    \/ Tick

Spec == Init /\ [][Next]_vars

-----------------------------------------------------------------------------

\* A client is refused only for what it did within the window: the latest
\* MaxFailures failed attempts fall into it, however their reads and writes of the
\* record interleave with each other, with a success and with its end.
RefusedForRecentFailures ==
    record.reset > 0 /\ record.count >= MaxFailures =>
        \A i \in 1..MaxFailures : recent[i] < Window

=============================================================================
