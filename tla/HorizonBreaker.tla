--------------------------- MODULE HorizonBreaker ---------------------------
(***************************************************************************)
(* callHorizon of stellar/stellar.service.ts and HorizonCircuitBreaker of  *)
(* stellar/horizon-resilience.ts: calls with retries that share a breaker. *)
(* A call with all its retries may outlast resetTimeoutMs (3 x 10 s and    *)
(* the backoff against 30 s), so a call's length is not bounded here.      *)
(***************************************************************************)
EXTENDS Integers, FiniteSets

CONSTANTS Call,          \* calls that may be in flight together
          MaxAttempts,   \* HORIZON_MAX_ATTEMPTS
          Threshold,     \* threshold
          ResetTimeout   \* resetTimeoutMs, in ticks

NumbersAssumption ==
    /\ MaxAttempts \in Nat \ {0}
    /\ Threshold \in Nat \ {0}
    /\ ResetTimeout \in Nat \ {0}

VARIABLES
    open,       \* openedAt # null
    elapsed,    \* ticks since openedAt, up to ResetTimeout
    timeouts,   \* consecutiveTimeouts, up to Threshold: only >= matters
    probe,      \* probeInFlight
    attempt,    \* the attempt a call is in; 0 for a call not in flight
    probing     \* history: calls that acquire let through an open circuit

vars == <<open, elapsed, timeouts, probe, attempt, probing>>

TypeOK ==
    /\ open \in BOOLEAN /\ probe \in BOOLEAN
    /\ elapsed \in 0..ResetTimeout
    /\ timeouts \in 0..Threshold
    /\ attempt \in [Call -> 0..MaxAttempts]
    /\ probing \subseteq Call

Init ==
    /\ open = FALSE /\ probe = FALSE
    /\ elapsed = 0
    /\ timeouts = 0
    /\ attempt = [c \in Call |-> 0]
    /\ probing = {}

-----------------------------------------------------------------------------

\* acquire throws HorizonUnavailableError.
Refused == open /\ (elapsed < ResetTimeout \/ probe)

Acquire(c) ==
    /\ attempt[c] = 0
    /\ ~Refused
    /\ probe' = (open \/ probe)
    /\ attempt' = [attempt EXCEPT ![c] = 1]
    /\ probing' = IF open THEN probing \cup {c} ELSE probing
    /\ UNCHANGED <<open, elapsed, timeouts>>

Retry_OneMore(c) ==
    /\ attempt[c] \in 1..MaxAttempts
    /\ attempt' = [attempt EXCEPT ![c] = @ + 1]
    /\ UNCHANGED <<open, elapsed, timeouts, probe, probing>>

\* A retryable error before the last attempt: back off and try again.
Retry(c) ==
    /\ attempt[c] \in 1..(MaxAttempts - 1)
    /\ attempt' = [attempt EXCEPT ![c] = @ + 1]
    /\ UNCHANGED <<open, elapsed, timeouts, probe, probing>>

End(c) ==
    /\ attempt[c] > 0
    /\ attempt' = [attempt EXCEPT ![c] = 0]
    /\ probing' = probing \ {c}

\* An answer, an error that is not retried, or a last attempt that failed in
\* another way than by a timeout.
RecordResponse(c) ==
    /\ End(c)
    /\ timeouts' = 0
    /\ open' = FALSE
    /\ probe' = FALSE
    /\ UNCHANGED elapsed

More == IF timeouts < Threshold THEN timeouts + 1 ELSE timeouts

RecordTimeout_KeepsFlag(c) ==
    /\ attempt[c] = MaxAttempts
    /\ End(c)
    /\ timeouts' = More
    /\ open' = (open \/ More >= Threshold)
    /\ elapsed' = IF open' THEN 0 ELSE elapsed
    /\ UNCHANGED probe

\* The last attempt timed out.  (A timeout is retryable, so no earlier one ends
\* the call.)
RecordTimeout(c) ==
    /\ attempt[c] = MaxAttempts
    /\ End(c)
    /\ probe' = FALSE
    /\ timeouts' = More
    /\ open' = (open \/ More >= Threshold)
    /\ elapsed' = IF open' THEN 0 ELSE elapsed

Tick ==
    /\ elapsed' = IF elapsed < ResetTimeout THEN elapsed + 1 ELSE elapsed
    /\ UNCHANGED <<open, timeouts, probe, attempt, probing>>

Step(c) == Retry(c) \/ RecordResponse(c) \/ RecordTimeout(c)

Next == Tick \/ \E c \in Call : Acquire(c) \/ Step(c)

Spec == Init /\ [][Next]_vars

\* Every attempt ends (withTimeout) and time passes; calls may cease to come.
FairSpec == Spec /\ WF_vars(Tick) /\ \A c \in Call : WF_vars(Step(c))

-----------------------------------------------------------------------------
(* Properties                                                              *)

\* A set flag stands for a probe of an open circuit that is still in flight,
\* however late calls of the closed period end around it: none is left over that
\* would refuse the first probe of the next opening.
FlagMeansProbe == probe => open /\ probing # {}

\* The breaker never refuses calls for good: whatever calls timed out and when,
\* it comes to a state in which acquire lets the next one through.
NeverRefusesForGood == []<>~Refused
=============================================================================
