---------------------------- MODULE OracleBreaker ----------------------------
(***************************************************************************)
(* CircuitBreaker of oracle/oracle.service.ts with concurrent calls to one *)
(* upstream.  A call may outlast ResetTimeout: executeWithRateLimitBackoff *)
(* sleeps inside it for as long as the upstream asks.  getState moves the  *)
(* circuit to HALF_OPEN only when a call asks, so the move is part of that *)
(* call's first step.  A rejected call changes nothing and is no step.     *)
(***************************************************************************)
EXTENDS Integers, FiniteSets

CONSTANTS Call,           \* calls that may be in flight together
          Threshold,      \* failureThreshold
          ResetTimeout    \* resetTimeoutMs, in ticks

ASSUME BreakerAssumption ==
    Threshold \in Nat \ {0} /\ ResetTimeout \in Nat

VARIABLES
    state,      \* CLOSED, OPEN or HALF_OPEN
    failures,   \* failureCount, counted up to Cap: only >= Threshold matters
    since,      \* ticks since lastFailureTime, up to ResetTimeout
    probe,      \* probeInFlight
    flight,     \* calls in flight
    probing,    \* history: those let through by the circuit now half-open
    rejects     \* whether the upstream may answer 4xx in this behaviour

breakerVars == <<state, failures, since, probe, flight, probing, rejects>>

Cap == Threshold + 1

BreakerTypeOK ==
    /\ state \in {"CLOSED", "OPEN", "HALF_OPEN"}
    /\ failures \in 0..Cap
    /\ since \in 0..ResetTimeout
    /\ probe \in BOOLEAN
    /\ flight \subseteq Call /\ probing \subseteq flight
    /\ rejects \in BOOLEAN

BreakerInit ==
    /\ state = "CLOSED"
    /\ failures = 0 /\ since = ResetTimeout
    /\ probe = FALSE
    /\ flight = {} /\ probing = {}
    /\ rejects \in BOOLEAN

-----------------------------------------------------------------------------

\* getState, whose result execute acts on.
HalfOpens == state = "OPEN" /\ since = ResetTimeout
GetState == IF HalfOpens THEN "HALF_OPEN" ELSE state
ProbeInFlight_Forgotten == FALSE
ProbeInFlight == probe /\ ~HalfOpens

Execute(c) ==
    /\ c \notin flight
    /\ GetState # "OPEN"
    /\ GetState = "HALF_OPEN" => ~ProbeInFlight
    /\ flight' = flight \cup {c}
    /\ state' = GetState
    /\ probe' = (GetState = "HALF_OPEN" \/ ProbeInFlight)
    /\ probing' = IF GetState = "HALF_OPEN" THEN probing \cup {c} ELSE probing
    /\ UNCHANGED <<failures, since, rejects>>

End(c) ==
    /\ c \in flight
    /\ flight' = flight \ {c}
    /\ probing' = IF state' = "HALF_OPEN" THEN probing \ {c} ELSE {}
    /\ UNCHANGED rejects

OnSuccess_KeepsCount(c) ==
    /\ probe' = FALSE
    /\ state' = "CLOSED"
    /\ End(c)
    /\ UNCHANGED <<failures, since>>

OnSuccess(c) ==
    /\ probe' = FALSE
    /\ failures' = 0
    /\ state' = "CLOSED"
    /\ End(c)
    /\ UNCHANGED since

\* A 4xx answer is not counted, and leaves probeInFlight as it is.
OnClientError(c) ==
    /\ rejects
    /\ UNCHANGED <<state, failures, since, probe>>
    /\ End(c)

Count_Down(n) == n - 1
Count(n) == IF n < Cap THEN n + 1 ELSE n
AtThreshold_Equal(n) == n = Threshold
AtThreshold(n) == n >= Threshold

\* A 5xx answer, a timeout or a network error.
OnFailure(c) ==
    /\ failures' = Count(failures)
    /\ since' = 0
    /\ state' = IF AtThreshold(Count(failures)) THEN "OPEN" ELSE state
    /\ End(c)
    /\ UNCHANGED probe

BreakerTick ==
    /\ since' = IF since < ResetTimeout THEN since + 1 ELSE since
    /\ UNCHANGED <<state, failures, probe, flight, probing, rejects>>

Finish(c) == OnSuccess(c) \/ OnFailure(c) \/ OnClientError(c)

BreakerNext == BreakerTick \/ \E c \in Call : Execute(c) \/ Finish(c)

BreakerSpec == BreakerInit /\ [][BreakerNext]_breakerVars

\* Every call ends (the axios timeout, three tries).
BreakerFairSpec == BreakerSpec /\ \A c \in Call : WF_breakerVars(Finish(c))

-----------------------------------------------------------------------------
(* Properties                                                              *)

\* A half-open circuit lets one call through, whatever calls of earlier periods
\* end around it.
SingleProbe == Cardinality(probing) <= 1

\* A half-open circuit waits for a probe that is really under way ("allowing one
\* probe request through.  A success closes the circuit; a failure reopens it").
HalfOpenHasProbe == state = "HALF_OPEN" => probing # {}

\* A closed circuit has room for failures: whatever late answers arrive, the
\* count never stays at the threshold behind a closed circuit.
ClosedBelowThreshold == state = "CLOSED" => failures < Threshold

\* While the upstream answers no 4xx, the circuit never stays half-open.
HalfOpenResolves == ~rejects /\ state = "HALF_OPEN" ~> state # "HALF_OPEN"
=============================================================================
