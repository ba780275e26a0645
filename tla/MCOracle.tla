------------------------------ MODULE MCOracle ------------------------------
(***************************************************************************)
(* The oracle's three machines in one model: how a reading is fetched, the *)
(* buffer of persistReading, and the worker's way to the chain.  They      *)
(* share no state, so every behaviour runs one of them, chosen in the      *)
(* initial state.                                                          *)
(***************************************************************************)
EXTENDS OracleSubmission, ReadingBuffer, OracleFetch

VARIABLE part

AllKinds == {"rainfall", "temperature", "delay"}

\* Plausible values and, for each kind, implausible ones.
SmallValues == (0 - 1)..3 \ {1}
SmallBounds ==
    [k \in AllKinds |-> [min |-> IF k = "temperature" THEN 0 - 1 ELSE 0, max |-> 2]]

vars == <<part, submitVars, bufferVars, fetchVars>>

Init ==
    /\ part \in {"worker", "writer", "fetcher"}
    /\ SubmitInit /\ BufferInit /\ FetchInit
    /\ part # "worker" => faults = {}
    /\ part # "fetcher" => kind = "delay" /\ day = 0

Worker(A) == part = "worker" /\ A /\ UNCHANGED <<part, bufferVars, fetchVars>>
Writer(A) == part = "writer" /\ A /\ UNCHANGED <<part, submitVars, fetchVars>>
Fetcher(A) == part = "fetcher" /\ A /\ UNCHANGED <<part, submitVars, bufferVars>>

Next == Worker(SubmitNext) \/ Writer(BufferNext) \/ Fetcher(FetchNext)

FairSpec ==
    /\ Init /\ [][Next]_vars
    /\ \A r \in Replica : WF_vars(Worker(Step(r)))
    /\ WF_vars(Writer(Flush)) /\ WF_vars(Writer(TimerFires))
=============================================================================
