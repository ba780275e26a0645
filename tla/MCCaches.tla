------------------------------ MODULE MCCaches ------------------------------
(***************************************************************************)
(* The caches of the service in one model: the derived state of a policy   *)
(* (PolicyStateCache, two replicas with one reader each), the product      *)
(* listing (ProductCatalogue) and the health endpoint (HealthCheck). They  *)
(* share no state, so every behaviour runs one of them, chosen in the      *)
(* initial state.                                                          *)
(***************************************************************************)
EXTENDS PolicyStateCache, ProductCatalogue, HealthCheck, TLC

VARIABLE part

\* A reader is named after its replica.
Itself == [r \in Replica |-> r]

\* Two changes, or one while Redis and the replicas may fail.
TwoOrOne == [f \in FaultSets |-> IF f = {} THEN 2 ELSE 1]

\* Replicas, with their readers, are told apart by name only, and every property
\* here is an invariant.
Symmetry == Permutations(Replica)

vars == <<part, stateVars, catalogueVars, healthVars>>

\* A part that does not run has one initial state.
Init ==
    /\ part \in {"state", "catalogue", "health"}
    /\ StateInit /\ CatalogueInit /\ HealthInit
    /\ part # "state" => faults = {}
    /\ part # "catalogue" => product = Absent
    /\ part # "health" => watched = "openMeteo"

PolicyStates(A) == part = "state" /\ A /\ UNCHANGED <<part, catalogueVars, healthVars>>
Catalogue(A) == part = "catalogue" /\ A /\ UNCHANGED <<part, stateVars, healthVars>>
Health(A) == part = "health" /\ A /\ UNCHANGED <<part, stateVars, catalogueVars>>

Next == PolicyStates(StateNext) \/ Catalogue(CatalogueNext) \/ Health(HealthNext)

Spec == Init /\ [][Next]_vars
=============================================================================
