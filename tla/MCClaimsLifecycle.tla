------------------------- MODULE MCClaimsLifecycle -------------------------
EXTENDS ClaimsLifecycle, TLC

\* Ids are interchangeable: nothing orders workers, callers or claims.
Symmetry == Permutations(Workers) \cup Permutations(Callers)
                \cup Permutations(Claim)
=============================================================================
