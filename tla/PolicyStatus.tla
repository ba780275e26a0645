---------------------------- MODULE PolicyStatus ----------------------------
(***************************************************************************)
(* What every writer of a policy row promises: the status moves only along *)
(* VALID_TRANSITIONS (src/policy/policy-status.machine.ts), and each move  *)
(* takes exactly one version number (the optimistic lock of                *)
(* prisma/schema.prisma).  ClaimsLifecycle is shown to implement this.     *)
(***************************************************************************)
EXTENDS Naturals

VARIABLES
    status,     \* Policy.status
    version     \* Policy.version

vars == <<status, version>>

PolicyStatuses ==
    {"ACTIVE", "EXPIRED", "CLAIMED", "CANCELLED", "PROCESSING", "ERROR"}

VALID_TRANSITIONS ==
    [s \in PolicyStatuses |->
        CASE s = "ACTIVE"     -> {"EXPIRED", "CANCELLED", "CLAIMED",
                                  "PROCESSING", "ERROR"}
          [] s = "PROCESSING" -> {"CLAIMED", "ACTIVE", "ERROR"}
          [] OTHER            -> {}]

canTransition(from, to) == to \in VALID_TRANSITIONS[from]

Init == status = "ACTIVE" /\ version = 0

transition(to) ==
    /\ canTransition(status, to)
    /\ status' = to
    /\ version' = version + 1

Next == \E to \in PolicyStatuses : transition(to)

Spec == Init /\ [][Next]_vars
=============================================================================
