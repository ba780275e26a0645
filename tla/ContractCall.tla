---------------------------- MODULE ContractCall ----------------------------
(***************************************************************************)
(* What invokeContract promises its callers: a call that returns has       *)
(* landed on the ledger.  A call that throws has promised nothing, and its *)
(* transaction may still land.                                             *)
(***************************************************************************)
CONSTANT Call
VARIABLES outcome,   \* what the caller has seen of a call
          landed     \* calls with a successful transaction on the ledger

Init == outcome = [c \in Call |-> "open"] /\ landed = {}

Land(c) == landed' = landed \cup {c} /\ UNCHANGED outcome

Return(c) ==
    /\ outcome[c] = "open"
    /\ c \in landed
    /\ outcome' = [outcome EXCEPT ![c] = "returned"]
    /\ UNCHANGED landed

Throw(c) ==
    /\ outcome[c] = "open"
    /\ outcome' = [outcome EXCEPT ![c] = "thrown"]
    /\ UNCHANGED landed

Next == \E c \in Call : Land(c) \/ Return(c) \/ Throw(c)

Spec == Init /\ [][Next]_<<outcome, landed>>
=============================================================================
