----------------------- MODULE ClaimsLifecycleProofs ------------------------
(***************************************************************************)
(* The inductive invariant of ClaimsLifecycle and what follows from it.    *)
(* First the half of the proof that is about types: every step from a      *)
(* state with TypeOK and HeldClaims leads to a state with TypeOK; and what *)
(* the building blocks of the actions do.  Then the other half, Rest: the  *)
(* actions are described by what they do to the state Rest speaks of (who  *)
(* lets go of what, which claim is written, how the policy moves), with    *)
(* one lemma per kind of step.  Last the theorems: the safety invariants   *)
(* of ClaimsLifecycle, its refinement of PolicyStatus and its action       *)
(* properties.                                                             *)
(***************************************************************************)
EXTENDS ClaimsLifecycle, TLAPS

\* The claim a handler works on is its own until its outcome is written: an
\* attempt's is PROCESSING, or FAILED if the sweep gave up on it, without a
\* hash; a submission's is PENDING.
Submitting(h) == pc[h] = "submit_invoke"
Holds(h) == Attempting(h) \/ Submitting(h)

HeldClaims ==
    \A h \in Handler :
        /\ Holds(h) => local[h].claim \in Claim
        /\ Attempting(h) =>
              /\ claims[local[h].claim].status \in {"PROCESSING", "FAILED"}
              /\ claims[local[h].claim].txHash = "null"
        /\ Submitting(h) => claims[local[h].claim].status = "PENDING"

HeldDistinct ==
    \A g, h \in Handler :
        Holds(g) /\ Holds(h) /\ local[g].claim = local[h].claim => g = h

\* An attempt's gate lies in the past, and it is the gate in place exactly
\* when the attempt's claim is the latest one gated.
GateVersions ==
    \A h \in Handler :
        Attempting(h) =>
            /\ local[h].version + 1 <= policy.version
            /\ policy.status = "PROCESSING" =>
                  (local[h].claim = gateClaim <=>
                      policy.version = local[h].version + 1)

\* An attempt loses its gate only to the sweep.
LostGateWasSwept ==
    \A h \in Handler :
        Attempting(h) => \/ HoldsGate(h)
                         \/ local[h].claim \in swept
                         \/ policy.status = "CLAIMED"

\* A submission that is not confirmed keeps the gate shut.
NoPendingWhileGated ==
    policy.status = "PROCESSING" =>
        \A c \in Claim : claims[c].status # "PENDING"

\* While its guard can still match, what a sweep read is current.
SweepView ==
    \A w \in Workers :
        pc[w] = "sweep" =>
            /\ local[w].cutoff <= now
            /\ local[w].paid # {} => \E c \in Claim : claims[c].status = "PAID"
            /\ SweepGuard(w) =>
                  /\ policy.version = local[w].version
                  /\ claims[gateClaim].status = "PROCESSING" =>
                        gateClaim \in local[w].inFlight

\* The inductive invariant: the properties of ClaimsLifecycle with the conjuncts
\* above that carry them.
Rest ==
    /\ OneOpenClaim /\ ManualReviewIdle /\ NoPendingWhileGated
    /\ ClaimedMeansPaid /\ PaidUnclaimedWasSwept
    /\ GateClaimUnsettled /\ OneAttemptPerGate /\ GateVersions
    /\ LostGateWasSwept /\ HeldClaims /\ HeldDistinct /\ SweepView

IInv == TypeOK /\ Rest

USE ConstantsAssumption DEF Handler, Time

-----------------------------------------------------------------------------
(* What the building blocks of the actions write                           *)

\* The row a status write leaves is a policy row.
LEMMA WrittenType ==
    ASSUME TypeOK, NEW s \in PolicyStatus
    PROVE  Written(s) \in PolicyRow
BY DEF TypeOK, Written, PolicyRow

\* What a handler starts to carry is well typed.
LEMMA FreshType ==
    ASSUME NEW v \in Nat, NEW r \in Reading, NEW c \in Claim \cup {NoClaim}
    PROVE  Fresh(v, r, c) \in Local
BY DEF Fresh, Local

\* A claim row with another status and hash is a claim row.
LEMMA ClaimAsType ==
    ASSUME TypeOK, NEW c \in Claim, NEW s \in ClaimStatus,
           NEW hash \in {"null", "hash"}
    PROVE  ClaimAs(c, s, hash) \in ClaimRow
BY DEF TypeOK, ClaimAs, ClaimRow

\* A write of a claim's status keeps the rows well typed.
LEMMA SetStatusType ==
    ASSUME TypeOK, NEW c \in Claim, NEW s \in ClaimStatus, SetStatus(c, s)
    PROVE  claims' \in [Claim -> ClaimRow]
<1>1. claims[c].txHash \in {"null", "hash"}
  BY DEF TypeOK, ClaimRow
<1> QED BY <1>1, ClaimAsType DEF TypeOK, SetStatus, SetClaim

\* A handler that moves on stays well typed.
LEMMA GotoType ==
    ASSUME TypeOK, NEW h \in Handler, NEW s \in Steps, NEW l \in Local,
           Goto(h, s, l)
    PROVE  pc' \in [Handler -> Steps] /\ local' \in [Handler -> Local]
BY DEF TypeOK, Goto

\* A handler that returns stays well typed.
LEMMA ReturnType ==
    ASSUME TypeOK, NEW h \in Handler, Return(h) \/ ReturnUnpaid(h)
    PROVE  pc' \in [Handler -> Steps] /\ local' \in [Handler -> Local]
<1>1. Blank \in Local
  BY FreshType DEF Blank, Reading
<1>2. Fresh(0, "none", local[h].claim) \in Local
  <2>1. local[h].claim \in Claim \cup {NoClaim}
    BY DEF TypeOK, Local
  <2> QED BY <2>1, FreshType DEF Reading
<1>3. {"idle", "expire"} \subseteq Steps
  BY DEF Steps
<1> QED BY <1>1, <1>2, <1>3, GotoType, Zenon DEF Return, ReturnUnpaid

-----------------------------------------------------------------------------
(* Type correctness                                                        *)

\* A step that moves one handler, holds no claim afterwards and writes nothing
\* the invariant speaks of.
Quiet(h) ==
    /\ \E s \in Steps \ {"gated", "payout", "submit_invoke", "sweep"},
          l \in Local : Goto(h, s, l)
    /\ updates' = updates
    /\ faults' \in 0..MaxFaults
    /\ UNCHANGED <<policy, claims, invoked, landed, now, history>>

\* The checks, the misses, the scan and a crash only move their handler.
LEMMA QuietSteps ==
    ASSUME TypeOK, NEW h \in Handler,
           \/ AutoEvaluate(h) \/ AutoReserveMissed(h) \/ AutoReserveThrows(h)
           \/ SweepFails(h) \/ WorkerScan(h)
           \/ SubmitCheck(h) \/ SubmitConflict(h) \/ Abort(h)
    PROVE  Quiet(h)
<1>1. policy.version \in Nat
  BY DEF TypeOK, PolicyRow
<1>2. /\ Blank \in Local
      /\ Fresh(0, "none", local[h].claim) \in Local
      /\ \A r \in Reading : Fresh(policy.version, r, NoClaim) \in Local
  <2>1. local[h].claim \in Claim \cup {NoClaim}
    BY DEF TypeOK, Local
  <2> QED BY <1>1, <2>1, FreshType DEF Blank, Reading
<1>3. {"idle", "expire", "reserve", "scan", "scanned", "submit_reserve"}
        \subseteq Steps \ {"gated", "payout", "submit_invoke", "sweep"}
  BY DEF Steps
<1>4. "none" \in Reading
  BY DEF Reading
<1>5. faults' \in 0..MaxFaults /\ updates' = updates
  BY DEF TypeOK, AutoEvaluate, AutoReserveMissed, AutoReserveThrows, SweepFails,
         WorkerScan, SubmitCheck, SubmitConflict, Abort
<1>6. UNCHANGED <<policy, claims, invoked, landed, now, history>>
  BY DEF AutoEvaluate, AutoReserveMissed, AutoReserveThrows, SweepFails,
         WorkerScan, SubmitCheck, SubmitConflict, Abort
<1>7. \E s \in Steps \ {"gated", "payout", "submit_invoke", "sweep"},
         l \in Local : Goto(h, s, l)
  BY <1>2, <1>3, <1>4
  DEF AutoEvaluate, AutoReserveMissed, AutoReserveThrows, SweepFails,
      WorkerScan, SubmitCheck, SubmitConflict, Abort, Return, ReturnUnpaid
<1> QED BY <1>5, <1>6, <1>7 DEF Quiet

\* Every step keeps the types; outcomes need that a holder has a claim.
LEMMA TypeStep == ASSUME TypeOK, HeldClaims, Next PROVE TypeOK'
<1> USE DEF TypeOK, history
<1>1. ASSUME NEW h \in Handler, Quiet(h) PROVE TypeOK'
  <2>1. pc' \in [Handler -> Steps] /\ local' \in [Handler -> Local]
    BY <1>1, GotoType DEF Quiet
  <2> QED BY <1>1, <2>1 DEF Quiet
<1>2. ASSUME NEW h \in Handler, Holds(h) PROVE local[h].claim \in Claim
  BY <1>2 DEF HeldClaims
<1>3. ASSUME NEW h \in Handler, AutoReserve(h) PROVE TypeOK'
  <2>1. PICK c \in Claim :
           /\ policy' = Written("PROCESSING")
           /\ claims' = [claims EXCEPT ![c] = [status |-> "PROCESSING",
                                               txHash |-> "null",
                                               createdAt |-> now]]
           /\ Goto(h, "gated", Fresh(local[h].version, local[h].reading, c))
           /\ gateClaim' = c
    BY <1>3, Zenon DEF AutoReserve, WithStatus
  <2>2. policy' \in PolicyRow
    BY <2>1, WrittenType DEF PolicyStatus
  <2>3. claims' \in [Claim -> ClaimRow]
    BY <2>1 DEF ClaimRow, ClaimStatus
  <2>4. Fresh(local[h].version, local[h].reading, c) \in Local
    <3>1. local[h].version \in Nat /\ local[h].reading \in Reading
      BY DEF Local
    <3> QED BY <3>1, FreshType
  <2>5. pc' \in [Handler -> Steps] /\ local' \in [Handler -> Local]
    <3>1. "gated" \in Steps
      BY DEF Steps
    <3> QED BY <2>1, <2>4, <3>1, GotoType
  <2> QED BY <1>3, <2>1, <2>2, <2>3, <2>5 DEF AutoReserve
<1>4. ASSUME NEW h \in Handler, AutoReject(h) PROVE TypeOK'
  <2>1. claims' \in [Claim -> ClaimRow]
    BY <1>2, <1>4, SetStatusType DEF AutoReject, Holds, Attempting, ClaimStatus
  <2>2. pc' \in [Handler -> Steps] /\ local' \in [Handler -> Local]
    BY <1>4, ReturnType DEF AutoReject
  <2> QED BY <1>4, <2>1, <2>2 DEF AutoReject
<1>5. ASSUME NEW h \in Handler, AutoUnscorable(h) \/ AutoPayoutFailed(h)
      PROVE  TypeOK'
  <2>1. claims' \in [Claim -> ClaimRow]
    BY <1>2, <1>5, SetStatusType
    DEF AutoUnscorable, AutoPayoutFailed, Holds, Attempting, ClaimStatus
  <2>2. pc' \in [Handler -> Steps] /\ local' \in [Handler -> Local]
    BY <1>5, ReturnType DEF AutoUnscorable, AutoPayoutFailed
  <2>3. policy' \in PolicyRow
    BY <1>5, WrittenType
    DEF AutoUnscorable, AutoPayoutFailed, WriteIfGated, PolicyStatus
  <2> QED BY <1>5, <2>1, <2>2, <2>3, Zenon DEF AutoUnscorable, AutoPayoutFailed
<1>6. ASSUME NEW h \in Handler, AutoInvoke(h) PROVE TypeOK'
  <2>1. pc' \in [Handler -> Steps] /\ local' \in [Handler -> Local]
    BY <1>6, GotoType DEF AutoInvoke, Steps
  <2>2. invoked' \subseteq Method \X Claim
    BY <1>2, <1>6 DEF AutoInvoke, Holds, Attempting, Method
  <2> QED BY <1>6, <2>1, <2>2 DEF AutoInvoke
<1>7. ASSUME NEW h \in Handler, AutoPaid(h) PROVE TypeOK'
  <2>1. claims' \in [Claim -> ClaimRow]
    BY <1>2, <1>7, ClaimAsType
    DEF AutoPaid, SetClaim, Holds, Attempting, ClaimStatus
  <2>2. pc' \in [Handler -> Steps] /\ local' \in [Handler -> Local]
    BY <1>7, ReturnType DEF AutoPaid
  <2>3. policy' \in PolicyRow
    BY <1>7, WrittenType DEF AutoPaid, WriteIfGated, PolicyStatus
  <2> QED BY <1>7, <2>1, <2>2, <2>3, Zenon DEF AutoPaid
<1>8. ASSUME NEW h \in Handler, Land(h) PROVE TypeOK'
  <2>1. landed' \subseteq Method \X Claim
    BY <1>2, <1>8 DEF Land, Holds, Attempting, Submitting, Method
  <2> QED BY <1>8, <2>1 DEF Land
<1>9. ASSUME NEW w \in Workers, SweepRead(w) PROVE TypeOK'
  <2>1. CASE Stuck
    <3> DEFINE l == [version |-> policy.version, reading |-> "none",
                     claim |-> NoClaim, cutoff |-> now - StuckAfter,
                     paid |-> PaidClaims,
                     inFlight |-> WithStatus({"PROCESSING"}),
                     unconfirmed |-> {c \in WithStatus({"PROCESSING"}) :
                                         claims[c].txHash = "hash"}]
    <3>1. now - StuckAfter \in Time
      BY <2>1 DEF Stuck, PolicyRow
    <3>2. l \in Local
      BY <3>1 DEF Local, PolicyRow, Reading, PaidClaims, WithStatus
    <3>3. Goto(w, "sweep", l)
      BY <1>9, <2>1 DEF SweepRead
    <3>4. pc' \in [Handler -> Steps] /\ local' \in [Handler -> Local]
      BY <3>2, <3>3, GotoType DEF Steps
    <3> QED BY <1>9, <3>4 DEF SweepRead
  <2>2. CASE ~Stuck
    <3>1. Blank \in Local
      BY FreshType, Zenon DEF Blank, Reading
    <3>2. pc' \in [Handler -> Steps] /\ local' \in [Handler -> Local]
      BY <1>9, <2>2, <3>1, GotoType, Zenon DEF SweepRead, Steps
    <3> QED BY <1>9, <3>2 DEF SweepRead
  <2> QED BY <2>1, <2>2
<1>10. ASSUME NEW w \in Workers, SweepResolve(w) PROVE TypeOK'
  <2>1. Blank \in Local
    BY FreshType DEF Blank, Reading
  <2>2. pc' \in [Handler -> Steps] /\ local' \in [Handler -> Local]
    BY <1>10, <2>1, GotoType, Zenon DEF SweepResolve, Steps
  <2>3. policy' \in PolicyRow
    BY <1>10, WrittenType DEF SweepResolve, PolicyStatus
  <2>4. \A c \in Claim : ClaimAs(c, "FAILED", claims[c].txHash) \in ClaimRow
    BY DEF ClaimAs, ClaimRow, ClaimStatus
  <2>5. claims' \in [Claim -> ClaimRow]
    BY <1>10, <2>4 DEF SweepResolve
  <2>6. swept' \subseteq Claim
    BY <1>10 DEF SweepResolve, Local
  <2> QED BY <1>10, <2>2, <2>3, <2>5, <2>6, Zenon DEF SweepResolve
<1>11. ASSUME NEW w \in Workers, WorkerExpire(w) PROVE TypeOK'
  <2>1. pc' \in [Handler -> Steps] /\ local' \in [Handler -> Local]
    BY <1>11, ReturnType DEF WorkerExpire
  <2>2. policy' \in PolicyRow
    BY <1>11, WrittenType, Zenon DEF WorkerExpire, PolicyStatus
  <2> QED BY <1>11, <2>1, <2>2 DEF WorkerExpire
<1>12. ASSUME NEW h \in Callers, SubmitReserve(h) PROVE TypeOK'
  <2>1. PICK c \in Claim :
           /\ claims' = [claims EXCEPT ![c] = [status |-> "PENDING",
                                               txHash |-> "null",
                                               createdAt |-> now]]
           /\ invoked' = invoked \cup {<<"submit_claim", c>>}
           /\ Goto(h, "submit_invoke", Fresh(local[h].version, "none", c))
    BY <1>12, Zenon DEF SubmitReserve, WithStatus
  <2>2. claims' \in [Claim -> ClaimRow]
    BY <2>1, Zenon DEF ClaimRow, ClaimStatus
  <2>3. pc' \in [Handler -> Steps] /\ local' \in [Handler -> Local]
    <3>1. local[h].version \in Nat
      BY DEF Local
    <3>2. Fresh(local[h].version, "none", c) \in Local
      BY <3>1, FreshType DEF Reading
    <3> QED BY <2>1, <3>2, GotoType DEF Steps
  <2> QED BY <1>12, <2>1, <2>2, <2>3 DEF SubmitReserve, Method
<1>13. ASSUME NEW h \in Callers, SubmitConfirm(h) PROVE TypeOK'
  <2>1. claims' \in [Claim -> ClaimRow]
    BY <1>2, <1>13, ClaimAsType
    DEF SubmitConfirm, SetClaim, Holds, Submitting, ClaimStatus
  <2>2. pc' \in [Handler -> Steps] /\ local' \in [Handler -> Local]
    BY <1>13, ReturnType DEF SubmitConfirm
  <2> QED BY <1>13, <2>1, <2>2, Zenon DEF SubmitConfirm
<1>14. ASSUME NEW h \in Callers, SubmitFailed(h) PROVE TypeOK'
  <2>1. claims' \in [Claim -> ClaimRow]
    BY <1>2, <1>14, SetStatusType DEF SubmitFailed, Holds, Submitting, ClaimStatus
  <2>2. pc' \in [Handler -> Steps] /\ local' \in [Handler -> Local]
    BY <1>14, ReturnType DEF SubmitFailed
  <2> QED BY <1>14, <2>1, <2>2, Zenon DEF SubmitFailed
<1>15. CASE CancelPolicy
  <2>1. policy' \in PolicyRow
    BY <1>15, WrittenType DEF CancelPolicy, PolicyStatus
  <2> QED BY <1>15, <2>1 DEF CancelPolicy
<1>16. CASE UpdatePolicy
  <2>1. policy' \in PolicyRow
    BY <1>16 DEF UpdatePolicy, PolicyRow
  <2> QED BY <1>16, <2>1 DEF UpdatePolicy
<1>17. CASE Tick
  BY <1>17 DEF Tick
<1> QED
  BY <1>1, <1>3, <1>4, <1>5, <1>6, <1>7, <1>8, <1>9, <1>10, <1>11, <1>12,
     <1>13, <1>14, <1>15, <1>16, <1>17, QuietSteps, Zenon
  DEF Next, AutoProcess, WorkerTick, SubmitClaim

-----------------------------------------------------------------------------
(* What the actions do, in the terms the invariant speaks of               *)

\* Between these steps a handler holds a claim or a sweep's reading.
Busy == {"gated", "payout", "submit_invoke", "sweep"}

\* No handler takes on anything: each stays as it is, goes from its gate to
\* its payout, or lets go of what it holds.
NoneTakesOn ==
    \A g \in Handler :
        \/ pc'[g] = pc[g] /\ local'[g] = local[g]
        \/ pc[g] = "gated" /\ pc'[g] = "payout" /\ local'[g] = local[g]
        \/ pc'[g] \notin Busy

OnlyMoves(h) ==
    \A g \in Handler : g # h => pc'[g] = pc[g] /\ local'[g] = local[g]

LetsGo(h) == OnlyMoves(h) /\ pc'[h] \notin Busy

\* The claim c is written, the others are left alone.
OnlyClaim(c, s, hash) ==
    /\ claims'[c].status = s /\ claims'[c].txHash = hash
    /\ \A d \in Claim : d # c => claims'[d] = claims[d]

PolicyWrite(s) ==
    /\ policy'.status = s
    /\ policy'.version = policy.version + 1
    /\ policy'.updatedAt = now

\* Goto moves one handler and leaves the others alone.
LEMMA GotoMoves ==
    ASSUME TypeOK, NEW h \in Handler, NEW s, NEW l, Goto(h, s, l)
    PROVE  OnlyMoves(h) /\ pc'[h] = s /\ local'[h] = l
BY DEF TypeOK, Goto, OnlyMoves

\* A handler that returns holds nothing any more.
LEMMA ReturnLetsGo ==
    ASSUME TypeOK, NEW h \in Handler, Return(h) \/ ReturnUnpaid(h)
    PROVE  LetsGo(h)
<1>1. CASE Return(h)
  BY <1>1, GotoMoves DEF Return, LetsGo, Busy
<1>2. CASE ReturnUnpaid(h)
  BY <1>2, GotoMoves DEF ReturnUnpaid, LetsGo, Busy
<1> QED BY <1>1, <1>2

\* SetClaim writes one row.
LEMMA SetClaimWrites ==
    ASSUME TypeOK, NEW c \in Claim, NEW s, NEW hash, SetClaim(c, s, hash)
    PROVE  OnlyClaim(c, s, hash)
BY DEF TypeOK, SetClaim, ClaimAs, OnlyClaim

\* The insert of a claim writes one row.
LEMMA InsertWrites ==
    ASSUME TypeOK, NEW c \in Claim, NEW s,
           claims' = [claims EXCEPT ![c] = [status |-> s, txHash |-> "null",
                                            createdAt |-> now]]
    PROVE  OnlyClaim(c, s, "null")
BY DEF TypeOK, OnlyClaim

\* A status write of the policy adds one to its version.
LEMMA WrittenWrites ==
    ASSUME NEW s, policy' = Written(s) PROVE PolicyWrite(s)
BY DEF Written, PolicyWrite

\* Versions, cutoffs and times are numbers.
LEMMA NumberTypes ==
    ASSUME TypeOK
    PROVE  /\ policy.version \in Nat /\ policy.updatedAt \in Nat /\ now \in Nat
           /\ \A g \in Handler : local[g].version \in Nat /\ local[g].cutoff \in Nat
BY DEF TypeOK, PolicyRow, Local

\* The only status writes a step makes.
LEMMA StatusWrites ==
    ASSUME TypeOK, Next
    PROVE  \/ policy'.status = policy.status /\ policy'.version = policy.version
           \/ \E s \in {"EXPIRED", "CANCELLED", "PROCESSING"} :
                 policy.status = "ACTIVE" /\ policy' = Written(s)
           \/ \E s \in {"CLAIMED", "ACTIVE"} :
                 policy.status = "PROCESSING" /\ policy' = Written(s)
<1>1. ASSUME NEW h \in Handler, AutoProcess(h) \/ Land(h) \/ Abort(h)
      PROVE  \/ policy' = policy
             \/ policy.status = "ACTIVE" /\ policy' = Written("PROCESSING")
             \/ \E s \in {"CLAIMED", "ACTIVE"} :
                   policy.status = "PROCESSING" /\ policy' = Written(s)
  BY <1>1, Zenon
  DEF AutoProcess, AutoEvaluate, AutoReserve, AutoReserveMissed, GateOpen,
      AutoReserveThrows, AutoReject, AutoUnscorable, AutoInvoke, AutoPaid,
      AutoPayoutFailed, Land, Abort, WriteIfGated, HoldsGate
<1>2. ASSUME NEW w \in Workers, WorkerTick(w)
      PROVE  \/ policy' = policy
             \/ policy.status = "ACTIVE" /\ policy' = Written("EXPIRED")
             \/ \E s \in {"CLAIMED", "ACTIVE"} :
                   policy.status = "PROCESSING" /\ policy' = Written(s)
  BY <1>2, Zenon
  DEF WorkerTick, SweepRead, SweepResolve, SweepGuard, SweepFails, WorkerScan,
      WorkerExpire, ExpireGuard
<1>3. ASSUME NEW h \in Callers, SubmitClaim(h) PROVE policy' = policy
  BY <1>3
  DEF SubmitClaim, SubmitCheck, SubmitReserve, SubmitConflict, SubmitConfirm,
      SubmitFailed
<1>4. CancelPolicy => policy.status = "ACTIVE" /\ policy' = Written("CANCELLED")
  BY DEF CancelPolicy
<1>5. UpdatePolicy => /\ policy'.status = policy.status
                      /\ policy'.version = policy.version
  BY DEF UpdatePolicy
<1>6. Tick => policy' = policy
  BY Zenon DEF Tick
<1> QED BY <1>1, <1>2, <1>3, <1>4, <1>5, <1>6, Zenon DEF Next

\* A handler moves only by its own steps.
LEMMA OthersStay ==
    ASSUME TypeOK, NEW g \in Handler, NEW h \in Handler, g # h,
           AutoProcess(g) \/ Land(g) \/ Abort(g) \/ WorkerTick(g) \/ SubmitClaim(g)
    PROVE  pc'[h] = pc[h]
<1>1. AutoProcess(g) => pc'[h] = pc[h]
  BY Zenon DEF TypeOK, AutoProcess, AutoEvaluate, AutoReserve, AutoReserveMissed,
         AutoReserveThrows, AutoReject, AutoUnscorable, AutoInvoke, AutoPaid,
         AutoPayoutFailed, Goto, Return, ReturnUnpaid
<1>2. WorkerTick(g) => pc'[h] = pc[h]
  BY Zenon DEF TypeOK, WorkerTick, SweepRead, SweepResolve, SweepFails, WorkerScan,
         WorkerExpire, Goto, Return
<1>3. SubmitClaim(g) => pc'[h] = pc[h]
  BY Zenon DEF TypeOK, SubmitClaim, SubmitCheck, SubmitReserve, SubmitConflict,
         SubmitConfirm, SubmitFailed, Goto, Return
<1>4. Land(g) \/ Abort(g) => pc'[h] = pc[h]
  BY Zenon DEF TypeOK, Land, Abort, Goto, Return
<1> QED BY <1>1, <1>2, <1>3, <1>4

-----------------------------------------------------------------------------
(* Rest is preserved: one lemma per kind of step                           *)

USE DEF WithStatus, Holds, Attempting, Submitting, Busy

\* Steps that write neither a claim nor the policy's status.
LEMMA HarmlessStep ==
    ASSUME IInv, NoneTakesOn,
           policy'.status = policy.status, policy'.version = policy.version,
           policy'.updatedAt = policy.updatedAt \/ policy'.updatedAt = now,
           claims' = claims, landed \subseteq landed',
           now' \in Nat, now <= now', gateClaim' = gateClaim, swept' = swept
    PROVE  Rest'
<1> USE DEF IInv, Rest, NoneTakesOn
<1>1. OneOpenClaim' /\ ManualReviewIdle' /\ NoPendingWhileGated'
  BY Zenon DEF OneOpenClaim, ManualReviewIdle, NoPendingWhileGated
<1>2. ClaimedMeansPaid' /\ PaidUnclaimedWasSwept'
  BY DEF ClaimedMeansPaid, PaidUnclaimedWasSwept
<1>3. GateClaimUnsettled'
  BY DEF GateClaimUnsettled
<1>4. OneAttemptPerGate'
  BY Zenon DEF OneAttemptPerGate
<1>5. GateVersions'
  BY DEF GateVersions
<1>6. LostGateWasSwept'
  BY Zenon DEF LostGateWasSwept, HoldsGate
<1>7. HeldClaims' /\ HeldDistinct'
  BY ZenonT(30) DEF HeldClaims, HeldDistinct
<1>8. SweepView'
  BY NumberTypes DEF SweepView, SweepGuard
<1> QED BY <1>1, <1>2, <1>3, <1>4, <1>5, <1>6, <1>7, <1>8, Zenon

\* A step that only moves its handler keeps the invariant.
LEMMA QuietStep ==
    ASSUME IInv, NEW h \in Handler, Quiet(h) PROVE Rest'
<1>1. PICK s \in Steps \ {"gated", "payout", "submit_invoke", "sweep"},
           l \in Local : Goto(h, s, l)
  BY DEF Quiet
<1>2. UNCHANGED <<policy, claims, landed, now, gateClaim, swept>>
  BY DEF Quiet, history
<1>3. TypeOK
  BY DEF IInv
<1>4. OnlyMoves(h) /\ pc'[h] = s
  BY <1>1, <1>3, GotoMoves, Zenon
<1>5. NoneTakesOn
  BY <1>4, Zenon DEF NoneTakesOn, OnlyMoves
<1> QED BY <1>2, <1>3, <1>5, HarmlessStep, NumberTypes

\* An attempt writes its outcome: the claim, and the policy if the gate is
\* still its own.
PolicyWriteIfGated(h, s) ==
    IF HoldsGate(h) THEN PolicyWrite(s) ELSE policy' = policy

Outcome(h, s, hash) ==
    \/ s = "REJECTED" /\ policy' = policy
    \/ s = "FAILED" /\ PolicyWriteIfGated(h, "ACTIVE")
    \/ /\ s = "PAID" /\ hash = "hash"
       /\ <<"process_claim", local[h].claim>> \in landed
       /\ PolicyWriteIfGated(h, "CLAIMED")

\* The batch that ends an attempt keeps the invariant, guarded or not.
LEMMA OutcomeStep ==
    ASSUME IInv, NEW h \in Handler, Attempting(h), LetsGo(h),
           NEW s, NEW hash, OnlyClaim(local[h].claim, s, hash),
           Outcome(h, s, hash), landed' = landed, now' = now, gateClaim' = gateClaim, swept' = swept
    PROVE  Rest'
<1> DEFINE x == local[h].claim
<1>1. /\ x \in Claim
      /\ claims[x].status \in {"PROCESSING", "FAILED"}
      /\ claims'[x].status = s /\ claims'[x].txHash = hash
      /\ s \in {"REJECTED", "FAILED", "PAID"}
      /\ s = "PAID" => hash = "hash" /\ <<"process_claim", x>> \in landed
      /\ \A c \in Claim : c # x => claims'[c] = claims[c]
  BY Zenon DEF IInv, Rest, HeldClaims, OnlyClaim, Outcome
<1>2. /\ pc'[h] \notin Busy
      /\ \A g \in Handler : g # h => pc'[g] = pc[g] /\ local'[g] = local[g]
  BY Zenon DEF LetsGo, OnlyMoves
<1>3. \/ policy' = policy
      \/ HoldsGate(h) /\ s = "FAILED" /\ PolicyWrite("ACTIVE")
      \/ HoldsGate(h) /\ s = "PAID" /\ PolicyWrite("CLAIMED")
  BY Zenon DEF Outcome, PolicyWriteIfGated
<1>4. policy'.status = "PROCESSING" => policy' = policy
  BY <1>3, Zenon DEF PolicyWrite
<1>5. policy.status # "PROCESSING" => policy' = policy
  BY <1>3, Zenon DEF HoldsGate
<1>6. HoldsGate(h) \/ x \in swept \/ policy.status = "CLAIMED"
  BY Zenon DEF IInv, Rest, LostGateWasSwept
<1>7. OneOpenClaim' /\ ManualReviewIdle' /\ NoPendingWhileGated'
  BY <1>1, <1>4
  DEF IInv, Rest, OneOpenClaim, ManualReviewIdle, NoPendingWhileGated
<1>8. ClaimedMeansPaid'
  BY <1>1, <1>3, Zenon DEF IInv, Rest, ClaimedMeansPaid, PolicyWrite
<1>9. PaidUnclaimedWasSwept'
  <2> SUFFICES ASSUME policy'.status # "CLAIMED", NEW c \in Claim,
                      claims'[c].status = "PAID"
               PROVE  c \in swept
    BY Zenon DEF PaidUnclaimedWasSwept
  <2>1. policy.status # "CLAIMED"
    BY <1>5, Zenon
  <2>2. CASE c = x
    <3>1. s = "PAID" /\ ~HoldsGate(h)
      BY <1>1, <2>2, Zenon DEF Outcome, PolicyWriteIfGated, PolicyWrite
    <3> QED BY <1>6, <2>1, <2>2, <3>1, Zenon
  <2>3. CASE c # x
    BY <1>1, <2>1, <2>3, Zenon DEF IInv, Rest, PaidUnclaimedWasSwept
  <2> QED BY <2>2, <2>3, Zenon
<1>10. GateClaimUnsettled'
  <2> SUFFICES ASSUME policy'.status = "PROCESSING"
               PROVE  /\ gateClaim \in Claim
                      /\ claims'[gateClaim].status \in {"PROCESSING", "REJECTED"}
    BY Zenon DEF GateClaimUnsettled
  <2>1. /\ policy' = policy /\ policy.status = "PROCESSING"
        /\ gateClaim \in Claim
        /\ claims[gateClaim].status \in {"PROCESSING", "REJECTED"}
    BY <1>4, Zenon DEF IInv, Rest, GateClaimUnsettled
  <2>2. CASE s = "REJECTED"
    BY <1>1, <2>1, <2>2, Zenon
  <2>3. CASE s # "REJECTED"
    <3>1. ~HoldsGate(h)
      BY <2>3, <2>1, Zenon DEF Outcome, PolicyWriteIfGated, PolicyWrite
    <3>2. gateClaim # x
      BY <2>1, <3>1, Zenon DEF IInv, Rest, GateVersions, HoldsGate
    <3> QED BY <1>1, <2>1, <3>2, Zenon
  <2> QED BY <2>2, <2>3, Zenon
<1>11. OneAttemptPerGate'
  BY <1>2, Zenon DEF IInv, Rest, OneAttemptPerGate
<1>12. GateVersions'
  BY <1>2, <1>3, <1>4, NumberTypes, SMTT(30) DEF IInv, Rest, GateVersions, PolicyWrite
<1>13. LostGateWasSwept'
  <2> SUFFICES ASSUME NEW g \in Handler, Attempting(g)'
               PROVE  \/ HoldsGate(g)'
                      \/ local'[g].claim \in swept
                      \/ policy'.status = "CLAIMED"
    BY Zenon DEF LostGateWasSwept
  <2>1. g # h /\ Attempting(g) /\ local'[g] = local[g]
    BY <1>2, Zenon
  <2>2. HoldsGate(g) => ~HoldsGate(h)
    BY <2>1, NumberTypes, SMTT(60) DEF IInv, Rest, OneAttemptPerGate, HoldsGate
  <2>3. HoldsGate(g) \/ local[g].claim \in swept \/ policy.status = "CLAIMED"
    BY <2>1, Zenon DEF IInv, Rest, LostGateWasSwept
  <2>4. CASE HoldsGate(g)
    BY <1>3, <2>1, <2>2, <2>4, Zenon DEF HoldsGate
  <2>5. CASE policy.status = "CLAIMED"
    BY <1>5, <2>5, Zenon
  <2> QED BY <2>1, <2>3, <2>4, <2>5, Zenon
<1>14. HeldClaims' /\ HeldDistinct'
  BY <1>1, <1>2, SMTT(90) DEF IInv, Rest, HeldClaims, HeldDistinct
<1>15. SweepView'
  <2> SUFFICES ASSUME NEW w \in Workers, pc'[w] = "sweep"
               PROVE  /\ local'[w].cutoff <= now
                      /\ local'[w].paid # {} =>
                            \E c \in Claim : claims'[c].status = "PAID"
                      /\ SweepGuard(w)' =>
                            /\ policy'.version = local'[w].version
                            /\ claims'[gateClaim].status = "PROCESSING" =>
                                  gateClaim \in local'[w].inFlight
    BY Zenon DEF SweepView
  <2>1. pc[w] = "sweep" /\ local'[w] = local[w]
    BY <1>2, ZenonT(30)
  <2>2. /\ local[w].cutoff <= now
        /\ local[w].paid # {} => \E c \in Claim : claims[c].status = "PAID"
        /\ SweepGuard(w) =>
              /\ policy.version = local[w].version
              /\ claims[gateClaim].status = "PROCESSING" =>
                    gateClaim \in local[w].inFlight
    BY <2>1, SMTT(90) DEF IInv, Rest, SweepView
  <2>3. SweepGuard(w)' => policy' = policy /\ SweepGuard(w)
    BY <1>4, <2>1, Zenon DEF SweepGuard
  <2>4. SweepGuard(w) => gateClaim \in Claim
    BY Zenon DEF IInv, Rest, GateClaimUnsettled, SweepGuard
  <2> QED BY <1>1, <2>1, <2>2, <2>3, <2>4, SMTT(90)
<1> QED
  BY <1>7, <1>8, <1>9, <1>10, <1>11, <1>12, <1>13, <1>14, <1>15, Zenon DEF Rest

\* autoProcess takes the gate and inserts its claim.
LEMMA ReserveStep ==
    ASSUME IInv, NEW h \in Handler, OnlyMoves(h), pc'[h] = "gated",
           NEW c \in Claim, claims[c].status = "NONE",
           local'[h].claim = c, local'[h].version = policy.version,
           policy.status = "ACTIVE", PolicyWrite("PROCESSING"),
           ~Duplicate, IndexAllowsInsert, OnlyClaim(c, "PROCESSING", "null"),
           landed' = landed, now' = now, gateClaim' = c, swept' = swept
    PROVE  Rest'
<1>1. /\ claims'[c].status = "PROCESSING" /\ claims'[c].txHash = "null"
      /\ \A d \in Claim : d # c => claims'[d] = claims[d]
  BY Zenon DEF OnlyClaim
<1>2. \A g \in Handler : g # h => pc'[g] = pc[g] /\ local'[g] = local[g]
  BY Zenon DEF OnlyMoves
<1>3. /\ policy'.status = "PROCESSING"
      /\ policy'.version = policy.version + 1
      /\ policy'.updatedAt = now
  BY Zenon DEF PolicyWrite
<1>4. \A d \in Claim :
         claims[d].status \notin {"PENDING", "PROCESSING", "PAID", "REJECTED"}
  BY Zenon DEF Duplicate, IndexAllowsInsert
<1>5. \A g \in Handler :
         g # h /\ Attempting(g) =>
            /\ local[g].version + 1 <= policy.version
            /\ local[g].claim \in Claim \ {c}
            /\ local[g].claim \in swept
  <2>1. \A g \in Handler : ~HoldsGate(g)
    BY Zenon DEF HoldsGate
  <2> QED BY <2>1, Zenon DEF IInv, Rest, GateVersions, HeldClaims, LostGateWasSwept
<1>6. OneOpenClaim' /\ ManualReviewIdle' /\ NoPendingWhileGated'
  BY <1>1, <1>4, Zenon DEF OneOpenClaim, ManualReviewIdle, NoPendingWhileGated
<1>7. ClaimedMeansPaid' /\ PaidUnclaimedWasSwept'
  BY <1>1, <1>3, <1>4, Zenon DEF ClaimedMeansPaid, PaidUnclaimedWasSwept
<1>8. GateClaimUnsettled'
  BY <1>1, Zenon DEF GateClaimUnsettled
<1>9. OneAttemptPerGate'
  BY <1>2, <1>5, NumberTypes DEF IInv, Rest, OneAttemptPerGate
<1>10. GateVersions'
  BY <1>2, <1>3, <1>5, NumberTypes, SMTT(30) DEF IInv, GateVersions
<1>11. LostGateWasSwept'
  BY <1>2, <1>3, <1>5, ZenonT(30) DEF LostGateWasSwept, HoldsGate
<1>12. HeldClaims'
  BY <1>1, <1>2, SMTT(90) DEF IInv, Rest, HeldClaims
<1>13. HeldDistinct'
  BY <1>2 DEF IInv, Rest, HeldClaims, HeldDistinct
<1>14. SweepView'
  <2> SUFFICES ASSUME NEW w \in Workers, pc'[w] = "sweep"
               PROVE  /\ local'[w].cutoff <= now
                      /\ local'[w].paid # {} =>
                            \E d \in Claim : claims'[d].status = "PAID"
                      /\ ~SweepGuard(w)'
    BY Zenon DEF SweepView
  <2>1. pc[w] = "sweep" /\ local'[w] = local[w]
    BY <1>2, Zenon
  <2>2. /\ local[w].cutoff <= now
        /\ local[w].paid # {} => \E d \in Claim : claims[d].status = "PAID"
    BY <2>1, Zenon DEF IInv, Rest, SweepView
  <2>3. ~(now < local[w].cutoff)
    BY <2>2, NumberTypes DEF IInv
  <2> QED BY <1>3, <1>4, <2>1, <2>2, <2>3, Zenon DEF SweepGuard
<1> QED
  BY <1>6, <1>7, <1>8, <1>9, <1>10, <1>11, <1>12, <1>13, <1>14, Zenon DEF Rest

\* submitClaim inserts its claim.
SubmitInsert(h, c) ==
    /\ OnlyMoves(h) /\ pc'[h] = "submit_invoke" /\ local'[h].claim = c
    /\ OnlyClaim(c, "PENDING", "null")

\* The transaction of submitClaim that inserts a claim keeps the invariant.
LEMMA SubmitReserveStep ==
    ASSUME IInv, NEW h \in Handler, NEW c \in Claim, SubmitInsert(h, c),
           claims[c].status = "NONE",
           policy.status = "ACTIVE", ~BlocksSubmission, policy' = policy,
           landed' = landed, now' = now, gateClaim' = gateClaim, swept' = swept
    PROVE  Rest'
<1>1. /\ claims'[c].status = "PENDING"
      /\ \A d \in Claim : d # c => claims'[d] = claims[d]
  BY Zenon DEF SubmitInsert, OnlyClaim
<1>2. /\ pc'[h] = "submit_invoke" /\ local'[h].claim = c
      /\ \A g \in Handler : g # h => pc'[g] = pc[g] /\ local'[g] = local[g]
  BY Zenon DEF SubmitInsert, OnlyMoves
<1>3. \A d \in Claim : claims[d].status \notin {"PENDING", "PROCESSING", "PAID"}
  BY Zenon DEF BlocksSubmission
<1>4. OneOpenClaim' /\ ManualReviewIdle' /\ NoPendingWhileGated'
  BY <1>1, <1>3, Zenon DEF OneOpenClaim, ManualReviewIdle, NoPendingWhileGated
<1>5. ClaimedMeansPaid' /\ PaidUnclaimedWasSwept'
  BY <1>1, <1>3, Zenon DEF ClaimedMeansPaid, PaidUnclaimedWasSwept
<1>6. GateClaimUnsettled'
  BY Zenon DEF GateClaimUnsettled
<1>7. OneAttemptPerGate'
  BY <1>2, Zenon DEF IInv, Rest, OneAttemptPerGate
<1>8. GateVersions'
  BY <1>2, Zenon DEF IInv, Rest, GateVersions
<1>9. LostGateWasSwept'
  BY <1>2, Zenon DEF IInv, Rest, LostGateWasSwept, HoldsGate
<1>10. HeldClaims'
  BY <1>1, <1>2, SMTT(30) DEF IInv, Rest, HeldClaims
<1>11. HeldDistinct'
  BY <1>2, SMTT(30) DEF IInv, Rest, HeldClaims, HeldDistinct
<1>12. SweepView'
  BY <1>2, <1>3, Zenon DEF IInv, Rest, SweepView, SweepGuard
<1> QED
  BY <1>4, <1>5, <1>6, <1>7, <1>8, <1>9, <1>10, <1>11, <1>12, Zenon DEF Rest

\* submitClaim writes what became of its call.
LEMMA SubmitOutcomeStep ==
    ASSUME IInv, NEW h \in Handler, Submitting(h), LetsGo(h),
           NEW s \in {"PROCESSING", "FAILED"}, NEW hash,
           OnlyClaim(local[h].claim, s, hash), policy' = policy,
           landed' = landed, now' = now, gateClaim' = gateClaim, swept' = swept
    PROVE  Rest'
<1> DEFINE x == local[h].claim
<1>1. /\ x \in Claim /\ claims[x].status = "PENDING"
      /\ claims'[x].status = s
      /\ \A c \in Claim : c # x => claims'[c] = claims[c]
  BY Zenon DEF IInv, Rest, HeldClaims, OnlyClaim
<1>2. /\ pc'[h] \notin Busy
      /\ \A g \in Handler : g # h => pc'[g] = pc[g] /\ local'[g] = local[g]
  BY Zenon DEF LetsGo, OnlyMoves
<1>3. policy.status # "PROCESSING"
  BY <1>1, Zenon DEF IInv, Rest, NoPendingWhileGated
<1>4. OneOpenClaim' /\ ManualReviewIdle' /\ NoPendingWhileGated'
  BY <1>1, <1>3, ZenonT(30)
  DEF IInv, Rest, OneOpenClaim, ManualReviewIdle, NoPendingWhileGated
<1>5. \A c \in Claim :
         claims'[c].status = "PAID" <=>
            c # x /\ claims[c].status = "PAID" /\ claims'[c] = claims[c]
  BY <1>1, SMTT(30)
<1>6. ClaimedMeansPaid' /\ PaidUnclaimedWasSwept'
  BY <1>1, <1>5 DEF IInv, Rest, ClaimedMeansPaid, PaidUnclaimedWasSwept
<1>7. GateClaimUnsettled'
  BY <1>3 DEF GateClaimUnsettled
<1>8. OneAttemptPerGate'
  BY <1>2, Zenon DEF IInv, Rest, OneAttemptPerGate
<1>9. GateVersions'
  BY <1>2, <1>3, Zenon DEF IInv, Rest, GateVersions
<1>10. LostGateWasSwept'
  BY <1>2, Zenon DEF IInv, Rest, LostGateWasSwept, HoldsGate
<1>11. HeldClaims' /\ HeldDistinct'
  BY <1>1, <1>2, SMTT(90) DEF IInv, Rest, HeldClaims, HeldDistinct
<1>12. SweepView'
  BY <1>1, <1>2, <1>3, Zenon DEF IInv, Rest, SweepView, SweepGuard
<1> QED
  BY <1>4, <1>6, <1>7, <1>8, <1>9, <1>10, <1>11, <1>12, Zenon DEF Rest

\* A status write by the worker, the sweep or cancelPolicy that ends a gate or
\* the ACTIVE period and writes no claim.
LEMMA PolicyWriteStep ==
    ASSUME IInv, NoneTakesOn, NEW s, PolicyWrite(s),
           \/ policy.status = "ACTIVE" /\ s \in {"EXPIRED", "CANCELLED"}
           \/ /\ policy.status = "PROCESSING" /\ s = "CLAIMED"
              /\ \E c \in Claim : claims[c].status = "PAID",
           claims' = claims, landed' = landed, now' = now,
           gateClaim' = gateClaim, swept' = swept
    PROVE  Rest'
<1> USE DEF NoneTakesOn
<1>1. /\ policy'.status = s /\ policy'.version = policy.version + 1
      /\ s \notin {"ACTIVE", "PROCESSING"}
  BY Zenon DEF PolicyWrite
<1>2. OneOpenClaim' /\ ManualReviewIdle' /\ NoPendingWhileGated'
  BY <1>1, SMTT(60)
  DEF IInv, Rest, OneOpenClaim, ManualReviewIdle, NoPendingWhileGated
<1>3. ClaimedMeansPaid' /\ PaidUnclaimedWasSwept'
  BY <1>1 DEF IInv, Rest, ClaimedMeansPaid, PaidUnclaimedWasSwept
<1>4. GateClaimUnsettled'
  BY <1>1, Zenon DEF GateClaimUnsettled
<1>5. OneAttemptPerGate'
  BY Zenon DEF IInv, Rest, OneAttemptPerGate
<1>6. GateVersions'
  BY <1>1, NumberTypes DEF IInv, Rest, GateVersions
<1>7. LostGateWasSwept'
  BY <1>1, Zenon DEF IInv, Rest, LostGateWasSwept, HoldsGate
<1>8. HeldClaims' /\ HeldDistinct'
  BY ZenonT(30) DEF IInv, Rest, HeldClaims, HeldDistinct
<1>9. SweepView'
  BY <1>1, Zenon DEF IInv, Rest, SweepView, SweepGuard
<1> QED BY <1>2, <1>3, <1>4, <1>5, <1>6, <1>7, <1>8, <1>9, Zenon DEF Rest

-----------------------------------------------------------------------------
(* The steps of the sweep                                                  *)

\* The sweep reads a stuck policy.
LEMMA SweepReadStep ==
    ASSUME IInv, NEW w \in Workers, SweepRead(w), Stuck PROVE Rest'
<1> DEFINE l == [version |-> policy.version, reading |-> "none",
                 claim |-> NoClaim, cutoff |-> now - StuckAfter,
                 paid |-> PaidClaims, inFlight |-> WithStatus({"PROCESSING"}),
                 unconfirmed |-> {c \in WithStatus({"PROCESSING"}) :
                                     claims[c].txHash = "hash"}]
<1>1. Goto(w, "sweep", l) /\ pc[w] = "idle"
  BY Zenon DEF SweepRead
<1>2. UNCHANGED <<policy, claims, landed, now, gateClaim, swept>>
  BY Zenon DEF SweepRead, history
<1>3. OnlyMoves(w) /\ pc'[w] = "sweep" /\ local'[w] = l
  BY <1>1, GotoMoves, Zenon DEF IInv
<1>4. /\ pc'[w] = "sweep"
      /\ \A g \in Handler : g # w => pc'[g] = pc[g] /\ local'[g] = local[g]
  BY <1>3, SMTT(30) DEF OnlyMoves
<1>5. /\ local'[w].version = policy.version
      /\ local'[w].cutoff = now - StuckAfter
      /\ local'[w].paid = PaidClaims
      /\ local'[w].inFlight = WithStatus({"PROCESSING"})
  BY <1>3
<1>6. OneOpenClaim' /\ ManualReviewIdle' /\ NoPendingWhileGated'
  BY <1>2, Zenon
  DEF IInv, Rest, OneOpenClaim, ManualReviewIdle, NoPendingWhileGated
<1>7. ClaimedMeansPaid' /\ PaidUnclaimedWasSwept'
  BY <1>2, Zenon DEF IInv, Rest, ClaimedMeansPaid, PaidUnclaimedWasSwept
<1>8. GateClaimUnsettled'
  BY <1>2, Zenon DEF IInv, Rest, GateClaimUnsettled
<1>9. OneAttemptPerGate'
  BY <1>4, Zenon DEF IInv, Rest, OneAttemptPerGate
<1>10. GateVersions'
  BY <1>2, <1>4, Zenon DEF IInv, Rest, GateVersions
<1>11. LostGateWasSwept'
  BY <1>2, <1>4, Zenon DEF IInv, Rest, LostGateWasSwept, HoldsGate
<1>12. HeldClaims' /\ HeldDistinct'
  BY <1>2, <1>4, ZenonT(30) DEF IInv, Rest, HeldClaims, HeldDistinct
<1>13. SweepView'
  <2> SUFFICES ASSUME NEW v \in Workers, pc'[v] = "sweep"
               PROVE  /\ local'[v].cutoff <= now
                      /\ local'[v].paid # {} =>
                            \E c \in Claim : claims[c].status = "PAID"
                      /\ SweepGuard(v)' =>
                            /\ policy.version = local'[v].version
                            /\ claims[gateClaim].status = "PROCESSING" =>
                                  gateClaim \in local'[v].inFlight
    BY <1>2, Zenon DEF SweepView
  <2>1. CASE v = w
    <3>1. now - StuckAfter <= now
      BY NumberTypes DEF IInv
    <3>2. policy.status = "PROCESSING" => gateClaim \in Claim
      BY Zenon DEF IInv, Rest, GateClaimUnsettled
    <3> QED BY <1>2, <1>5, <2>1, <3>1, <3>2, Zenon DEF PaidClaims, SweepGuard
  <2>2. CASE v # w
    BY <1>2, <1>4, <2>2, Zenon DEF IInv, Rest, SweepView, SweepGuard
  <2> QED BY <2>1, <2>2, Zenon
<1> QED
  BY <1>6, <1>7, <1>8, <1>9, <1>10, <1>11, <1>12, <1>13, Zenon DEF Rest

\* The sweep reverts a stuck policy and fails the claims it found in flight.
SweptClaims(w) == {c \in local[w].inFlight : claims[c].status = "PROCESSING"}

ClaimsSwept(w) ==
    /\ swept' = swept \cup SweptClaims(w)
    /\ \A c \in Claim :
          IF c \in SweptClaims(w)
            THEN /\ claims'[c].status = "FAILED"
                 /\ claims'[c].txHash = claims[c].txHash
            ELSE claims'[c] = claims[c]

\* The sweep that reverts a policy and fails its claims keeps the invariant.
LEMMA SweepRevertStep ==
    ASSUME IInv, NEW w \in Workers, pc[w] = "sweep", LetsGo(w), SweepGuard(w),
           PolicyWrite("ACTIVE"), ClaimsSwept(w),
           landed' = landed, now' = now, gateClaim' = gateClaim
    PROVE  Rest'
<1>1. \A c \in Claim :
         /\ claims'[c].txHash = claims[c].txHash
         /\ \/ claims'[c] = claims[c]
            \/ claims[c].status = "PROCESSING" /\ claims'[c].status = "FAILED"
  BY Zenon DEF ClaimsSwept, SweptClaims
<1>2. /\ pc'[w] \notin Busy
      /\ \A g \in Handler : g # w => pc'[g] = pc[g] /\ local'[g] = local[g]
  BY DEF LetsGo, OnlyMoves
<1>3. policy'.status = "ACTIVE" /\ policy'.version = policy.version + 1
  BY Zenon DEF PolicyWrite
<1>4. policy.status = "PROCESSING" /\ swept \subseteq swept'
  BY Zenon DEF SweepGuard, ClaimsSwept
<1>5. OneOpenClaim' /\ ManualReviewIdle' /\ NoPendingWhileGated'
  BY <1>1, <1>3, SMTT(30)
  DEF IInv, Rest, OneOpenClaim, ManualReviewIdle, NoPendingWhileGated
<1>6. \A c \in Claim :
         claims[c].status = "PAID" \/ claims'[c].status = "PAID"
             => claims'[c] = claims[c]
  BY <1>1
<1>7. ClaimedMeansPaid' /\ PaidUnclaimedWasSwept'
  BY <1>3, <1>4, <1>6, SMTT(30) DEF IInv, Rest, ClaimedMeansPaid, PaidUnclaimedWasSwept
<1>8. GateClaimUnsettled'
  BY <1>3, SMTT(30) DEF GateClaimUnsettled
<1>9. OneAttemptPerGate'
  BY <1>2, ZenonT(30) DEF IInv, Rest, OneAttemptPerGate
<1>10. GateVersions'
  BY <1>2, <1>3, NumberTypes, SMTT(30) DEF IInv, Rest, GateVersions
<1>11. LostGateWasSwept'
  <2> SUFFICES ASSUME NEW g \in Handler, Attempting(g)'
               PROVE  local'[g].claim \in swept'
    BY Zenon DEF LostGateWasSwept
  <2>1. g # w /\ Attempting(g) /\ local'[g] = local[g]
    BY <1>2, Zenon
  <2>2. CASE HoldsGate(g)
    <3>1. gateClaim = local[g].claim
      BY <1>4, <2>1, <2>2, Zenon DEF IInv, Rest, GateVersions, HoldsGate
    <3>2. claims[gateClaim].status = "PROCESSING"
      BY <1>4, <2>1, <3>1, SMTT(30) DEF IInv, Rest, HeldClaims, GateClaimUnsettled
    <3>3. gateClaim \in local[w].inFlight
      BY <3>2, SMTT(30) DEF IInv, Rest, SweepView
    <3> QED BY <2>1, <3>1, <3>2, <3>3, Zenon DEF ClaimsSwept, SweptClaims
  <2>3. CASE ~HoldsGate(g)
    BY <1>4, <2>1, <2>3, ZenonT(30) DEF IInv, Rest, LostGateWasSwept
  <2> QED BY <2>2, <2>3, Zenon
<1>12. HeldClaims' /\ HeldDistinct'
  BY <1>1, <1>2, SMTT(90) DEF IInv, Rest, HeldClaims, HeldDistinct
<1>13. SweepView'
  BY <1>2, <1>3, <1>6, Zenon DEF IInv, Rest, SweepView, SweepGuard
<1> QED
  BY <1>5, <1>7, <1>8, <1>9, <1>10, <1>11, <1>12, <1>13, Zenon DEF Rest

-----------------------------------------------------------------------------
(* The inductive invariant                                                 *)

\* The initial state satisfies the invariant.
LEMMA InitIInv == Init => IInv
<1> SUFFICES ASSUME Init PROVE IInv
  BY Zenon
<1>1. TypeOK
  <2>1. policy \in PolicyRow
    BY DEF Init, PolicyRow, PolicyStatus
  <2>2. claims \in [Claim -> ClaimRow]
    BY DEF Init, ClaimRow, ClaimStatus
  <2>3. local \in [Handler -> Local]
    BY FreshType, Zenon DEF Init, Blank, Reading
  <2> QED BY <2>1, <2>2, <2>3 DEF Init, TypeOK, Steps
<1>2. /\ policy.status = "ACTIVE"
      /\ \A c \in Claim : claims[c].status = "NONE"
      /\ \A h \in Handler : pc[h] = "idle"
  BY DEF Init
<1>3. OneOpenClaim /\ ManualReviewIdle /\ NoPendingWhileGated
  BY <1>2, Zenon DEF OneOpenClaim, ManualReviewIdle, NoPendingWhileGated
<1>4. ClaimedMeansPaid /\ PaidUnclaimedWasSwept
  BY <1>2, Zenon DEF ClaimedMeansPaid, PaidUnclaimedWasSwept
<1>5. GateClaimUnsettled /\ OneAttemptPerGate /\ GateVersions /\ LostGateWasSwept
  BY <1>2, Zenon DEF GateClaimUnsettled, OneAttemptPerGate, GateVersions, LostGateWasSwept
<1>6. HeldClaims /\ HeldDistinct /\ SweepView
  BY <1>2, Zenon DEF HeldClaims, HeldDistinct, SweepView
<1> QED BY <1>1, <1>3, <1>4, <1>5, <1>6 DEF IInv, Rest

\* Every step of autoProcess keeps the invariant.
LEMMA AutoProcessRest ==
    ASSUME IInv, NEW h \in Handler, AutoProcess(h) PROVE Rest'
<1> DEFINE x == local[h].claim
<1>1. TypeOK /\ (Attempting(h) => x \in Claim)
  BY ZenonT(30) DEF IInv, Rest, HeldClaims
<1>2. CASE AutoEvaluate(h) \/ AutoReserveMissed(h) \/ AutoReserveThrows(h)
  BY <1>1, <1>2, QuietSteps, QuietStep, SMTT(30)
<1>3. CASE AutoReserve(h)
  <2>1. PICK c \in WithStatus({"NONE"}) :
           /\ policy' = Written("PROCESSING")
           /\ claims' = [claims EXCEPT ![c] = [status |-> "PROCESSING",
                                               txHash |-> "null",
                                               createdAt |-> now]]
           /\ Goto(h, "gated", Fresh(local[h].version, local[h].reading, c))
           /\ gateClaim' = c
    BY <1>3, Zenon DEF AutoReserve
  <2>2. OnlyClaim(c, "PROCESSING", "null") /\ PolicyWrite("PROCESSING")
    BY <1>1, <2>1, InsertWrites, WrittenWrites, ZenonT(30)
  <2>3. OnlyMoves(h) /\ pc'[h] = "gated"
        /\ local'[h] = Fresh(local[h].version, local[h].reading, c)
    BY <1>1, <2>1, GotoMoves, Zenon
  <2>4. local'[h].claim = c /\ local'[h].version = policy.version
    <3>1. policy.version = local[h].version
      BY <1>3, Zenon DEF AutoReserve, GateOpen
    <3>2. local'[h].claim = c /\ local'[h].version = local[h].version
      BY <2>3, SMTT(30) DEF Fresh
    <3> QED BY <3>1, <3>2
  <2>5. /\ ~Duplicate /\ IndexAllowsInsert /\ policy.status = "ACTIVE"
        /\ landed' = landed /\ now' = now /\ swept' = swept
    BY <1>3, Zenon DEF AutoReserve, GateOpen
  <2>6. c \in Claim /\ claims[c].status = "NONE"
    OBVIOUS
  <2> QED BY <2>1, <2>2, <2>3, <2>4, <2>5, <2>6, ReserveStep
<1>4. CASE AutoReject(h)
  <2>1. /\ Attempting(h) /\ policy' = policy
        /\ landed' = landed /\ now' = now /\ gateClaim' = gateClaim /\ swept' = swept
        /\ SetClaim(x, "REJECTED", claims[x].txHash) /\ ReturnUnpaid(h)
    BY <1>4, ZenonT(30) DEF AutoReject, SetStatus, history
  <2>2. LetsGo(h) /\ OnlyClaim(x, "REJECTED", claims[x].txHash)
    BY <1>1, <2>1, ReturnLetsGo, SetClaimWrites
  <2>3. Outcome(h, "REJECTED", claims[x].txHash)
    BY <2>1 DEF Outcome
  <2> QED BY <2>1, <2>2, <2>3, OutcomeStep, Zenon
<1>5. CASE AutoUnscorable(h) \/ AutoPayoutFailed(h)
  <2>1. /\ Attempting(h) /\ WriteIfGated(h, "ACTIVE")
        /\ landed' = landed /\ now' = now /\ gateClaim' = gateClaim /\ swept' = swept
        /\ SetClaim(x, "FAILED", claims[x].txHash) /\ ReturnUnpaid(h)
    BY <1>5, ZenonT(30) DEF AutoUnscorable, AutoPayoutFailed, SetStatus, history
  <2>2. LetsGo(h) /\ OnlyClaim(x, "FAILED", claims[x].txHash)
    BY <1>1, <2>1, ReturnLetsGo, SetClaimWrites, ZenonT(30)
  <2>3. Outcome(h, "FAILED", claims[x].txHash)
    BY <2>1, WrittenWrites, Zenon DEF WriteIfGated, PolicyWriteIfGated, Outcome
  <2> QED BY <2>1, <2>2, <2>3, OutcomeStep, Zenon
<1>6. CASE AutoInvoke(h)
  <2>1. /\ pc[h] = "gated" /\ Goto(h, "payout", local[h])
        /\ policy' = policy /\ claims' = claims /\ landed' = landed /\ now' = now
        /\ gateClaim' = gateClaim /\ swept' = swept
    BY <1>6, Zenon DEF AutoInvoke, history
  <2>2. OnlyMoves(h) /\ pc'[h] = "payout" /\ local'[h] = local[h]
    BY <1>1, <2>1, GotoMoves, Zenon
  <2>3. NoneTakesOn
    BY <2>1, <2>2 DEF NoneTakesOn, OnlyMoves
  <2> QED BY <1>1, <2>1, <2>3, HarmlessStep, NumberTypes, SMTT(30)
<1>7. CASE AutoPaid(h)
  <2>1. /\ Attempting(h) /\ WriteIfGated(h, "CLAIMED")
        /\ <<"process_claim", x>> \in landed
        /\ landed' = landed /\ now' = now /\ gateClaim' = gateClaim /\ swept' = swept
        /\ SetClaim(x, "PAID", "hash") /\ Return(h)
    BY <1>7, ZenonT(30) DEF AutoPaid, Confirmed, history
  <2>2. LetsGo(h) /\ OnlyClaim(x, "PAID", "hash")
    BY <1>1, <2>1, ReturnLetsGo, SetClaimWrites, Zenon
  <2>3. Outcome(h, "PAID", "hash")
    BY <2>1, WrittenWrites, Zenon DEF WriteIfGated, PolicyWriteIfGated, Outcome
  <2> QED BY <2>1, <2>2, <2>3, OutcomeStep, Zenon
<1> QED BY <1>2, <1>3, <1>4, <1>5, <1>6, <1>7, SMTT(30) DEF AutoProcess

\* Every step of the worker's tick keeps the invariant.
LEMMA WorkerTickRest ==
    ASSUME IInv, NEW w \in Workers, WorkerTick(w) PROVE Rest'
<1>1. TypeOK
  BY Zenon DEF IInv
<1>2. CASE SweepFails(w) \/ WorkerScan(w)
  BY <1>1, <1>2, QuietSteps, QuietStep
<1>3. CASE SweepRead(w)
  <2>1. CASE Stuck
    BY <1>3, <2>1, SweepReadStep, Zenon
  <2>2. CASE ~Stuck
    <3>1. /\ Goto(w, "scan", Blank)
          /\ UNCHANGED <<policy, claims, landed, now, gateClaim, swept>>
      BY <1>3, <2>2, Zenon DEF SweepRead, history
    <3>2. NoneTakesOn
      BY <1>1, <3>1, GotoMoves DEF NoneTakesOn, OnlyMoves
    <3> QED BY <1>1, <3>1, <3>2, HarmlessStep, NumberTypes, SMTT(30)
  <2> QED BY <2>1, <2>2
<1>4. CASE SweepResolve(w)
  <2> DEFINE toClaimed == local[w].paid # {}
             toActive  == local[w].paid = {} /\ local[w].unconfirmed = {}
  <2>1. /\ pc[w] = "sweep" /\ Goto(w, "scan", Blank)
        /\ landed' = landed /\ now' = now /\ gateClaim' = gateClaim
    BY <1>4, Zenon DEF SweepResolve
  <2>2. LetsGo(w) /\ NoneTakesOn
    BY <1>1, <2>1, GotoMoves, SMTT(30) DEF LetsGo, NoneTakesOn, OnlyMoves
  <2>3. CASE SweepGuard(w) /\ toClaimed
    <3>1. PolicyWrite("CLAIMED") /\ claims' = claims /\ swept' = swept
      BY <1>4, <2>3, WrittenWrites, SMTT(30) DEF SweepResolve
    <3>2. /\ policy.status = "PROCESSING"
          /\ \E c \in Claim : claims[c].status = "PAID"
      BY <2>1, <2>3, ZenonT(30) DEF IInv, Rest, SweepView, SweepGuard
    <3> QED BY <2>1, <2>2, <3>1, <3>2, PolicyWriteStep, Zenon
  <2>4. CASE SweepGuard(w) /\ toActive
    <3>1. /\ policy' = Written("ACTIVE") /\ swept' = swept \cup SweptClaims(w)
          /\ claims' = [c \in Claim |->
                          IF c \in SweptClaims(w)
                            THEN ClaimAs(c, "FAILED", claims[c].txHash)
                            ELSE claims[c]]
      BY <1>4, <2>4, SMTT(30) DEF SweepResolve, SweptClaims
    <3>2. \A c \in Claim :
             IF c \in SweptClaims(w)
               THEN /\ claims'[c].status = "FAILED"
                    /\ claims'[c].txHash = claims[c].txHash
               ELSE claims'[c] = claims[c]
      BY <3>1, Zenon DEF ClaimAs
    <3>3. PolicyWrite("ACTIVE")
      BY <3>1, WrittenWrites, Zenon
    <3>4. ClaimsSwept(w)
      BY <3>1, <3>2, Zenon DEF ClaimsSwept
    <3> QED BY <2>1, <2>2, <2>4, <3>3, <3>4, SweepRevertStep, ZenonT(30)
  <2>5. CASE ~SweepGuard(w) \/ (~toClaimed /\ ~toActive)
    <3>1. policy' = policy /\ claims' = claims /\ swept' = swept
      BY <1>4, <2>5 DEF SweepResolve
    <3> QED BY <1>1, <2>1, <2>2, <3>1, HarmlessStep, NumberTypes, SMTT(30)
  <2> QED BY <2>3, <2>4, <2>5, Zenon
<1>5. CASE WorkerExpire(w)
  <2>1. /\ policy' = IF policy.status = "ACTIVE" THEN Written("EXPIRED") ELSE policy
        /\ UNCHANGED <<claims, landed, now, gateClaim, swept>> /\ Return(w)
    BY <1>5, Zenon DEF WorkerExpire, ExpireGuard, history
  <2>2. NoneTakesOn
    BY <1>1, <2>1, ReturnLetsGo, Zenon DEF LetsGo, NoneTakesOn, OnlyMoves
  <2>3. CASE policy.status = "ACTIVE"
    BY <2>1, <2>2, <2>3, WrittenWrites, PolicyWriteStep, Zenon
  <2>4. CASE policy.status # "ACTIVE"
    BY <1>1, <2>1, <2>2, <2>4, HarmlessStep, NumberTypes
  <2> QED BY <2>3, <2>4, Zenon
<1> QED BY <1>2, <1>3, <1>4, <1>5 DEF WorkerTick

\* Every step of submitClaim keeps the invariant.
LEMMA SubmitClaimRest ==
    ASSUME IInv, NEW h \in Callers, SubmitClaim(h) PROVE Rest'
<1> DEFINE x == local[h].claim
<1>1. TypeOK /\ (Submitting(h) => x \in Claim)
  BY Zenon DEF IInv, Rest, HeldClaims
<1>2. CASE SubmitCheck(h) \/ SubmitConflict(h)
  BY <1>1, <1>2, QuietSteps, QuietStep, Zenon
<1>3. CASE SubmitReserve(h)
  <2>1. PICK c \in WithStatus({"NONE"}) :
           /\ claims' = [claims EXCEPT ![c] = [status |-> "PENDING",
                                               txHash |-> "null",
                                               createdAt |-> now]]
           /\ Goto(h, "submit_invoke", Fresh(local[h].version, "none", c))
    BY <1>3, Zenon DEF SubmitReserve
  <2>2. /\ OnlyMoves(h) /\ pc'[h] = "submit_invoke"
        /\ local'[h] = Fresh(local[h].version, "none", c)
    BY <1>1, <2>1, GotoMoves, SMTT(30)
  <2>3. OnlyClaim(c, "PENDING", "null")
    BY <1>1, <2>1, InsertWrites, ZenonT(30)
  <2>4. SubmitInsert(h, c)
    BY <2>2, <2>3, SMTT(30) DEF SubmitInsert, Fresh
  <2>5. /\ policy.status = "ACTIVE" /\ ~BlocksSubmission /\ policy' = policy
        /\ landed' = landed /\ now' = now /\ gateClaim' = gateClaim /\ swept' = swept
    BY <1>3, Zenon DEF SubmitReserve, SubmitAccepted, history
  <2>6. c \in Claim /\ claims[c].status = "NONE"
    BY Zenon
  <2> QED BY <2>4, <2>5, <2>6, SubmitReserveStep
<1>4. CASE SubmitConfirm(h)
  <2>1. /\ Submitting(h) /\ SetClaim(x, "PROCESSING", "hash") /\ Return(h)
        /\ UNCHANGED <<policy, landed, now, gateClaim, swept>>
    BY <1>4, ZenonT(30) DEF SubmitConfirm, history
  <2>2. LetsGo(h) /\ OnlyClaim(x, "PROCESSING", "hash")
    BY <1>1, <2>1, ReturnLetsGo, SetClaimWrites, ZenonT(30)
  <2> QED BY <2>1, <2>2, SubmitOutcomeStep, SMTT(90)
<1>5. CASE SubmitFailed(h)
  <2>1. /\ Submitting(h) /\ SetClaim(x, "FAILED", claims[x].txHash) /\ Return(h)
        /\ UNCHANGED <<policy, landed, now, gateClaim, swept>>
    BY <1>5, SMTT(30) DEF SubmitFailed, SetStatus, history
  <2>2. LetsGo(h) /\ OnlyClaim(x, "FAILED", claims[x].txHash)
    BY <1>1, <2>1, ReturnLetsGo, SetClaimWrites, Zenon
  <2> QED BY <2>1, <2>2, SubmitOutcomeStep, ZenonT(30)
<1> QED BY <1>2, <1>3, <1>4, <1>5, Zenon DEF SubmitClaim

\* PolicyService's writes, the ledger and the clock keep the invariant.
LEMMA OtherRest ==
    ASSUME IInv, \/ CancelPolicy \/ UpdatePolicy \/ Tick \/ UNCHANGED vars
                 \/ \E h \in Handler : Land(h)
    PROVE  Rest'
<1>1. TypeOK
  BY Zenon DEF IInv
<1>2. NoneTakesOn
  <2>1. pc' = pc /\ local' = local
    BY SMTT(30) DEF CancelPolicy, UpdatePolicy, Tick, Land, vars
  <2> QED BY <2>1, Zenon DEF NoneTakesOn
<1>3. CASE CancelPolicy
  <2>1. /\ policy.status = "ACTIVE" /\ policy' = Written("CANCELLED")
        /\ UNCHANGED <<claims, landed, now, gateClaim, swept>>
    BY <1>3, Zenon DEF CancelPolicy, history
  <2> QED BY <1>2, <2>1, WrittenWrites, PolicyWriteStep, Zenon
<1>4. CASE UpdatePolicy
  <2>1. /\ policy'.status = policy.status /\ policy'.version = policy.version
        /\ policy'.updatedAt = now
        /\ UNCHANGED <<claims, landed, now, gateClaim, swept>>
    BY <1>4 DEF UpdatePolicy, history
  <2> QED BY <1>1, <1>2, <2>1, HarmlessStep, NumberTypes, SMTT(30)
<1>5. CASE Tick
  <2>1. now' = now + 1 /\ UNCHANGED <<policy, claims, landed, gateClaim, swept>>
    BY <1>5, Zenon DEF Tick, history
  <2>2. now' \in Nat /\ now <= now'
    BY <1>1, <2>1, NumberTypes
  <2> QED BY <1>2, <2>1, <2>2, HarmlessStep, Zenon
<1>6. CASE (\E h \in Handler : Land(h)) \/ UNCHANGED vars
  <2>1. /\ landed \subseteq landed'
        /\ UNCHANGED <<policy, claims, now, gateClaim, swept>>
    BY <1>6 DEF Land, vars, history
  <2> QED BY <1>1, <1>2, <2>1, HarmlessStep, NumberTypes, SMTT(30)
<1> QED BY <1>3, <1>4, <1>5, <1>6

\* The invariant is inductive.
LEMMA NextIInv == IInv /\ [Next]_vars => IInv'
<1> SUFFICES ASSUME IInv, [Next]_vars PROVE IInv'
  OBVIOUS
<1>1. TypeOK'
  <2>1. CASE Next
    BY <2>1, TypeStep, Zenon DEF IInv, Rest
  <2>2. CASE UNCHANGED vars
    BY <2>2 DEF vars, IInv, TypeOK
  <2> QED BY <2>1, <2>2
<1>2. ASSUME NEW h \in Handler, Abort(h) PROVE Rest'
  BY <1>2, QuietSteps, QuietStep, Zenon DEF IInv
<1>3. Rest'
  BY <1>2, AutoProcessRest, WorkerTickRest, SubmitClaimRest, OtherRest DEF Next
<1> QED BY <1>1, <1>3 DEF IInv

\* The inductive invariant holds in every reachable state.
THEOREM Invariance == Spec => []IInv
BY InitIInv, NextIInv, PTL DEF Spec

\* Every row, counter and handler variable keeps its type: no sequence of
\* writes leaves the PolicyStatus enum or the ClaimStatus enum.
THEOREM TypeCorrect == Spec => []TypeOK
<1>1. IInv => TypeOK
  BY DEF IInv
<1> QED BY <1>1, Invariance, PTL

\* However many workers and callers race, at most one claim of the policy is
\* PENDING or PROCESSING.
THEOREM OneOpenClaimHolds == Spec => []OneOpenClaim
<1>1. IInv => OneOpenClaim
  BY DEF IInv, Rest
<1> QED BY <1>1, Invariance, PTL

\* A CLAIMED policy has a PAID claim, and a PAID claim whose policy is not CLAIMED
\* was given up by the sweep while its payout was in flight: for any number of
\* workers and callers.
THEOREM PaidAndClaimedAgreeHolds == Spec => []PaidAndClaimedAgree
<1>1. IInv => PaidAndClaimedAgree
  BY DEF IInv, Rest, PaidAndClaimedAgree
<1> QED BY <1>1, Invariance, PTL

\* The outcome batches of autoProcess leave no policy PROCESSING behind a claim
\* that is already PAID or FAILED.
THEOREM GateClaimUnsettledHolds == Spec => []GateClaimUnsettled
<1>1. IInv => GateClaimUnsettled
  BY DEF IInv, Rest
<1> QED BY <1>1, Invariance, PTL

\* Two autoProcess attempts in flight never hold the same gate, however many
\* workers a lapsed job lock lets in.
THEOREM OneAttemptPerGateHolds == Spec => []OneAttemptPerGate
<1>1. IInv => OneAttemptPerGate
  BY DEF IInv, Rest
<1> QED BY <1>1, Invariance, PTL

\* The sweep's manual-review branch is never taken.
THEOREM ManualReviewIdleHolds == Spec => []ManualReviewIdle
<1>1. IInv => ManualReviewIdle
  BY DEF IInv, Rest
<1> QED BY <1>1, Invariance, PTL

-----------------------------------------------------------------------------
(* Refinement and action properties                                        *)

\* The claim flows, the worker, the sweep and cancelPolicy implement the
\* policy-status machine: only its transitions, one version for each.
THEOREM Refinement == Spec => RefinesPolicyStatus
<1> USE DEF Machine!PolicyStatuses, Machine!VALID_TRANSITIONS,
            Machine!canTransition
<1>1. Init => Machine!Init
  BY DEF Init, Machine!Init
<1>2. IInv /\ [Next]_vars => [Machine!Next]_(Machine!vars)
  <2> SUFFICES ASSUME IInv, [Next]_vars
               PROVE  Machine!Next \/ UNCHANGED Machine!vars
    BY Zenon
  <2>1. CASE Next
    <3>1. ASSUME NEW s \in {"EXPIRED", "CANCELLED", "PROCESSING"},
                 policy.status = "ACTIVE", policy' = Written(s)
          PROVE  Machine!Next
      BY <3>1 DEF Written, Machine!Next, Machine!transition
    <3>2. ASSUME NEW s \in {"CLAIMED", "ACTIVE"},
                 policy.status = "PROCESSING", policy' = Written(s)
          PROVE  Machine!Next
      BY <3>2 DEF Written, Machine!Next, Machine!transition
    <3> QED BY <2>1, <3>1, <3>2, StatusWrites DEF IInv, Machine!vars
  <2>2. CASE UNCHANGED vars
    BY <2>2 DEF vars, Machine!vars
  <2> QED BY <2>1, <2>2
<1> QED BY <1>1, <1>2, Invariance, PTL DEF Spec, RefinesPolicyStatus, Machine!Spec

\* A chain call that lands, an abort and a submission write no policy row.
LEMMA NoPolicyWrite ==
  ASSUME NEW h, Land(h) \/ Abort(h) \/ SubmitClaim(h)
  PROVE  policy' = policy
<1>1. CASE Land(h)
  BY <1>1, Zenon DEF Land
<1>2. CASE Abort(h)
  BY <1>2, Zenon DEF Abort
<1>3. CASE SubmitClaim(h)
  BY <1>3, Zenon
  DEF SubmitClaim, SubmitCheck, SubmitReserve, SubmitConflict, SubmitConfirm, SubmitFailed
<1> QED BY <1>1, <1>2, <1>3, Zenon

\* The ABA case: an attempt moves the policy only while the gate is its own.
THEOREM OutcomeMatchesGateHolds == Spec => OutcomeMatchesGate
<1> DEFINE A(h) == Attempting(h) /\ pc'[h] # pc[h]
                       /\ policy'.status # policy.status
                   => local[h].claim = gateClaim
<1>1. IInv /\ [Next]_vars => [\A h \in Handler : A(h)]_vars
  <2> SUFFICES ASSUME IInv, Next, NEW h \in Handler, Attempting(h),
                      pc'[h] # pc[h], policy'.status # policy.status
               PROVE  local[h].claim = gateClaim
    BY SMTT(30)
  <2>1. AutoUnscorable(h) \/ AutoPaid(h) \/ AutoPayoutFailed(h)
    <3>1. \/ AutoProcess(h) \/ Land(h) \/ Abort(h)
          \/ h \in Workers /\ WorkerTick(h)
          \/ h \in Callers /\ SubmitClaim(h)
      BY OthersStay, ZenonT(30) DEF Next, CancelPolicy, UpdatePolicy, Tick, IInv
    <3>2. ~(Land(h) \/ Abort(h) \/ SubmitClaim(h))
      BY NoPolicyWrite, Zenon
    <3>3. ~WorkerTick(h)
      BY DEF Attempting, WorkerTick, SweepRead, SweepResolve, SweepFails,
             WorkerScan, WorkerExpire
    <3>4. AutoProcess(h)
      BY <3>1, <3>2, <3>3, Zenon
    <3> QED BY <3>4, ZenonT(30) DEF AutoProcess, AutoEvaluate, AutoReserve, AutoReserveMissed,
               AutoReserveThrows, AutoReject, AutoInvoke, Attempting
  <2>2. HoldsGate(h)
    BY <2>1, Zenon DEF AutoUnscorable, AutoPaid, AutoPayoutFailed, WriteIfGated
  <2> QED BY <2>2, Zenon DEF HoldsGate, IInv, Rest, GateVersions
<1> QED BY <1>1, Invariance, PTL DEF Spec, OutcomeMatchesGate

\* The sweep moves a policy only if no status write landed since its read.
THEOREM SweepLeavesProgressAloneHolds == Spec => SweepLeavesProgressAlone
<1> DEFINE A(w) == pc[w] = "sweep" /\ pc'[w] # pc[w]
                       /\ policy'.status # policy.status
                   => policy.version = local[w].version
<1>1. IInv /\ [Next]_vars => [\A w \in Workers : A(w)]_vars
  <2> SUFFICES ASSUME IInv, Next, NEW w \in Workers, pc[w] = "sweep",
                      pc'[w] # pc[w], policy'.status # policy.status
               PROVE  policy.version = local[w].version
    BY SMTT(30)
  <2>1. SweepResolve(w)
    <3>1. \/ AutoProcess(w) \/ Land(w) \/ Abort(w)
          \/ w \in Workers /\ WorkerTick(w)
          \/ w \in Callers /\ SubmitClaim(w)
      BY OthersStay, ZenonT(30) DEF Next, CancelPolicy, UpdatePolicy, Tick, IInv
    <3>2. ~(Land(w) \/ Abort(w) \/ SubmitClaim(w))
      BY NoPolicyWrite, Zenon
    <3>3. ~AutoProcess(w)
      BY Zenon
      DEF AutoProcess, AutoEvaluate, AutoReserve, AutoReserveMissed,
             AutoReserveThrows, AutoReject, AutoUnscorable, AutoInvoke, AutoPaid,
             AutoPayoutFailed
    <3> QED BY <3>1, <3>2, <3>3, Zenon
            DEF WorkerTick, SweepRead, SweepFails, WorkerScan, WorkerExpire
  <2>2. SweepGuard(w)
    BY <2>1 DEF SweepResolve
  <2> QED BY <2>2, Zenon DEF IInv, Rest, SweepView
<1> QED BY <1>1, Invariance, PTL DEF Spec, SweepLeavesProgressAlone
=============================================================================
