-------------------------- MODULE ClaimsLifecycle --------------------------
(***************************************************************************)
(* One policy row, the claims filed on it and everything that writes them: *)
(* the hourly claims worker (stuck-policy sweep, scan, autoProcess,        *)
(* expiry), the operator's auto-process endpoint, the policyholder's       *)
(* submitClaim, cancelPolicy and updatePolicy, and the claims-processor    *)
(* contract the two claim flows call.                                      *)
(*                                                                         *)
(* A database transaction is one step (the claim flows run SERIALIZABLE,   *)
(* the other policy writes are single statements); an await between two    *)
(* transactions is a point where anything else may happen.  Policies share *)
(* no rows, so one policy is enough.                                       *)
(***************************************************************************)
EXTENDS Naturals, FiniteSets

CONSTANTS
    Workers,        \* claims-worker ticks that believe they hold the job lock
    Callers,        \* HTTP requests: operator auto-process or submitClaim
    Claim,          \* claim ids; their number bounds the claims ever filed
    NoClaim,        \* the claim of a handler that has none
    StuckAfter,     \* CLAIMS_STUCK_PROCESSING_MINUTES, in clock units
    Lookahead,      \* the worker's one-hour look-ahead, in clock units
    EndTimes,       \* end times a policy is sold with or moved to
    MaxTime,        \* bound on the clock
    MaxUpdates,     \* bound on updatePolicy calls
    MaxFaults       \* bound on crashes and unexpected database errors

Handler == Workers \cup Callers

ASSUME ConstantsAssumption ==
    /\ Workers \cap Callers = {}
    /\ NoClaim \notin Claim
    /\ StuckAfter \in Nat \ {0}
    /\ Lookahead \in Nat
    /\ MaxTime \in Nat
    /\ EndTimes \subseteq 1..MaxTime
    /\ MaxUpdates \in Nat
    /\ MaxFaults \in Nat

VARIABLES
    policy,     \* the Policy row
    claims,     \* the Claim rows, status NONE before the insert
    invoked,    \* contract calls made, as <<method, claim>>
    landed,     \* those whose transaction succeeded on the ledger
    now,        \* the clock all instances read
    pc,         \* where each handler is
    local,      \* what each handler holds across awaits
    updates,    \* updatePolicy calls so far
    faults,     \* crashes and database errors so far
    gateClaim,  \* history: the claim inserted by the latest gate
    swept       \* history: claims the sweep marked FAILED

history == <<gateClaim, swept>>
vars == <<policy, claims, invoked, landed, now, pc, local, updates, faults,
          gateClaim, swept>>

PolicyStatus == {"ACTIVE", "EXPIRED", "CLAIMED", "CANCELLED", "PROCESSING"}
ClaimStatus  == {"NONE", "PENDING", "PROCESSING", "PAID", "REJECTED", "FAILED"}
Method       == {"process_claim", "submit_claim"}
Reading      == {"none", "not_met", "met"}
Steps        == {"idle", "sweep", "scan", "scanned", "reserve", "gated",
                 "payout", "expire", "submit_reserve", "submit_invoke"}
Time         == 0..MaxTime

\* The rows: Policy and Claim of prisma/schema.prisma.
PolicyRow == [status : PolicyStatus, version : Nat, endTime : Time,
              updatedAt : Time]
ClaimRow  == [status : ClaimStatus, txHash : {"null", "hash"}, createdAt : Time]

\* A handler's variables.  version is the policy version it read, claim the
\* claim it inserted; the rest is what a sweep read of a stuck policy.
Local == [version : Nat, reading : Reading, claim : Claim \cup {NoClaim},
          cutoff : Time, paid : SUBSET Claim, inFlight : SUBSET Claim,
          unconfirmed : SUBSET Claim]
Fresh(v, r, c) == [version |-> v, reading |-> r, claim |-> c, cutoff |-> 0,
                   paid |-> {}, inFlight |-> {}, unconfirmed |-> {}]
Blank == Fresh(0, "none", NoClaim)

-----------------------------------------------------------------------------
(* Database operations                                                     *)

WithStatus(S) == {c \in Claim : claims[c].status \in S}

\* Mutant: a status write that forgets the version.
Written_NoVersion(s) ==
    [status |-> s, version |-> policy.version, endTime |-> policy.endTime,
     updatedAt |-> now]

\* Every status write increments version; @updatedAt stamps every write.
Written(s) ==
    [status |-> s, version |-> policy.version + 1, endTime |-> policy.endTime,
     updatedAt |-> now]

\* Mutant: the guard without the version.
HoldsGate_StatusOnly(h) == policy.status = "PROCESSING"

\* The WHERE clause gatedPolicy: this handler's own gate is still in place.
HoldsGate(h) ==
    policy.status = "PROCESSING" /\ policy.version = local[h].version + 1

\* updateMany({ where: gatedPolicy, data: { status: s, version + 1 } })
WriteIfGated(h, s) == policy' = IF HoldsGate(h) THEN Written(s) ELSE policy

\* invokeContract returned a hash: waitForTransaction saw SUCCESS.
Confirmed(m, c) == <<m, c>> \in landed

ClaimAs(c, s, hash) ==
    [status |-> s, txHash |-> hash, createdAt |-> claims[c].createdAt]

SetClaim(c, s, hash) == claims' = [claims EXCEPT ![c] = ClaimAs(c, s, hash)]
SetStatus(c, s) == SetClaim(c, s, claims[c].txHash)

Goto(h, step, loc) ==
    /\ pc' = [pc EXCEPT ![h] = step]
    /\ local' = [local EXCEPT ![h] = loc]

\* autoProcess returned something other than Paid and PendingFinalPeriod: the
\* worker goes on to expire the policy, the operator gets the answer.
ReturnUnpaid(h) ==
    IF h \in Workers
      THEN Goto(h, "expire", Fresh(0, "none", local[h].claim))
      ELSE Goto(h, "idle", Blank)

Return(h) == Goto(h, "idle", Blank)

-----------------------------------------------------------------------------
Init ==
    /\ \E e \in EndTimes :
          policy = [status |-> "ACTIVE", version |-> 0, endTime |-> e,
                    updatedAt |-> 0]
    /\ claims = [c \in Claim |->
                    [status |-> "NONE", txHash |-> "null", createdAt |-> 0]]
    /\ invoked = {} /\ landed = {}
    /\ now = 0
    /\ pc = [h \in Handler |-> "idle"]
    /\ local = [h \in Handler |-> Blank]
    /\ updates = 0 /\ faults = 0
    /\ gateClaim = NoClaim /\ swept = {}

-----------------------------------------------------------------------------
(* ClaimsService.autoProcess                                               *)

\* Reads policy and reading in one snapshot, then checks status and clock.
\* Only a call that sees the clock at endTime goes on to the reservation.
AutoEvaluate(h) ==
    /\ \/ h \in Workers /\ pc[h] = "scanned"
       \/ h \in Callers /\ pc[h] = "idle"
    /\ IF policy.status # "ACTIVE" \/ now > policy.endTime
         THEN ReturnUnpaid(h)
         ELSE IF now < policy.endTime
                THEN Return(h)
                ELSE \E r \in Reading :
                       Goto(h, "reserve", Fresh(policy.version, r, NoClaim))
    /\ UNCHANGED <<policy, claims, invoked, landed, now, updates, faults,
                   history>>

\* The reservation transaction: duplicate guard, gate, insert.
Duplicate == WithStatus({"PROCESSING", "PAID", "REJECTED"}) # {}

GateOpen(h) == policy.status = "ACTIVE" /\ policy.version = local[h].version

\* Mutant: no index.
IndexAllowsInsert_Dropped == TRUE

\* The partial unique index Claim(policyId) WHERE status is not terminal.
IndexAllowsInsert == WithStatus({"PENDING", "PROCESSING"}) = {}

AutoReserve(h) ==
    /\ pc[h] = "reserve"
    /\ ~Duplicate /\ GateOpen(h) /\ IndexAllowsInsert
    /\ \E c \in WithStatus({"NONE"}) :
          /\ policy' = Written("PROCESSING")
          /\ claims' = [claims EXCEPT ![c] = [status |-> "PROCESSING",
                                              txHash |-> "null",
                                              createdAt |-> now]]
          /\ Goto(h, "gated", Fresh(local[h].version, local[h].reading, c))
          /\ gateClaim' = c
    /\ UNCHANGED <<invoked, landed, now, updates, faults, swept>>

\* AlreadyProcessed.
AutoReserveMissed(h) ==
    /\ pc[h] = "reserve"
    /\ Duplicate \/ ~GateOpen(h)
    /\ ReturnUnpaid(h)
    /\ UNCHANGED <<policy, claims, invoked, landed, now, updates, faults,
                   history>>

\* P2002 on the insert rolls the gate back and leaves autoProcess as a throw.
AutoReserveThrows(h) ==
    /\ pc[h] = "reserve"
    /\ ~Duplicate /\ GateOpen(h) /\ ~IndexAllowsInsert
    /\ Return(h)
    /\ UNCHANGED <<policy, claims, invoked, landed, now, updates, faults,
                   history>>

\* No reading, or trigger not met: the claim is REJECTED, the policy is left.
AutoReject(h) ==
    /\ pc[h] = "gated"
    /\ local[h].reading # "met"
    /\ SetStatus(local[h].claim, "REJECTED")
    /\ ReturnUnpaid(h)
    /\ UNCHANGED <<policy, invoked, landed, now, updates, faults, history>>

\* Product gone or its threshold not a number: FAILED and revert, one batch.
AutoUnscorable(h) ==
    /\ pc[h] = "gated"
    /\ local[h].reading # "none"
    /\ SetStatus(local[h].claim, "FAILED")
    /\ WriteIfGated(h, "ACTIVE")
    /\ ReturnUnpaid(h)
    /\ UNCHANGED <<invoked, landed, now, updates, faults, history>>

AutoInvoke(h) ==
    /\ pc[h] = "gated"
    /\ local[h].reading = "met"
    /\ invoked' = invoked \cup {<<"process_claim", local[h].claim>>}
    /\ Goto(h, "payout", local[h])
    /\ UNCHANGED <<policy, claims, landed, now, updates, faults, history>>

\* The payout is final: PAID and CLAIMED in one batch.
AutoPaid(h) ==
    /\ pc[h] = "payout"
    /\ Confirmed("process_claim", local[h].claim)
    /\ SetClaim(local[h].claim, "PAID", "hash")
    /\ WriteIfGated(h, "CLAIMED")
    /\ Return(h)
    /\ UNCHANGED <<invoked, landed, now, updates, faults, history>>

\* invokeContract threw, whatever became of the transaction.
AutoPayoutFailed(h) ==
    /\ pc[h] = "payout"
    /\ SetStatus(local[h].claim, "FAILED")
    /\ WriteIfGated(h, "ACTIVE")
    /\ ReturnUnpaid(h)
    /\ UNCHANGED <<invoked, landed, now, updates, faults, history>>

-----------------------------------------------------------------------------
(* ClaimsWorker: one tick is sweep, scan, autoProcess, expiry              *)

\* Mutant: only policies with a claim in flight count as stuck.
Stuck_InFlightOnly ==
    /\ policy.status = "PROCESSING" /\ policy.updatedAt + StuckAfter < now
    /\ WithStatus({"PROCESSING"}) # {}

Stuck == policy.status = "PROCESSING" /\ policy.updatedAt + StuckAfter < now

\* Mutant: a claim in flight taken for a paid one.
PaidClaims_OrInFlight == WithStatus({"PAID", "PROCESSING"})

PaidClaims == WithStatus({"PAID"})

\* recoverStuckProcessingPolicies reads the stuck row with its claims.
SweepRead(w) ==
    /\ pc[w] = "idle"
    /\ IF Stuck
         THEN LET inFlight == WithStatus({"PROCESSING"}) IN
              Goto(w, "sweep",
                   [version |-> policy.version, reading |-> "none",
                    claim |-> NoClaim, cutoff |-> now - StuckAfter,
                    paid |-> PaidClaims, inFlight |-> inFlight,
                    unconfirmed |->
                        {c \in inFlight : claims[c].txHash = "hash"}])
         ELSE Goto(w, "scan", Blank)
    /\ UNCHANGED <<policy, claims, invoked, landed, now, updates, faults,
                   history>>

\* Mutant: the guard without the updatedAt cutoff.
SweepGuard_StatusOnly(w) == policy.status = "PROCESSING"

SweepGuard(w) ==
    policy.status = "PROCESSING" /\ policy.updatedAt < local[w].cutoff

\* Resolves the stuck policy from what was read of its claims.
SweepResolve(w) ==
    /\ pc[w] = "sweep"
    /\ LET toClaimed == local[w].paid # {}
           toActive  == local[w].paid = {} /\ local[w].unconfirmed = {}
           failed    == {c \in local[w].inFlight :
                            claims[c].status = "PROCESSING"}
       IN IF SweepGuard(w) /\ toClaimed
            THEN policy' = Written("CLAIMED") /\ UNCHANGED <<claims, swept>>
            ELSE IF SweepGuard(w) /\ toActive
              THEN /\ policy' = Written("ACTIVE")
                   /\ claims' = [c \in Claim |->
                                   IF c \in failed
                                     THEN ClaimAs(c, "FAILED", claims[c].txHash)
                                     ELSE claims[c]]
                   /\ swept' = swept \cup failed
              ELSE UNCHANGED <<policy, claims, swept>>
    /\ Goto(w, "scan", Blank)
    /\ UNCHANGED <<invoked, landed, now, updates, faults, gateClaim>>

\* An error while recovering is caught; the tick goes on to its scan.
SweepFails(w) ==
    /\ pc[w] = "sweep"
    /\ faults < MaxFaults
    /\ faults' = faults + 1
    /\ Goto(w, "scan", Blank)
    /\ UNCHANGED <<policy, claims, invoked, landed, now, updates, history>>

WorkerScan(w) ==
    /\ pc[w] = "scan"
    /\ IF policy.status = "ACTIVE" /\ policy.endTime <= now + Lookahead
         THEN Goto(w, "scanned", Blank)
         ELSE Return(w)
    /\ UNCHANGED <<policy, claims, invoked, landed, now, updates, faults,
                   history>>

ExpireGuard == policy.status = "ACTIVE"

WorkerExpire(w) ==
    /\ pc[w] = "expire"
    /\ policy' = IF ExpireGuard THEN Written("EXPIRED") ELSE policy
    /\ Return(w)
    /\ UNCHANGED <<claims, invoked, landed, now, updates, faults, history>>

-----------------------------------------------------------------------------
(* ClaimsService.submitClaim                                               *)

BlocksSubmission == WithStatus({"PAID", "PROCESSING", "PENDING"}) # {}

SubmitCheck(h) ==
    /\ h \in Callers /\ pc[h] = "idle"
    /\ policy.status = "ACTIVE" /\ now <= policy.endTime
    /\ ~BlocksSubmission
    /\ Goto(h, "submit_reserve", Fresh(policy.version, "none", NoClaim))
    /\ UNCHANGED <<policy, claims, invoked, landed, now, updates, faults,
                   history>>

SubmitAccepted(h) ==
    policy.status = "ACTIVE" /\ policy.version = local[h].version
        /\ ~BlocksSubmission

\* Re-check, duplicate guard and insert in one transaction; then the call.
SubmitReserve(h) ==
    /\ pc[h] = "submit_reserve"
    /\ SubmitAccepted(h)
    /\ \E c \in WithStatus({"NONE"}) :
          /\ claims' = [claims EXCEPT ![c] = [status |-> "PENDING",
                                              txHash |-> "null",
                                              createdAt |-> now]]
          /\ invoked' = invoked \cup {<<"submit_claim", c>>}
          /\ Goto(h, "submit_invoke", Fresh(local[h].version, "none", c))
    /\ UNCHANGED <<policy, landed, now, updates, faults, history>>

\* 409: the policy changed or another claim got in first.
SubmitConflict(h) ==
    /\ pc[h] = "submit_reserve"
    /\ ~SubmitAccepted(h)
    /\ Return(h)
    /\ UNCHANGED <<policy, claims, invoked, landed, now, updates, faults,
                   history>>

SubmitConfirm(h) ==
    /\ pc[h] = "submit_invoke"
    /\ Confirmed("submit_claim", local[h].claim)
    /\ SetClaim(local[h].claim, "PROCESSING", "hash")
    /\ Return(h)
    /\ UNCHANGED <<policy, invoked, landed, now, updates, faults, history>>

\* Anything thrown by the call or by the batch after it ends in the catch.
SubmitFailed(h) ==
    /\ pc[h] = "submit_invoke"
    /\ SetStatus(local[h].claim, "FAILED")
    /\ Return(h)
    /\ UNCHANGED <<policy, invoked, landed, now, updates, faults, history>>

-----------------------------------------------------------------------------
(* PolicyService                                                           *)

CancelPolicy ==
    /\ policy.status = "ACTIVE"
    /\ policy' = Written("CANCELLED")
    /\ UNCHANGED <<claims, invoked, landed, now, pc, local, updates, faults,
                   history>>

\* A new end time (or a new oracle key under the same one): no status guard
\* and no version, but updatedAt moves.
UpdatePolicy ==
    /\ updates < MaxUpdates
    /\ updates' = updates + 1
    /\ \E e \in EndTimes :
          policy' = [status |-> policy.status, version |-> policy.version,
                     endTime |-> e, updatedAt |-> now]
    /\ UNCHANGED <<claims, invoked, landed, now, pc, local, faults, history>>

-----------------------------------------------------------------------------
(* Environment                                                             *)

\* The ledger applies a call that is in flight, later than the insert of its
\* claim (a ledger close takes seconds).
Land(h) ==
    /\ \E m \in Method :
          /\ pc[h] = (IF m = "process_claim" THEN "payout" ELSE "submit_invoke")
          /\ landed' = landed \cup {<<m, local[h].claim>>}
    /\ claims[local[h].claim].createdAt < now
    /\ UNCHANGED <<policy, claims, invoked, now, pc, local, updates, faults,
                   history>>

Tick ==
    /\ now < MaxTime
    /\ now' = now + 1
    /\ UNCHANGED <<policy, claims, invoked, landed, pc, local, updates, faults,
                   history>>

\* The process dies, or a database error leaves the handler as an exception.
Abort(h) ==
    /\ pc[h] # "idle"
    /\ faults < MaxFaults
    /\ faults' = faults + 1
    /\ Return(h)
    /\ UNCHANGED <<policy, claims, invoked, landed, now, updates, history>>

-----------------------------------------------------------------------------
AutoProcess(h) ==
    \/ AutoEvaluate(h) \/ AutoReserve(h) \/ AutoReserveMissed(h)
    \/ AutoReserveThrows(h) \/ AutoReject(h) \/ AutoUnscorable(h)
    \/ AutoInvoke(h) \/ AutoPaid(h) \/ AutoPayoutFailed(h)

WorkerTick(w) ==
    \/ SweepRead(w) \/ SweepResolve(w) \/ SweepFails(w)
    \/ WorkerScan(w) \/ WorkerExpire(w)

SubmitClaim(h) ==
    \/ SubmitCheck(h) \/ SubmitReserve(h) \/ SubmitConflict(h)
    \/ SubmitConfirm(h) \/ SubmitFailed(h)

Next ==
    \/ \E h \in Handler : AutoProcess(h) \/ Land(h) \/ Abort(h)
    \/ \E w \in Workers : WorkerTick(w)
    \/ \E h \in Callers : SubmitClaim(h)
    \/ CancelPolicy \/ UpdatePolicy \/ Tick

Spec == Init /\ [][Next]_vars

-----------------------------------------------------------------------------
(* Safety                                                                  *)

\* The rows, the handlers' variables and the counters have their types; in
\* particular no write leaves the PolicyStatus enum, which has no ERROR.
TypeOK ==
    /\ policy \in PolicyRow
    /\ claims \in [Claim -> ClaimRow]
    /\ invoked \subseteq Method \X Claim
    /\ landed \subseteq Method \X Claim
    /\ now \in Time
    /\ pc \in [Handler -> Steps]
    /\ local \in [Handler -> Local]
    /\ updates \in 0..MaxUpdates
    /\ faults \in 0..MaxFaults
    /\ gateClaim \in Claim \cup {NoClaim}
    /\ swept \subseteq Claim

\* At most one claim of the policy is PENDING or PROCESSING, whichever of
\* autoProcess and submitClaim inserted it and however their transactions,
\* the sweep and late outcome writes interleave.
OneOpenClaim ==
    \A c, d \in WithStatus({"PENDING", "PROCESSING"}) : c = d

\* A policy is CLAIMED, by autoProcess or by the sweep, only if one of its
\* claims is PAID; no late write of another attempt takes that back.
ClaimedMeansPaid ==
    policy.status = "CLAIMED" => WithStatus({"PAID"}) # {}

\* The outcome batches are atomic (#166): while the policy is PROCESSING the
\* claim of its gate is still PROCESSING, or was REJECTED and waits for the
\* sweep.  It is never PAID or FAILED with the policy left behind.
GateClaimUnsettled ==
    policy.status = "PROCESSING" =>
        /\ gateClaim \in Claim
        /\ claims[gateClaim].status \in {"PROCESSING", "REJECTED"}

\* Two autoProcess attempts in flight never hold the same gate.
Attempting(h) == pc[h] \in {"gated", "payout"}

OneAttemptPerGate ==
    \A g, h \in Handler :
        Attempting(g) /\ Attempting(h) /\ local[g].version = local[h].version
            => g = h

\* A paid claim whose policy is not CLAIMED is one the sweep gave up on while
\* its payout was in flight: nothing else (cancel, expiry, a second attempt)
\* separates the two.
PaidUnclaimedWasSwept ==
    policy.status # "CLAIMED" => WithStatus({"PAID"}) \subseteq swept

\* The claim row and the policy row tell the same story: the two writes of an
\* outcome are one batch, the sweep concludes CLAIMED from a PAID claim alone, and
\* only a payout the sweep gave up on is on the ledger without its policy.
PaidAndClaimedAgree == ClaimedMeansPaid /\ PaidUnclaimedWasSwept

\* The sweep's manual-review branch (a PROCESSING claim with a txHash on a
\* PROCESSING policy) is never taken: autoProcess stores no hash before PAID,
\* and a submitted claim keeps the policy from being gated.
ManualReviewIdle ==
    policy.status = "PROCESSING" =>
        \A c \in WithStatus({"PROCESSING"}) : claims[c].txHash = "null"

-----------------------------------------------------------------------------
(* Action properties                                                       *)

\* The ABA case: an attempt moves the policy out of PROCESSING only if the
\* gate in place is its own, never one taken after the sweep reverted it.
OutcomeMatchesGate ==
    [][\A h \in Handler :
          Attempting(h) /\ pc'[h] # pc[h] /\ policy'.status # policy.status
              => local[h].claim = gateClaim]_vars

\* The sweep moves a policy only if no status write landed since it read the
\* row: a policy that makes progress concurrently is left alone.
SweepLeavesProgressAlone ==
    [][\A w \in Workers :
          pc[w] = "sweep" /\ pc'[w] # pc[w] /\ policy'.status # policy.status
              => policy.version = local[w].version]_vars

\* Status and version follow the policy-status machine, one version per move.
Machine == INSTANCE PolicyStatus WITH status <- policy.status,
                                      version <- policy.version

RefinesPolicyStatus == Machine!Spec

-----------------------------------------------------------------------------
(* Liveness.  The cron fires every hour and every await of autoProcess has *)
(* a timeout, so a worker keeps ticking and an attempt keeps moving.       *)

Fairness ==
    /\ WF_vars(Tick)
    /\ \A w \in Workers : WF_vars(WorkerTick(w))
    /\ \A h \in Handler : WF_vars(pc[h] # "idle" /\ AutoProcess(h))

FairSpec == Spec /\ Fairness

\* The bounds of the model stop what is left: the clock before the sweep or the
\* expiry is due, the claim ids before an insert.
BeyondHorizon ==
    \/ WithStatus({"NONE"}) = {} /\ \E h \in Handler : pc[h] = "reserve"
    \/ policy.endTime >= MaxTime
    \/ policy.status = "PROCESSING" /\ policy.updatedAt + StuckAfter >= MaxTime

\* A policy whose period is over does not stay ACTIVE or PROCESSING, whatever
\* attempt was rejected, failed, crashed or lost its race on the way.
EndedPolicySettles ==
    <>[](policy.status \in {"EXPIRED", "CLAIMED", "CANCELLED"} \/ BeyondHorizon)

-----------------------------------------------------------------------------
(* What comments and documents say, and the code does not do               *)

\* claims.service.ts #165: a failed payout reverts the policy "so the policy
\* can be retried on the next worker tick": the worker whose payout failed
\* does not expire the policy it has just reverted.
FailedPayoutIsRetried ==
    [][\A w \in Workers :
          /\ pc[w] = "expire" /\ pc'[w] # "expire"
          /\ <<"process_claim", local[w].claim>> \in invoked
          => policy'.status = policy.status]_vars

\* claims.service.ts #258: an evaluation that is deferred because endTime lies
\* ahead is made by a later tick, so no policy expires unevaluated.
ExpiredWasEvaluated ==
    policy.status = "EXPIRED" => WithStatus({"NONE"}) # Claim

\* claims.service.ts #166 and the sweep's comment: an attempt that died with
\* its payout on the ledger is not retried by invoking the contract again.
SweptPayoutNotRepeated ==
    [][\A c \in swept, d \in Claim :
          /\ <<"process_claim", c>> \in landed
          /\ <<"process_claim", d>> \in invoked'
          => <<"process_claim", d>> \in invoked]_vars

\* README, transaction strategy: the outcome writes of autoProcess are guarded
\* on the gate, so an attempt that lost it leaves a FAILED claim FAILED.
FailedClaimStaysFailed ==
    [][\A c \in Claim :
          claims[c].status = "FAILED" => claims'[c].status = "FAILED"]_vars
=============================================================================
