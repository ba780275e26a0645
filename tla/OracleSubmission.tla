-------------------------- MODULE OracleSubmission --------------------------
(***************************************************************************)
(* The oracle worker's way of one key to the chain (oracle/oracle.worker.ts *)
(* processKey with claimForOnChainSubmission, recordOnChainSubmission and  *)
(* releaseOnChainClaim of oracle/oracle.service.ts), on several replicas.  *)
(* The cron fires once an hour on every replica; the job lock lets one     *)
(* replica in after the other inside an hour, and two at once after a      *)
(* lapse.  A reading's bucket is the hour it is fetched in.                *)
(*                                                                         *)
(* faults: "ledger" an invocation that throws may land; "database" a write *)
(* may fail, before or after it took effect; "crash" a replica may die.    *)
(***************************************************************************)
EXTENDS Integers, FiniteSets

CONSTANTS Replica,
          MaxHour,        \* the hours that are modelled: 0..MaxHour
          TicksPerHour,   \* ORACLE_BUCKET_MS, in ticks of the clock
          FaultSets       \* the sets of faults a behaviour may have

ASSUME HourAssumption == MaxHour \in Nat /\ TicksPerHour \in Nat \ {0}

VARIABLES
    now,        \* the clock
    fired,      \* the hours a replica's cron has fired in
    pc,         \* the step of a replica's processKey
    bucket,     \* the bucket of its reading
    submitted,  \* buckets whose row has onChainSubmitted
    hash,       \* buckets whose row has an onChainTxHash
    onChain,    \* how often a bucket's reading was submitted on the ledger
    done,       \* replicas whose invocation has landed
    late,       \* replica and bucket of invocations that threw and may land yet
    released,   \* history: buckets released and not claimed since
    faults      \* what may fail in this behaviour

claimRow == <<submitted, hash>>
ledger == <<onChain, done, late>>
submitVars == <<now, fired, pc, bucket, submitted, hash, onChain, done, late,
          released, faults>>

Hour == 0..MaxHour
LastTick == (MaxHour + 1) * TicksPerHour - 1

BucketStartFor_RoundsUp(t) == (t + TicksPerHour - 1) \div TicksPerHour
\* bucketStartFor; the cron's hour is the same division.
BucketStartFor(t) == t \div TicksPerHour

SubmitTypeOK ==
    /\ now \in 0..LastTick
    /\ fired \in [Replica -> SUBSET Hour]
    /\ pc \in [Replica -> {"idle", "fetch", "persist", "claim", "invoke",
                           "record", "release"}]
    /\ bucket \in [Replica -> Hour]
    /\ submitted \subseteq Hour /\ hash \subseteq Hour /\ late \subseteq Replica \X Hour
    /\ onChain \in [Hour -> Nat]
    /\ done \subseteq Replica
    /\ released \subseteq Hour
    /\ faults \in FaultSets

SubmitInit ==
    /\ now = 0
    /\ fired = [r \in Replica |-> {}]
    /\ pc = [r \in Replica |-> "idle"]
    /\ bucket = [r \in Replica |-> 0]
    /\ submitted = {} /\ hash = {} /\ late = {} /\ done = {}
    /\ onChain = [h \in Hour |-> 0]
    /\ released = {}
    /\ faults \in FaultSets

Goto(r, step) == pc' = [pc EXCEPT ![r] = step]

\* processKey returns.
Complete(r) == Goto(r, "idle")

-----------------------------------------------------------------------------
(* processKey                                                              *)

\* The cron fires and the replica gets the lock.
Start(r) ==
    /\ pc[r] = "idle"
    /\ now \div TicksPerHour \notin fired[r]
    /\ fired' = [fired EXCEPT ![r] = @ \cup {now \div TicksPerHour}]
    /\ Goto(r, "fetch")
    /\ UNCHANGED <<now, bucket, claimRow, ledger, released>>

\* fetchWithRetry: the reading is dated when its fetch is answered.
FetchReading(r) ==
    /\ pc[r] = "fetch"
    /\ bucket' = [bucket EXCEPT ![r] = BucketStartFor(now)]
    /\ Goto(r, "persist")
    /\ UNCHANGED <<now, fired, claimRow, ledger, released>>

\* Both fetches failed, the key is malformed or not supported.
NoReading(r) ==
    /\ pc[r] = "fetch"
    /\ Goto(r, "idle")
    /\ UNCHANGED <<now, fired, bucket, claimRow, ledger, released>>

\* persistReading: an upsert that leaves the submission columns of an existing
\* row alone.
Persist(r) ==
    /\ pc[r] = "persist"
    /\ Goto(r, "claim")
    /\ UNCHANGED <<now, fired, bucket, claimRow, ledger, released>>

\* NO_DATA or low confidence, a failed upsert, or no contract configured.
NotSubmitted(r) ==
    /\ pc[r] = "persist"
    /\ Complete(r)
    /\ UNCHANGED <<now, fired, bucket, claimRow, ledger, released>>

Unclaimed_Unguarded(b) == TRUE
Unclaimed(b) == b \notin submitted

\* claimForOnChainSubmission matched the row.  An answer lost after the update
\* took effect ends the run with the claim in place.
Claim(r) ==
    /\ pc[r] = "claim"
    /\ Unclaimed(bucket[r])
    /\ submitted' = submitted \cup {bucket[r]}
    /\ released' = released \ {bucket[r]}
    /\ \/ Goto(r, "invoke")
       \/ "database" \in faults /\ Complete(r)
    /\ UNCHANGED <<now, fired, bucket, hash, ledger>>

\* "already submitted for this bucket", or the update failed.
ClaimDenied(r) ==
    /\ pc[r] = "claim"
    /\ ~Unclaimed(bucket[r]) \/ "database" \in faults
    /\ Complete(r)
    /\ UNCHANGED <<now, fired, bucket, claimRow, ledger, released>>

\* invokeContract returned a hash (ContractCall!Return).
Invoked(r) ==
    /\ pc[r] = "invoke"
    /\ r \in done
    /\ done' = done \ {r}
    /\ Goto(r, "record")
    /\ UNCHANGED <<now, fired, bucket, claimRow, onChain, late, released>>

AfterThrow_NoRelease == "idle"
AfterThrow == "release"

\* invokeContract threw (ContractCall!Throw): the catch releases the claim.
InvokeThrew(r) ==
    /\ pc[r] = "invoke"
    /\ \/ r \notin done /\ UNCHANGED late
       \/ "ledger" \in faults /\ late' = IF r \in done THEN late
                                         ELSE late \cup {<<r, bucket[r]>>}
    /\ done' = done \ {r}
    /\ Goto(r, AfterThrow)
    /\ UNCHANGED <<now, fired, bucket, claimRow, onChain, released>>

\* recordOnChainSubmission.
Record(r) ==
    /\ pc[r] = "record"
    /\ hash' = hash \cup {bucket[r]}
    /\ \/ Complete(r)
       \/ "database" \in faults /\ Goto(r, AfterThrow)
    /\ UNCHANGED <<now, fired, bucket, submitted, ledger, released>>

\* The update failed: the same catch.
RecordFailed(r) ==
    /\ "database" \in faults
    /\ pc[r] = "record"
    /\ Goto(r, AfterThrow)
    /\ UNCHANGED <<now, fired, bucket, claimRow, ledger, released>>

Releasable_Any(b) == TRUE
Releasable(b) == b \notin hash

\* releaseOnChainClaim: only a row without a hash.
Release(r) ==
    /\ pc[r] = "release"
    /\ IF Releasable(bucket[r])
       THEN /\ submitted' = submitted \ {bucket[r]}
            /\ released' = released \cup {bucket[r]}
       ELSE UNCHANGED <<submitted, released>>
    /\ Complete(r)
    /\ UNCHANGED <<now, fired, bucket, hash, ledger>>

\* The release failed (only logged).
ReleaseFailed(r) ==
    /\ "database" \in faults
    /\ pc[r] = "release"
    /\ Complete(r)
    /\ UNCHANGED <<now, fired, bucket, claimRow, ledger, released>>

\* The replica dies; what it sent may land.
Crash(r) ==
    /\ "crash" \in faults
    /\ pc[r] # "idle"
    /\ Goto(r, "idle")
    /\ late' = IF pc[r] = "invoke" /\ r \notin done
               THEN late \cup {<<r, bucket[r]>>} ELSE late
    /\ done' = done \ {r}
    /\ UNCHANGED <<now, fired, bucket, claimRow, onChain, released>>

-----------------------------------------------------------------------------
(* The ledger (external) and the clock                                     *)

Land(r) ==
    /\ pc[r] = "invoke" /\ r \notin done
    /\ done' = done \cup {r}
    /\ onChain' = [onChain EXCEPT ![bucket[r]] = @ + 1]
    /\ UNCHANGED <<now, fired, pc, bucket, claimRow, late, released>>

LandLate(r, b) ==
    /\ <<r, b>> \in late
    /\ late' = late \ {<<r, b>>}
    /\ onChain' = [onChain EXCEPT ![b] = @ + 1]
    /\ UNCHANGED <<now, fired, pc, bucket, claimRow, done, released>>

ClockTick ==
    /\ now < LastTick
    /\ now' = now + 1
    /\ UNCHANGED <<fired, pc, bucket, claimRow, ledger, released>>

Step(r) ==
    /\ \/ FetchReading(r) \/ NoReading(r) \/ Persist(r) \/ NotSubmitted(r)
       \/ Claim(r) \/ ClaimDenied(r) \/ Invoked(r) \/ InvokeThrew(r)
       \/ Record(r) \/ RecordFailed(r) \/ Release(r) \/ ReleaseFailed(r)
    /\ UNCHANGED faults

SubmitNext ==
    /\ \/ \E r \in Replica : Start(r) \/ Step(r) \/ Crash(r) \/ Land(r)
       \/ \E r \in Replica, b \in Hour : LandLate(r, b)
       \/ ClockTick
    /\ UNCHANGED faults

SubmitSpec == SubmitInit /\ [][SubmitNext]_submitVars

\* A started processKey goes on: every await in it is answered or times out.
SubmitFairSpec == SubmitSpec /\ \A r \in Replica : WF_submitVars(Step(r))

-----------------------------------------------------------------------------
(* Properties                                                              *)

Submitting(r) == pc[r] \in {"invoke", "record", "release"}

\* Whatever fails, two replicas are never between claim and outcome for one
\* bucket ("The conditional update is the distributed lock").
OneSubmitter ==
    \A r, s \in Replica : Submitting(r) /\ Submitting(s) /\ bucket[r] = bucket[s]
                          => r = s

\* Whatever fails, a hash on a row is that of a landed submission, and the row
\* stays claimed: no release undoes a recorded submission.
RecordedIsFinal == \A b \in hash : onChain[b] > 0 /\ b \in submitted

\* "a second cron run or a parallel replica cannot submit the same reading
\* twice (#172)", while nothing is lost.
SubmittedOnce == faults = {} => \A b \in Hour : onChain[b] <= 1

\* While nothing is lost, a claim is recorded or released: no bucket is left
\* marked as submitted without a submission.
ClaimIsResolved ==
    \A b \in Hour :
        faults = {} /\ b \in submitted ~> b \in hash \/ b \notin submitted

\* releaseOnChainClaim, "so the next cron cycle can retry the same bucket": no
\* later bucket is submitted and recorded while a released one waits.
NextCycleRetries == \A b \in released, h \in hash : h <= b
=============================================================================
