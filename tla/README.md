# Parashield backend: TLA+ specifications, model checking and proofs

The Parashield backend sells parametric insurance policies, watches oracle data
and pays claims through Soroban contracts. It is a NestJS service: several
instances share a PostgreSQL database and a Redis server, run hourly jobs and
serve HTTP requests. This directory holds specifications of the parts whose
correctness depends on how those instances, jobs and requests interleave.
Paths below are relative to `src/src/` unless they say otherwise.

## 1. The system

### 1.1 Components

| Component | State it keeps | Operations that change it | Interacts with |
|---|---|---|---|
| Policy status machine (`policy/policy-status.machine.ts`) | none; the table `VALID_TRANSITIONS` | `transition` | every writer of `Policy.status` |
| Claims service (`claims/claims.service.ts`) | `Claim` and `Policy` rows; claim-count cache; next contract-call slot | `autoProcess`, `recoverStuckProcessingPolicies`, `submitClaim` | database, Stellar client, caches, events, webhooks |
| Claims worker (`claims/claims.worker.ts`) | none | hourly tick: sweep, scan, `autoProcess`, expiry | claims service, job lock |
| Policy service (`policy/policy.service.ts`) | `Policy`, `Product` rows; product caches | purchase, `cancelPolicy`, `updatePolicy`, product administration | database, Stellar client, events |
| Financial transactions (`prisma/financial-transaction.ts`) | none | SERIALIZABLE transaction with retry | claims service |
| Policy-state cache (`claims/policy-state-cache.service.ts`) | memory map, Redis keys, in-flight promises | read through, invalidate one / all / by oracle key | claims and policy services |
| Job lock (`redis/distributed-lock.service.ts`) | one Redis key per job | `acquire`, `renew`, `release`, `runWithLock` | both workers |
| Stellar client (`stellar/stellar.service.ts`, `stellar/horizon-resilience.ts`) | per-account promise chain, Horizon breaker | `invokeContract` (send, poll, resend), `callHorizon` | RPC node, ledger |
| Oracle service (`oracle/oracle.service.ts`) | `OracleReading` rows, buffer, reading cache, two circuit breakers | fetch, persist (batched), claim / record / release of a bucket | upstream APIs, database |
| Oracle worker (`oracle/oracle.worker.ts`) | counters | hourly tick over active oracle keys | oracle service, Stellar client, job lock |
| Idempotency (`common/middleware/idempotency.middleware.ts`) | Redis lock and answer per key | run once, replay, wait | every mutating endpoint |
| Login and tokens (`auth/auth.controller.ts`, `auth/jwt.service.ts`) | nonce (Redis and database), lockout counter, revoked and rotated tokens | `getChallenge`, `login`, `revoke`, `rotateRefresh` | Redis, database |
| Webhooks (`common/events/webhooks.service.ts`) | registrations, in-flight deliveries | register, unregister, deliver with retry, drain | policy and claims services |
| Status events (`common/events/status-events.service.ts`, SSE in `policy/policy.controller.ts`) | listeners, known owners | emit, relay through Redis, subscribe | policy and claims services |
| Prisma client (`prisma/prisma.service.ts`, `prisma/database-credential-rotation.service.ts`) | current, replica and retiring clients; query cache | connect, rotate, drain, close | everything that reads the database |
| Arithmetic (`common/utils/decimal.ts`, premium and refund in `policy/policy.service.ts`) | none | decimal parsing and comparison, premium, refund | claims and policy services |
| Product catalogue (`policy/policy.service.ts`) | `Product` rows, pages in memory | list, create, update, deactivate | quotes and purchases |
| Redis client (`redis/redis-startup.ts`, `redis/redis-connection.service.ts`) | one connection, its retry strategy | startup handshake, reconnection, close | everything that uses Redis |
| Operator guard (`auth/operator-auth.guard.ts`) | failure record per client in Redis | check, count, reset | operator endpoints |
| Streaming interceptor (`common/interceptors/streaming.interceptor.ts`) | closure of one response | stream a payload, clean up | every streamed endpoint |
| Health endpoint (`health/health.controller.ts`, `common/worker-heartbeat.ts`) | two caches, worker heartbeats in Redis | probe, answer, cache | database, Redis, Stellar, upstream APIs |

Controllers, the other guards, filters, versioning, logging, telemetry, secrets
and evidence validation keep no state shared between requests and are not
modelled.

### 1.2 What is hard

Every claim flow is a chain of database transactions and awaits. Between any
two of them another instance, another request or the hourly sweep may write
the same rows; the process may die; the ledger may apply a call its sender has
given up on. The service meets this with SERIALIZABLE transactions, an
optimistic `version` on the policy, a partial unique index on open claims, and a
sweep that resolves policies left in `PROCESSING`. Each is easy to test alone;
their combinations are what the specifications explore. `PROJECT.json` lists
the hazards with the line where each one bites and the property that covers it.

### 1.3 What makes each component correct

* Policy rows: the status follows the machine, one version per move; a terminal
  status is final.
* Claim rows: one open claim per policy; `CLAIMED` only with a `PAID` claim, and `PAID`
  without `CLAIMED` only after the sweep; a finished period leads to a final status.
* Sweep: touches a policy only if nothing moved it since it was read.
* Job lock: one holder while renewals succeed; a lapsed holder frees nobody
  else's lock; a tick that overlaps another does no harm.
* Contract calls: a returned hash is final; a call is not sent twice while an
  earlier send may still land; the account lock always passes on.
* Oracle submission: one on-chain submission per key, source and bucket; a
  bucket is not lost.
* Oracle readings: what is stored was observed, and its confidence says how much.
* Breakers: fail fast only while open; a probe always leads out of half-open.
* Caches: nothing old is served for good; how old is bounded by the TTLs.
* Idempotency: one handler per key at a time, none after a success, no lock left.
* Login and tokens: a lockout ends, a mark outlives its token; a client is refused only
  for what it did within the window.
* Purchase: a policy stands on a final transaction and a paid one gets its policy;
  the oracle key meets the policy's window; amounts are exact.
* Webhooks and events: every registration is served whatever the others do; events
  of one replica arrive in order and none is missing.
* Streams: nothing is held for a client that is gone.
* Rotation: credentials that work come into use, and a failed attempt leaves
  nothing behind.

## 2. How the specifications are put together

One module per component, in groups (sections 3 to 9). The claims core, the job lock and
the contract calls have runs of their own. The other components are small and share no
state, so each group has one `MC` module that puts its components side by side, with
EXTENDS where their names differ (the definitions of such a component carry its name:
`StreamInit`, `HooksNext`) and with INSTANCE elsewhere: a variable `part`, chosen in the
initial state, says which of them takes steps, and the others stay in their initial
state. A run of such a module explores the union of the components' behaviours, not
their product, and a property of one component says nothing of the behaviours of
another.

| Run | Module | Components | Distinct states |
|---|---|---|---|
| `claims_lifecycle`, `claims_liveness`, `claims_unevaluated` | `MCClaimsLifecycle` | claim flows, sweep, worker, policy writes | 1,356,346 (lifecycle), 234,654 (liveness) |
| `job_lock` | `JobLock` | distributed lock | 21,770 |
| `contract_calls`, `contract_resend` | `ContractInvocation` | `invokeContract` | 179,123 (calls) |
| `oracle` | `MCOracle` | `OracleSubmission`, `ReadingBuffer`, `OracleFetch` | 134,357 |
| `caches` | `MCCaches` | `PolicyStateCache`, `ProductCatalogue`, `HealthCheck` | 3,867,002 |
| `clients` | `MCClients` | `OracleBreaker`, `HorizonBreaker`, `CredentialRotation`, `RedisStartup` | 16,937 |
| `requests` | `MCRequests` | `Idempotency`, `WalletLogin`, `Tokens`, `OperatorLockout` | 110,154 |
| `purchase` | `MCPurchase` | `PolicyPurchase`, `Underwriting`, `MoneyMath` | 442,351 |
| `delivery` | `MCDelivery` | `StatusStream`, `Webhooks`, `StreamingInterceptor` | 149,468 |

`MCClaimsLifecycle` and `MCCaches` use symmetry, in runs without liveness. Deadlock is
checked where a behaviour must go on; the runs that say `CHECK_DEADLOCK FALSE` have
a component whose calls, days or retries come to an end.

The modules state a few more properties than the runs list: properties a listed one
implies or resembles, and the statements of comments and documents that the code
does not keep. Section 10 lists both with the configuration to check them in.

### What is proved

TLC explores the instances above; TLAPS proves the following for every value of the
constants that satisfies the named ASSUMEs, which the runs evaluate. Every safety property
a passing run checks is also a theorem.

| Proof module | Components | Properties of runs proved | Described in |
|---|---|---|---|
| `ClaimsLifecycleProofs` | `ClaimsLifecycle`, `PolicyStatus` | `OneOpenClaim`, `PaidAndClaimedAgree`, `OneAttemptPerGate`, `SweepLeavesProgressAlone`, `OutcomeMatchesGate`, `RefinesPolicyStatus` | 3.5 |
| `ContractInvocationProofs` | `ContractInvocation`, `ContractCall` | `LandsOnce`, `RefinesContractCall` | 4.2 |
| `OracleProofs` | `OracleBreaker`, `OracleSubmission`, `ReadingBuffer`, `OracleFetch` | `SingleProbe`, `SubmittedOnce`, `BadRowsIsolated`, `StoredIsObserved` | 4.3 to 4.6 |
| `PolicyStateCacheProofs` | `PolicyStateCache` | `FreshUnlessRaced`, `StaleStateExpires` | 5.5 |
| `CachesProofs` | `ProductCatalogue`, `HealthCheck` | `CatalogueAge`, `AnswerIsRecent` | 5.5 |
| `RequestsProofs` | `Idempotency`, `WalletLogin`, `Tokens`, `OperatorLockout` | `OneLiveHandler`, `SuccessIsFinal`, `MarkOutlivesToken`, `RefusedForRecentFailures` | 7.5 |
| `PurchaseProofs` | `PolicyPurchase`, `Underwriting`, `MoneyMath` | `PolicyBacked`, `KeyInWindow`, `AmountsExact`, `DecimalsExact` | 8.5 |
| `DeliveryProofs` | `StatusStream`, `Webhooks`, `StreamingInterceptor`, `JobLock` | `InOrderPerOrigin`, `DrainSettlesInFlight`, `LostOnlyByLapse`, `Exclusive` | 4.1, 9.4 |

Only model-checked are the liveness properties, because liveness under fairness and
ENABLED are out of the prover's reach: `EndedPolicySettles`, `CallsEnd`,
`NeverRefusesForGood`, `RotationApplied`, `RedisComesBack`, `AcceptedIsAnswered`,
`LockComesFree`, `PaidGetsPolicy`, `StreamCatchesUp`, `DeliveredDespiteOthers`,
`LockoutEnds` and `ReleasedWhenGone` (the safety halves of the last two are proved, 7.5
and 9.4).

The library's induction theorems take an operator as a parameter, which the installed
provers cannot instantiate. Where a proof needs induction over numbers (the sum of a
month's readings, the powers of ten) it is done by hand: the set of counterexamples has a
least element, because `<` on the naturals is well-founded (`SetInduction`).

## 3. The claims core

### 3.1 Modules

| Module | What it is |
|---|---|
| `PolicyStatus` | abstract specification: status moves along `VALID_TRANSITIONS`, one version per move |
| `ClaimsLifecycle` | the rows, the flows, the properties |
| `MCClaimsLifecycle` | symmetry for TLC; the `.cfg` files give the constants |
| `ClaimsLifecycleProofs` | the inductive invariant, one lemma per kind of step, the per-action steps and the theorems |

### 3.2 State and actions

`policy` is the row of one policy (`status`, `version`, `endTime`, `updatedAt`);
policies share no rows, so one is enough. `claims` maps claim ids to rows, status
`NONE` before the insert. `invoked` and `landed` are the contract calls made and
those whose transaction succeeded. `pc[h]` and `local[h]` say where handler `h`
is and what it carries across awaits. `gateClaim` and `swept` are history: the
claim of the latest gate, the claims the sweep failed. No action reads them, and
none but the properties reads the `version` a sweep keeps.

| Code | Actions |
|---|---|
| `autoProcess` | `AutoEvaluate` (snapshot, status and clock checks), `AutoReserve` / `AutoReserveMissed` / `AutoReserveThrows` (the reservation transaction), `AutoReject`, `AutoUnscorable`, `AutoInvoke`, `AutoPaid`, `AutoPayoutFailed` |
| `recoverStuckProcessingPolicies` | `SweepRead`, `SweepResolve`, `SweepFails` |
| worker tick | `SweepRead` ... `WorkerScan`, then `autoProcess`, then `WorkerExpire` |
| `submitClaim` | `SubmitCheck`, `SubmitReserve` / `SubmitConflict`, `SubmitConfirm`, `SubmitFailed` |
| `cancelPolicy`, `updatePolicy` | `CancelPolicy`, `UpdatePolicy` |
| ledger, clock, crash | `Land`, `Tick`, `Abort` |

Decisions worth knowing:

* A transaction is one step. The claim flows run SERIALIZABLE with retry, the
  others are single guarded statements.
* The snapshot and the two clock checks of `autoProcess` are one step. The checks
  read the clock twice, so a call goes on only if the first read is not after and
  the second not before `endTime`; with a clock of whole units that is
  `now = endTime`.
* The oracle reading is one of `none`, `not_met`, `met`; a missing product and an
  unreadable threshold are `AutoUnscorable`. The decimal comparison itself is in
  `MoneyMath` (8.3).
* `AutoPayoutFailed` is enabled whether or not the call landed: `invokeContract`
  throws on timeouts too. `AutoPaid` needs the landed call, because
  `waitForTransaction` returns only on `SUCCESS`.
* A call lands only while its sender waits, and later than the insert of its claim
  (a ledger takes seconds to close). A transaction that lands after its sender gave
  up changes no property here and is explored in `ContractInvocation`.
* A unique-index error in the reservation leaves `autoProcess` as an exception and
  rolls the gate back (`AutoReserveThrows`); the worker then does not expire the
  policy.
* `Abort` is a crash or a database error anywhere between two steps, `SweepFails`
  the one the sweep catches; both are bounded by `MaxFaults`.
* More than one worker stands for a job lock that lapsed.
* `updatePolicy` writes without a status guard and without a new version, but moves
  `updatedAt`, which postpones the sweep.
* Caches, audit rows, events and webhooks are written after the commit and read
  by none of these flows.

### 3.3 Runs

| Run | Question | Instance |
|---|---|---|
| `claims_lifecycle` | do the claim row and the policy row agree about payment (`PaidAndClaimedAgree`), the other invariants, does each writer touch only what is still its own (`OutcomeMatchesGate`, `SweepLeavesProgressAlone`), and the refinement (`RefinesPolicyStatus`) | 1 worker, 1 caller, 2 claims, end times 1 and 3, clock to 5, 1 update, 1 fault |
| `claims_liveness` | a finished period leads to a final status | 1 worker, 1 caller, clock to 4, 1 fault, with fairness |
| `claims_unevaluated` | a statement of a comment the code does not keep (3.4) | the smallest instance that shows it |

Two callers and two workers are covered by the theorems, which hold for any number.

`PaidAndClaimedAgree` relates the two rows that the outcome batch writes and the sweep
may write in between: a `CLAIMED` policy has a `PAID` claim, and a `PAID` claim on a
policy that is not `CLAIMED` is one the sweep had failed before its late attempt came
back. `OutcomeMatchesGate` is the ABA case: an attempt that was swept, and whose policy
another attempt has gated since, does not move the policy. That a payout which was
reported has landed is not asked here, where `AutoPaid` has it as its guard: it is what
`ContractInvocation` is shown to provide (`RefinesContractCall`, 4.2).

What the properties say is in the comment above each of them. Bounds: two claims
are the first number at which a second attempt, a second submission and the ABA
case exist; the clock reaches `endTime`, the sweep's cutoff after it, and a second
period after `updatePolicy` moved `endTime`; one fault is enough for every
single-crash scenario, and the sweep itself produces the others. Claim ids run out
in some behaviours; the handler then waits in `reserve`, which hides nothing that
a run with more ids would show for the invariants proved below.

Fairness: the clock advances, a worker keeps taking the steps of its tick (the
cron fires every hour), and an `autoProcess` that started keeps moving (every
await has a timeout: ten seconds per RPC call, a minute for the ledger, ten
seconds per transaction). Callers need not arrive and crashes need not stop.
`EndedPolicySettles` excludes what the bounds cut off (`BeyondHorizon`): an end
time or a sweep cutoff past the last clock value, or no claim id left.

### 3.4 What the code does not do as its texts say

* A failed payout is not retried (`claims.service.ts:442`): the same tick expires
  the policy it reverted (`FailedPayoutIsRetried`).
* A deferred evaluation does not happen later (`claims.service.ts:179`): after
  `endTime` the answer is `Expired`.
* A payout whose sender died can be invoked again (`claims.service.ts:480`): the
  hash is stored only with `PAID`, so the sweep reverts the policy.
* A late attempt overwrites a claim the sweep failed (`README.md:484,490` of the
  repository): only the policy half of the outcome batch is guarded.

Two facts the runs and proofs bring out on the way: the sweep's manual-review
branch is unreachable (`ManualReviewIdle`), and its `PAID` branch can be reached
only through a late attempt.

### 3.5 Proofs

`ClaimsLifecycleProofs` proves for every number of workers, callers and claims,
every clock bound and every choice of the other constants satisfying
`ConstantsAssumption`: `TypeCorrect`, `OneOpenClaimHolds`, `PaidAndClaimedAgreeHolds`,
`GateClaimUnsettledHolds`, `OneAttemptPerGateHolds`, `ManualReviewIdleHolds`,
`OutcomeMatchesGateHolds`, `SweepLeavesProgressAloneHolds`, and `Refinement` (every step is a step of
`PolicyStatus` or leaves its variables alone).

None of the invariants is inductive alone. `IInv` adds to them:

* `Submitting`, `HeldClaims`, `HeldDistinct`: a handler between insert and outcome
  owns a claim of its own, and it is in the status the handler left it in unless the
  sweep has taken it;
* `GateVersions`: the version a handler gated is behind the row's version, so no
  later gate repeats it;
* `LostGateWasSwept`: an attempt whose gate is gone lost it to the sweep;
* `NoPendingWhileGated`: no submission is open while the policy is gated;
* `SweepView`: what a sweep read is still true if its guard still matches.

`NextIInv` shows that each action preserves `IInv`. The actions are grouped by
effect: steps that only move a handler, outcome writes, the reservation, the
submission insert, policy-only writes and the sweep's revert each have one lemma,
and an action's proof shows that it has that effect. The effects are opaque
definitions (`OnlyMoves`, `LetsGo`, `OnlyClaim`, `PolicyWrite`, `Outcome`,
`ClaimsSwept`), so a leaf sees only what it needs.

Only model-checked here: `EndedPolicySettles`, a liveness property.

## 4. Locks, contract calls and the oracle

Time is kept as what is left of each timer, so these modules need no clock bound
except `OracleSubmission`, whose hours are numbered. What the environment may do
wrong is chosen in the initial state and kept (`reliable`, `faults`, `rejects`). A
promise that needs a working environment names it as a hypothesis; the others are
checked whatever fails.

### 4.1 `JobLock`

One Redis key and the runs of one job. `key` is the token and the remaining PX;
`pc`, `token` and `beat` are where a run is, its token and its heartbeat timer;
`left` is history, the time Redis granted the run. `Acquire`, `Renew`, `Release` are
the three commands; `AcquireUnanswered`, `RenewFailed` and `Abandon` are a lost
answer, a failed renewal and a failed release or crash; `TaskDone` ends the task.

| Run | Question | Instance |
|---|---|---|
| `job_lock` | who can take a key from its holder, do tasks exclude each other while nothing is late | 3 runs, 4 tokens, TTL 3 |

Three runs are a lapsed one, its successor and a third that waits; four tokens keep
one unused. The only fairness is that time passes. `DeliveryProofs` proves
`LostOnlyByLapse`, `PxIsHoldersGrant` and `Exclusive` (if `reliable`) for any number
of runs and any TTL of at least three ticks. The invariant adds that tokens of
active runs differ, that token and PX of the key agree, and (`HeartbeatInTime`) that a
heartbeat is due before the grant is over, which is where the third of the TTL enters.

### 4.2 `ContractCall`, `ContractInvocation`

The calls of one signer in one process. `chain` is the promise chain of
`withAccountLock`; `pc`, `attempt`, `last` (`lastSentHash`), `wait` and `result` are
the locals of a call; `tx` and `sequence` are the ledger's side: a broadcast
transaction may be applied inside its time bounds if its sequence number is next.
`Faults` are a send without answer, an ERROR for a transaction that was broadcast,
a wait without answers and a failed check before a resend.

| Run | Question | Instance |
|---|---|---|
| `contract_calls` | does it implement `ContractCall` (`RefinesContractCall`), does every call end (`CallsEnd`); does the check before a resend prevent a second landing; is a thrown call over | 2 calls, 2 attempts; no faults, unanswered waits, or all faults; with fairness |
| `contract_resend` | does the check prevent it for a send without answer | 3 attempts, unanswered sends |

Two attempts are one resend. With the code's three attempts, and no faults or
unanswered waits, the invariants hold as well (410,418 states); three attempts with
all faults are too many states for a run.
`TimeBound` is 1 and `WaitFor` 2 ticks, the 30 s and 60 s of the code. Two calls show
the chain, and a third would wait in the same way. Fairness: every RPC call ends by
its answer or by `withTimeout`, and time passes; nothing is assumed of the ledger.
The chain is per process: two instances that sign with one account are not ordered
by it, and that case is not modelled.

`ContractInvocationProofs` proves `LandsOnce`, `ThrownIsOver`, `NoBadSequence` and the
refinement of `ContractCall` for any number of calls and attempts and any times with
`TimeBound <= WaitFor`. The invariant `CallInv` says that the head of `chain` is the one
call inside the lock, that the attempts of a call are built one after the other
(`BuiltInTurn`), and that at most one of them may still land (`OneSuspect`: all others are
over, because a wait outlasts the time bounds of what it waited for). The refinement needs
no hypothesis on faults; the other three name theirs.

### 4.3 `OracleBreaker`, `HorizonBreaker`

The breaker's fields, the calls in flight, and as history the calls let through as
probes (`probing`). A call may last longer than the reset timeout in both. Rejected
calls change nothing and are no steps.

| Run | Question | Instance |
|---|---|---|
| `clients` | one probe per half-open period of the oracle circuit (`SingleProbe`); does the Horizon circuit ever refuse for good (`NeverRefusesForGood`) | 4 oracle calls, threshold 2, reset 3; 3 Horizon calls, 3 attempts, threshold 2, reset 2; with fairness |

Enough calls are in flight to open the circuit, probe it and end late around the
probe. Counters stop where only `>=` is asked of them. Fairness: attempts end (HTTP
timeout, bounded tries); for Horizon also that time passes.

`OracleProofs` proves `SingleProbe` and `ClosedBelowThreshold` for any number of calls and
any threshold and timeout. The invariant says that there is at most one probe, and only in
a half-open circuit whose flag is set: a late answer that moves the circuit ends the period
the probe belongs to.

### 4.4 `OracleSubmission`

`processKey` of one key on several replicas: `pc` and `bucket` per replica, the two
submission columns of each bucket's row (`submitted`, `hash`), how often a bucket
landed (`onChain`), and the invocations that may still land (`late`). The actions
follow `processKey` from `Start` to `Record` or `Release`. The job lock is left out on
purpose: it lets a second replica in after the first, and after a lapse beside it.
The invocation is `ContractCall`'s: a return has landed, a throw may land later.

| Run | Question | Instance |
|---|---|---|
| `oracle` | one submission per bucket while nothing fails | 2 replicas, 2 hours of 2 ticks; no faults, or ledger, database and crash; with fairness |

`OracleRetry.cfg` gives the counterexample to `NextCycleRetries` (4.7).
Two hours of two ticks show a fetch that crosses the hour and a next cycle; the
modelled hours end, so deadlock is not checked. Fairness: a started `processKey` goes
on. A crash after the claim strands the bucket; the code promises no recovery and
`ClaimIsResolved` is stated without crashes.

`OracleProofs` proves `SubmittedOnce`, `OneSubmitter` and `RecordedIsFinal` for any number of
replicas, hours and ticks. The invariant says that a replica between claim and record owns
its bucket's row and, while nothing fails, that a bucket has landed only if its row is
recorded or its owner is about to record it.

### 4.5 `ReadingBuffer`

`persistReading`, `flushBuffer` and the shutdown hooks with `batchSize` above 1. The
code between two awaits is one step. `status` is each caller's promise, `buffer` and
`batch` the readings waiting and taken, `stored` the order of the rows written.
A bad row fails its batch and its single upsert; a batch may fail for other reasons,
a good single row does not. A batch that committed without an answer is written
again row by row; the upserts are idempotent and that case is left out.

| Run | Question | Instance |
|---|---|---|
| `oracle` | is each reading answered (`AcceptedIsAnswered`), and are only bad rows rejected (`BadRowsIsolated`) | 7 calls, 2 of them bad, batches of 2, buffer of 3, with fairness |

`ReadingShutdown.cfg` gives the counterexample to `ShutdownFlushes` (4.7).

Seven calls fill the buffer behind a running batch and leave a rest for the timer; the
calls end, so deadlock is not checked. Fairness: the database answers and timers fire.

`OracleProofs` proves `BadRowsIsolated`, `StoredInOrder` and `InOnePlace` for any calls, bad
rows and sizes. The invariant (`BufferInv`) keeps rows, batch and buffer in one ascending
line (`Lined`) and ties each promise to the reading's place in it (`Answered`).

### 4.6 `OracleFetch`

One key, of one of the three kinds of reading. `call` is the fetch under way: the day
it took for today, its attempt and the answer it got; `row` is what was stored. `StartFetch`
builds the request, `RateLimited` and `Failed` are the two ends of
`executeWithRateLimitBackoff` without an answer, `Answer` is the upstream's side, and
`ReadRainfall`, `ReadTemperature` and `ReadFlight` are the rest of the three functions
up to `persistReading`. `DayTick` is midnight, at any moment in between.

`StoredIsObserved` compares the stored value, recomputed in exact integers from the
answer, with some day the upstream had observed by then. The run uses a month of three
days, every answer with values at, inside and outside the bounds or missing, dated or
not, and a scale of 2. Answers without dates are outside the property: the code counts
every one of their days as observed. A value of the current day counts as observed
although the day is not over.

`OracleProofs` proves it for any month, bounds, scale and answers. The invariant says that a
call under way took for today a day that its answer was not made before; that the total of the observed days is
an integer, whatever their number, takes the induction described in section 2.

### 4.7 What the code does not do as its texts say

* A run whose renewals fail goes on beside its successor
  (`distributed-lock.service.ts:124`): `Exclusive` needs its hypothesis.
* A send without an answer is not checked before the resend, and both may land
  (`stellar.service.ts:222`).
* A half-open probe answered 4xx leaves the breaker rejecting every call until the
  process restarts (`oracle.service.ts:25-26`).
* An invocation that threw and landed is submitted again (`oracle.worker.ts:234-235`):
  `SubmittedOnce` needs its hypothesis.
* A released bucket is not retried by the next cycle, whose readings belong to the
  next bucket (`oracle.service.ts:594-595`).
* The shutdown hooks return while a flush is running (`oracle.service.ts:536`).

Two places do not compile as they stand: `doInvokeContract` uses `validMemo`
(`stellar.service.ts:252`), which only `invokeContract` declares, and
`fetchRainfallReading` declares `key` twice (`oracle.service.ts:711,726`; 831 and 842
likewise for temperature). The models read the first as `invokeContract`'s value; the
second does not touch what is modelled, and `OracleFetch` reads the functions as if they
compiled. Two more facts: an
answer that was retried for long may be stored as the newest row although it covers
less than an earlier one, and the worker's `parseFloat` of a coordinate may give a key
other than the policy's.

Only model-checked here: the liveness properties `CallsEnd`, `NeverRefusesForGood` and
`AcceptedIsAnswered`.

## 5. Caches (run `caches`, module `MCCaches`)

No property of this section is a liveness property and the run assumes no fairness.

### 5.1 `PolicyStateCache`

`PolicyStateCacheService` for one policy: an entry in the memory of each replica
(`l1`), one in Redis (`l2`), under both the reading cache of `OracleService`
(`rdCache`). A state is reduced to the versions of the policy and of the reading it
was computed from.

| Action | Code |
|---|---|
| `ReadState`, `Promote`, `QueryPolicy`, `CachedReading`, `QueryReading`, `Fill`, `Fail` | `getDerivedPolicyState` and `computePolicyState`, cut at their awaits; `getLatestReading` |
| `SetL2` | the `redis.set` nobody awaits |
| `Commit`, `AfterCommit` | a write of a policy and what follows it: `invalidate` in `ClaimsService`, an event elsewhere |
| `Del`, `Publish`, `Receive` | the rest of `invalidate` and the subscriber |
| `CommitReading`, `DropReading` | the upsert of a reading and the deletion of its cache key |
| `Crash`, `StateTick` | a replica dies; the TTLs run down |

A load marks its state `raced` when the deletion from Redis, or the arrival of the
message, falls inside it. `FreshUnlessRaced` says that these races are the only way a
write of `ClaimsService` can leave an old state behind, and `StaleStateExpires` bounds
how long any old state lives under every write path, lost command and crash.

Time passes while a load waits for its queries and while a `SET` is on its way, for at
most `MaxWait` each (`loadAge`, `setAge`). The code sets no such bound: it is an
assumption about the database and Redis, and without one no age could be given. The
bound of the property is two TTLs and three waits: a load keeps what it read for one wait,
its `SET` takes another, an entry read from Redis at the end of its life is carried by a
load for a third, and the memory it then enters has a TTL of its own. A reading was in
its own cache for a TTL before.

Instance: two replicas with a reader each, TTL 2, reading TTL 1, waits of up to 1; two
writes or readings with no fault, one with Redis failures and crashes. Two changes are
needed for an invalidation that overtakes another, one is enough for staleness under
faults, and a TTL of 2 for an entry to be promoted half-way. The replicas, with their
readers, are symmetric.

### 5.2 `ProductCatalogue`

`getActiveProducts` with its page cache and the three admin mutations, for one product.
A mutation clears the cache when it starts and writes the row later (`CreateProduct`,
`UpdateProduct`, `DeactivateProduct`, then `FindUnique`, then `WriteProduct`), so a
reader may fill the cache with the old page in between. `CatalogueAge` says that such a
page is served for less than a TTL after it stopped being true, because the lifetime of
an entry is counted from before its query (`Lifetime`). Instance: two readers, one
admin, two rates, TTL 2, queries of up to 2 ticks.

### 5.3 `HealthCheck`

`GET /health`: four groups of probes, the cached external result and the cached healthy
answer. One probe is watched in a behaviour; `found` is what it finds and `turned` for
how long it has been good or bad. `AnswerIsRecent` bounds how long a 200 may be given
after a fault and a 503 after a recovery. The bounds are those of the worst overlap: a
check that started before the change, whose external result is dated from its start
(`Stamp`), and, for a worker, the TTL of its last heartbeat. Instance: two overlapping
checks, one of five probes watched (one of each group and the heartbeats), a response
TTL of 2, an external one of 3, checks of up to 1 tick.

### 5.4 What the code does and a text says otherwise

* `policy-state-cache.service.ts:375`, of `invalidate`: "Called on every write path that
  mutates policy state, claims, or oracle key." `cancelPolicy` and `updatePolicy` do not
  call it; the entry in Redis, and those of other replicas, live on
  (`FreshAfterEveryWrite`).
* `policy-state-cache.service.ts:206` speaks of one computation at a time. Two calls that
  both wait for `redis.get` both compute.
* `policy.service.ts`, "invalidate product cache after admin mutation": it is cleared
  before the row is written (`CacheFollowsMutation`).
* `premium-rate-versioning.ts`: "A template version changes only when its premium rate
  changes." With two admins at once a version can go back while the rate stays
  (`VersionFollowsRate`).
* `policy.service.ts:637-639` speaks of caching the first page; every page is cached.
* A failed read of the heartbeats is a warning, not a failure, and the database probes
  have no timeout of their own.

`invalidateAll`, `invalidateByOracleKey`, `cachedQuery` and `invalidateCache` have no
caller and are not modelled.

### 5.5 What is proved

All four properties, for any number of replicas, readers, admins and checks and any TTLs,
from `StateAssumption`, `CatalogueAssumption` and `HealthAssumption`. Each says how old
something may be that is served; the invariants say how old each carrier of it may be.

* `OldStateExpires` (`StaleStateExpires`): the invariant bounds the age of every carrier by
  its place on the way: a load by its own wait, a `SET` by one wait more (`Sent`), an entry in
  Redis by two waits and the part of its TTL that is used up (`InRedis`), a load that took it up
  there by its wait on top (`Found`), an entry in a memory by three waits and a TTL more
  (`InMemory`; `EntryAges`, `LoadAges`). The reading inside a state adds the TTL of its own
  cache (`Kept`, `Late`). It holds for every value of `MaxWait`.
* `NoOldStateAfterClaim` (`FreshUnlessRaced`): once no write has its deletion from Redis
  before it, every state in Redis, on its way there or with a reader is current or was raced
  (`FreshLoads`); so is one in a memory no message is on its way to (`FreshMemory`).
* `PageIsYoung` (`CatalogueAge`): what a page has been stale for and what its entry has left
  to live make at most the TTL, because the page is stale for no longer than its query took
  and that time is subtracted from its life.
* `HealthIsRecent` (`AnswerIsRecent`): a finding is as old as the check that made it, an
  external one older by its cache, that of a worker by its last heartbeat
  (`CheckIsRecent`, `ExternalIsRecent`, `ResponseIsRecent`, `Beats`).

## 6. Clients of other services (run `clients`, module `MCClients`)

### 6.1 The breakers

See 4.3. They run in this module with the two components below.

### 6.2 `RedisStartup`

`connectWithRetry` and `RedisConnectionService`: the state of startup, the socket and
the retry strategy in force. `RedisComesBack`: startup ends, and a client that was
connected is connected again after every loss, because the strategy that forbids
reconnection during startup is replaced in the step that ends it. Fairness: a connection
attempt ends (its timer sees to that), the sleep between attempts ends, and ioredis
reconnects when its strategy allows. Instance: three attempts.

### 6.3 `CredentialRotation`

`PrismaService` and `DatabaseCredentialRotationService` of one process: Vault's URLs,
those the database accepts, `process.env`, the current clients, the open ones and the
drain timers. `Refresh`, `Fetched`, `ConnectPrimary` and `Swap` are the rotation, cut at
its awaits; `FetchFails` and `ConnectFails` its error paths, with the disconnection of
what was opened and the restoration of the environment. `RotationApplied`: credentials
that Vault keeps are in use in the end, also when the database accepts them only after a
refresh had failed. That is a property of the error paths: a failed attempt that left the
new URL in `process.env` would look unchanged to the next refresh, and a rotation is chained
to the promise of the one before (`Chained`, `prisma.service.ts:246-251`), so that a rejection
that was not caught there would reject every later one. `ClientsAccounted` and
`QueriesOutliveRotation` state what else the paths must leave behind.

Fairness: the refresh timer fires and its awaits end; a fetch that is tried again and
again succeeds some time (strong fairness of `Fetched`); an issued credential is
activated some time. Instance: two URLs per key, four rotations, a drain of 2 ticks and
queries of up to 1. `RotationApplied` excepts the last rotation the bound allows: with four,
one may fail, the next be chained to the failed one, and a further one follow.

A rotation that connects its clients while `onModuleDestroy` runs swaps them in after the
current ones were closed, and nobody closes the new ones. `ClientsAccounted` is stated up
to the shutdown.

## 7. Between client and handler (run `requests`, module `MCRequests`)

### 7.1 `Idempotency`

Requests with one `Idempotency-Key` under `IdempotencyMiddleware` and
`RequestTimeoutMiddleware`. `lock` is the key in Redis with its TTL, `cached` the stored
response, and each request has a place in `handle`, an age, the answer its client got, the
state of its handler and its un-awaited commands.

| Action | Code |
|---|---|
| `Get`, `Acquire`, `Recheck` | the loop of `handle`: the stored response, `SET NX EX`, the second look under the lock |
| `Poll` | the wait for the holder, up to its deadline and then 409 |
| `Respond` | the handler's `res.json`: a 2xx is stored before the lock goes, another answer releases it |
| `TimeOut` | the 408 of the timer, which leaves the handler running |
| `Command` | the store, or the compare-and-delete, runs at Redis |
| `FailOpen`, `Leave`, `Crash`, `Tick` | a command fails and the handler runs without the lock; the client leaves; the process dies; time passes |

`OneLiveHandler` (proved, 7.5): while Redis answers, two requests that still owe an answer
never run the handler together. It rests on a lock that lives longer than a request may take
(`LockOutlivesRequest`, which the run evaluates). `SuccessIsFinal`:
after a client got the handler's 2xx no handler starts again; without the second look
under the lock it fails. `LockComesFree`: no crash, abort or failed release leaves the key
locked. Fairness: Redis answers, timers fire and time passes; a handler need not return and
a client need not leave.

Instance: two requests, wait 1, timeout 2, TTL 3, with no fault, and with leaving clients,
crashes or Redis failures. Two requests are enough for a holder and a waiter; the safety
properties were also checked with three. A stored response does not expire in the model: the
code keeps it for 24 hours, after which a retry runs the handler again.

### 7.2 `WalletLogin`

The challenges and logins of one wallet, each await a step. The nonce is in Redis and
mirrored in a database row; `lockout` is the counter of failed attempts. `Challenge`,
`SetNonce`, `Mirror` are `getChallenge`; `Login` to `Clear` are `login`; `Header`,
`HeaderFind`, `HeaderDrop` the login by headers of `WalletAuthMiddleware`;
`CleanupExpiredChallenges` the worker.

`LockoutEnds`: a lockout is temporary, although the counter is incremented and given its TTL
in two commands, the second only by the request whose `INCR` gave 1, while other requests
count, delete the key after a success or see it lapse. It needs commands that succeed and
requests that run to their end: an `EXPIRE` that fails, or a process that dies before it,
leaves a counter without a TTL. Its safety half, `LockoutHasExpiry`, is proved (7.5).
Fairness: awaits end and time passes.

No property is stated of how often a nonce is used. In Redis that is `GETDEL` itself; the
mirrored row is a second store, which a login that found its nonce in Redis leaves alone and
which the fallback reads and deletes in two queries. The model has all of these steps.

### 7.3 `Tokens`

`JwtService`: tokens with the time left to their `exp`, and the marks in Redis that bar them
earlier. `Revoke`, and `Rotate`, `Mark`, `Issue`, `InvalidateFamily` (the four parts of
`rotateRefresh`). `MarkOutlivesToken`: a mark lasts as long as its token could still be
verified. It is proved for any number of tokens and calls (7.5). Two rotations that both ask
before either marks both succeed; the family mark is read by `isFamilyRevoked`, which has no
caller.

### 7.4 `OperatorLockout`

`OperatorAuthGuard` for one address: the record of failures is read and written back in two
commands, so failures may be lost. `RefusedForRecentFailures`: in the other direction nothing
goes wrong, a client at the limit made that many failed attempts within the window.

### 7.5 What is proved

`RequestsProofs` proves all safety properties of this section for any number of requests
and tokens and any lifetimes, from hypotheses the run evaluates (`TimesAssumption`,
`LockOutlivesRequest`, `LoginAssumption`, `LivesAssumption`, `WindowAssumption`). None is
inductive.

* `OneHandlerPerKey` (`OneLiveHandler`): the invariant adds that a live request has the lock,
  that the lock's remaining TTL and the request's age together make at least the full TTL,
  and that no command of its own is on the way (`Owns`). A tick takes one from the first and
  adds one to the second, and the timer ends the request before the sum is used up. This is
  where the TTL must exceed the request timeout.
* `SuccessStays` (`SuccessIsFinal`): on top of that, a 2xx a client got is stored, or its
  store is the next command of the request that has the lock (`Kept`).
* `LockoutGetsItsExpiry` (`LockoutHasExpiry`, the safety half of `LockoutEnds`): a counter
  without a TTL belongs to a request that counted from zero and has its `EXPIRE` still to send.
  Failures in between leave the TTL alone, and a deletion or a lapse starts from zero again.
* `MarkedStaysBarred` (`MarkOutlivesToken`): a mark has at least the time its token has left.
  That a marked token is refused now says nothing of the next tick.
* `RefusedOnlyForRecent` (`RefusedForRecentFailures`): the record in Redis, and one that was
  read and not yet written back, counts failures that lie within its window.

`LockComesFree` and `LockoutEnds`, liveness properties, are only model-checked.

## 8. Buying a policy (run `purchase`, module `MCPurchase`)

### 8.1 `PolicyPurchase`

One wallet buys one product for one key: `confirmAndCreatePolicy` and `createPolicy` over
`simulateAssembleAndSend` and `waitForTransaction`. A client may send one signed
transaction in several requests; the transaction that is sent carries the fee its own
simulation put in, so its hash may differ between requests. `Accept` and `Refuse` are the
checks before the payment, `Simulate`, `Send`, `TryAgainLater`, `SendFails` and `Poll` the
payment, `Check` and `Insert` the creation. `Include` is the chain (external): one
transaction per sequence number, and only one that was sent.

`PolicyBacked`: a policy row names a transaction that succeeded. `PaidGetsPolicy`: a
transaction that a live handler waits for, once it has succeeded, leads to a policy,
unless the wait times out. Fairness: the handler's awaits end, and the chain decides on
what it was sent. Instance: two requests, two transactions, two fees, two sends, three
polls; no fault, or refusals, RPC failures and crashes.

Outside `PaidGetsPolicy` by its statement, and real: a transaction that lands after the
wait timed out, a product that is deactivated or whose rate changes between the payment
and `createPolicy`, and a second transaction paid before the 409 leave a payment without a
policy.

### 8.2 `Underwriting`

What a policy may cover: `Quote` (`buyPolicy`), `BeginCreate` and `CreatePolicy`
(`createPolicy`, which repeats the checks with the window that starts now), `FindPolicy`,
`LeaveAlone`, `UpdatePolicy` and `Announce` (`updatePolicy`, cut at its awaits: the columns
that change are written to the row as it is by then).

`KeyInWindow`: the month or the day of the oracle key meets the policy's window, however
late after the quote the policy was created and however often key and window were changed.
It excludes policies on which two updates were at work at once: there one update may move the
key and the other the window, each valid for the row it read. The oracle-key events of two
such updates may also be sent in the other order than their writes, so that the last event
does not name the key of the row (`LastEventIsCurrent`); a crash between a write and its event
is not modelled. `UnderwritingLimits.cfg` checks `LastEventIsCurrent`, `CoverageInRange` and
`WithinCapacity`, which fail (8.4). Instance of `purchase`: one
order, two updates, two formats of key for two periods, a crop and a flight product.
`KeyInWindow` is proved for every value of the constants (8.5).

### 8.3 `MoneyMath`

The arithmetic as operators on integers: `CalculatePremium`, `CalculateProRatedRefund` with
`formatStroops`, the decimal parser with its exponents and its rounding, the comparison
with a threshold, and the precision check of request bodies. A decimal is its sign, digits,
places and exponent. A behaviour performs one calculation and the run goes through all of
them in range. `AmountsExact`: the premium covers the computed cost by less than one XLM, is
not cheaper when split, and a refund is the floored share of the time left. `DecimalsExact`:
a payout decision is the comparison of the exact numbers for a threshold with no more places
than the scale, in any notation. Bounds: scale 1 for 7, a rate base of 4 for 10,000, a period
of 3 days for 30, values one step beyond every limit; the rounding cases depend on
remainders only, and every remainder occurs.

### 8.4 What the code does and a text says otherwise

* `policy.service.ts:254-255` takes `coverageMin` and `coverageMax` for "string-formatted
  integers". The column is `Decimal(20,7)` and the limit is cut to whole XLM, so a coverage
  may lie under the minimum by less than one XLM (`CoverageInRange`).
* `BigInt(coverageXlm)` throws for a coverage with decimals, which the request check allows.
* `policy.service.ts:276` compares the pool's balance, in the token's smallest unit, with
  whole XLM.
* The capacity is checked at the quote and not reserved; two quotes may together exceed it
  (`WithinCapacity`).

### 8.5 What is proved

`PurchaseProofs` proves all safety properties of this section, for any number of requests,
orders and updates, any calendar and any amounts.

* `RowsArePaid` (`PolicyBacked`): a handler that goes on to `createPolicy` has seen its
  transaction succeed, and a success is final.
* `KeyMeetsWindow` (`KeyInWindow`), from `CoverAssumption` (days are integers, a duration is
  at least 1, which `calculatePremium` checks): the invariant adds what an update relies on,
  that the row it read is the row it writes to, unless another update was noted on the same
  policy. An update checks the key and the window it asks for against the row it read and
  writes only the columns that differ; that this gives the row it checked needs that the two
  rows are one (`MergeCurrent`).
* `AmountsAreExact` and `DecimalsAreExact`, from `MoneyAssumption`: a behaviour is one
  calculation, so these are facts about the operators: rounding up and down, the parser's
  shift by a power of ten, and the half-unit case of a threshold longer than the scale. That
  the powers of ten are what they should be is the induction described in section 2.

`PaidGetsPolicy`, a liveness property, is only model-checked.

## 9. Delivery to clients (run `delivery`, module `MCDelivery`)

### 9.1 `StatusStream`

The live status of one policy. `Commit` is a write of the row, `EmitPolicyStatusChange` and
`Publish` the event on the writer's replica and its way to Redis, `HandleRemoteEvent` the
subscriber of the client's replica. `ReadPolicy`, `SubscribeToPolicyStatus`, `Verified`,
`VerifyFails` and `CleanupStream` are the stream in `policyStatusEvents`: status read, listener
attached, events buffered until ownership is known. `InOrderPerOrigin`: what a stream got of
one replica is an unbroken run of its events, each once, although a replica also receives
what it published itself (`IsRun` compares the positions of that replica's events with
consecutive emissions). `StreamCatchesUp`: every event after the listener was attached is
sent in the end. Fairness: messages arrive and look-ups end. Instance: two replicas, one
stream, three changes. Events of two replicas may arrive in another order than their commits.

### 9.2 `Webhooks`

Registrations, a notification nobody awaits (`Notify...`, `Load`), one delivery per
registration with its retries (`Succeed`, `Fail`, `Retry`) and the drain at shutdown
(`OnApplicationShutdown`, `Drained`, `DrainTimeout`). `DeliveredDespiteOthers`: a
registration is served however long another's endpoint fails. `DrainSettlesInFlight`: the
process exits only after the deliveries in flight when shutdown began, those asleep between
attempts included, are delivered or given up, unless the drain times out. Fairness: requests
end (they have a timeout), sleeps end. Instance: one notification, two registrations of which
one never answers, three retries. Delivery is at least once: a receiver whose answer was late
gets the event again. What starts, or is still loading its registrations, during the drain is
not waited for, and what is still retrying when the drain times out is lost.

Two simplifications. A request in the model ends; in the code the timer of ten seconds is
cleared when the headers are in (`webhooks.service.ts:454`) and the body is read after that
(`461`), so that only the runtime's own limit on a body ends that wait. And a registration
whose secret cannot be decrypted (`146`) makes the whole load come back empty, which the model
does not tell apart from a failed query.

### 9.3 `StreamingInterceptor`

One streamed response: the closure of `intercept`, the socket, the caller's subscriber and
the later turn that writes a list. Resources are named by the payload that brought them:
`closure.ref` is the one each of the closure's variables refers to, `closure.open` what is not
released. Every end (`PlainPayload`, `UpstreamError`, `UpstreamComplete`, `InnerEnds`,
`CloseEvent`, `RequestEnds`, `Finish`, `Unsubscribe`) runs the same cleanup. `RequestEnds` is
the `end` event of the request, or a call of the wrapped `cleanup` of a payload, while the
client is still there.

`ReleasedWhenGone`: once the client is gone, every timer, the handler's subscription and the
cursor, request, inner subscription and file that are referred to are released for good: no
late payload, message or write takes one up again. Fairness: Node delivers `close` and runs its
callbacks. Instance: two payloads, the first number at which one replaces another's resources.

* The header comment (`streaming.interceptor.ts:23-29`) says that a disconnect cleans up all
  associated resources. A cursor, request, inner Observable or file of an earlier payload is not
  among them: a later payload's takes its place in the closure (`149-150`, `167`, `216`), and
  nothing lets go of it (`AllReleased`). Timers are collected in a set and all cleared.
* `streaming.interceptor.spec.ts:254-271` expects the caller to see the error of a failed
  stream. `streaming.interceptor.ts:244-247` and `175-178` run `cleanup()` first, which
  completes the subscriber (`125-127`) (`ErrorReachesCaller`).
* A payload that arrives after the socket is destroyed and before `close` is dropped without
  releasing its own cursor (`141-144` precede `146-161`). The model counts what the
  interceptor was given before.
* A subscription assigned after a synchronous emission that cleans up is not unsubscribed.
  Emissions in the model are asynchronous.

### 9.4 What is proved

`DeliveryProofs` proves the safety properties of this section, for any number of replicas,
streams, changes, registrations, notifications and attempts.

* `StreamInOrder` (`InOrderPerOrigin`): while nothing fails there is, for every replica, a
  number of its emissions that the client's replica has heard. Every stream has a run that
  ends there, the connection carries the run from there to what is published, and the queue of
  commands carries the rest (`Adjacent`). Each step moves one of these borders.
* `DrainSettles` (`DrainSettlesInFlight`), from `RetryAssumption`: a delivery that left its
  loop was answered or has no attempt left (`Looping`), one that sleeps has one left, and what
  was in flight at the shutdown is awaited until it has left its loop (`Awaiting`).
* `ResponseReleased`: once `close` has been delivered to a stream it holds no timer, no
  subscription to the handler, and of the other resources only what a later payload had
  replaced; it takes up nothing again. `ReleasedWhenGone` adds that `close` does come, which is
  fairness. The invariant (`ResponseInv`) adds that a reference is to the latest resource of its
  kind, that nothing is held before the handler is subscribed, and that a closed exchange is
  marked, so that the late write of a list finds it over. It holds for any number of payloads.

`StreamCatchesUp`, `DeliveredDespiteOthers` and `ReleasedWhenGone`, liveness properties, are
only model-checked.

### 9.5 What the code does and a text says otherwise

* `policy.controller.ts:536`: "The current status is emitted immediately on connection,
  followed by events whenever the status changes." The status is read at 563 and the listener
  attached at 577; a change in between is not shown until the next (`ShowsCurrentStatus`).
* `main.ts:409-411`, of a retry with the same key: "a request that actually succeeded
  server-side but timed out on the client is not re-executed". The 408 releases the lock while
  the handler runs on, and a retry runs it again (`NotReexecuted`).
* `realtime-docs.ts` names retries after 10, 30 and 120 s, a heartbeat of 25 s and another
  header; the code waits up to 1, 2 and 4 s and beats every 15 s.

## 10. Further properties and configurations

The modules state these too. TLC checks them in the configuration named, with its properties
replaced. They hold:

| Property | Module | Configuration |
|---|---|---|
| `GateClaimUnsettled`, `ManualReviewIdle` (proved, 3.5) | `ClaimsLifecycle` | `ClaimsLifecycle.cfg` |
| `OrphanedKeyLapses` | `JobLock` | `JobLock.cfg` |
| `NoBadSequence`, `ThrownIsOver` (proved, 4.2) | `ContractInvocation` | `ContractInvocation.cfg` |
| `ClosedBelowThreshold` (proved, 4.3), `HalfOpenResolves`, `FlagMeansProbe`, `ClientsAccounted`, `QueriesOutliveRotation` | components of `MCClients` | `MCClients.cfg` |
| `OneSubmitter`, `RecordedIsFinal` (proved, 4.4), `InOnePlace`, `StoredInOrder` (proved, 4.5), `ClaimIsResolved` | components of `MCOracle` | `MCOracle.cfg` |
| `LockoutHasExpiry` (proved, 7.5) | `WalletLogin` | `MCRequests.cfg` |
| `WaitersGet409` | `Idempotency` | `Idempotency` alone, the constants of `MCRequests.cfg` |

These do not hold. Each is what a text says, or a reader may expect, and the code does not do;
TLC gives the behaviour:

| Property | Text in | Configuration |
|---|---|---|
| `LandsOnceUnanswered` | 4.7 | run `contract_resend` |
| `ExpiredWasEvaluated` | 3.4 | run `claims_unevaluated` |
| `FailedPayoutIsRetried` | 3.4 | `ClaimsUnevaluated.cfg` |
| `SweptPayoutNotRepeated` | 3.4 | `ClaimsReinvoke.cfg` |
| `FailedClaimStaysFailed` | 3.4 | `ClaimsStaleOutcome.cfg` |
| `HalfOpenHasProbe` | 4.7 | `OracleBreakerProbe.cfg`, module `OracleBreaker` |
| `NextCycleRetries` | 4.7 | `OracleRetry.cfg`, module `OracleSubmission` |
| `ShutdownFlushes` | 4.7 | `ReadingShutdown.cfg`, module `ReadingBuffer` |
| `FreshAfterEveryWrite`, `CacheFollowsMutation` | 5.4 | `MCCaches.cfg` |
| `VersionFollowsRate` | 5.4 | `MCCaches.cfg` with two `Admins` |
| `NotReexecuted` | 9.5 | `MCRequests.cfg` |
| `CoverageInRange`, `WithinCapacity`, `LastEventIsCurrent` | 8.2, 8.4 | `UnderwritingLimits.cfg` |
| `AllReleased`, `ErrorReachesCaller`, `ShowsCurrentStatus` | 9.3, 9.5 | `MCDelivery.cfg` |

## 11. Not modelled

`PROJECT.json` lists every part with its status. Left out, with the reason:

* Routing, API documentation, versioning, filters, logging and telemetry: conversions of one
  request, with no state between requests.
* Evidence validation: a predicate of one uploaded file.
* Signatures, encryption of webhook secrets, and the contents of messages: whether they verify
  is a choice of the environment.
* Read-only listings with their filters and summaries, the upload of evidence, and the
  claim-count cache: no modelled flow reads what they write.
* `persistReadings`, the bulk insert of readings, and the reads of contract data.
* The query cache of `PrismaService`, which has no caller, and the slow-query log.
* Reading of secrets at startup: input and output only. What a later refresh does is in
  `CredentialRotation`.
* The in-memory throttle guard, which `main.ts:168` no longer installs.
* The retry loop of serializable transactions: a transaction is one step, so a retry is
  invisible.

The chain, the RPC node, Redis, the database, Vault and the upstream APIs are external. They are
modelled by what the code may observe of them: answers, errors, silence and late answers.
