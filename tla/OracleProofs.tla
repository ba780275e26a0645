---------------------------- MODULE OracleProofs ----------------------------
(***************************************************************************)
(* Theorems about the oracle service, for every number of replicas, hours, *)
(* days and calls: a bucket's reading is submitted once while nothing is   *)
(* lost (OracleSubmission), a stored reading says what was observed        *)
(* (OracleFetch), a half-open circuit lets one call through                *)
(* (OracleBreaker), and the buffer of persistReading writes every reading  *)
(* but the bad ones, in order (ReadingBuffer).                             *)
(***************************************************************************)
EXTENDS OracleSubmission, OracleFetch, OracleBreaker, ReadingBuffer,
        FiniteSetTheorems, SequenceTheorems, WellFoundedInduction, TLAPS

-----------------------------------------------------------------------------
(* The way to the chain                                                    *)

\* A submitter holds its bucket's claim, alone; what it has landed is on the
\* ledger; a recorded bucket keeps its claim.
Claims ==
    /\ OneSubmitter /\ RecordedIsFinal
    /\ \A r \in Replica : Submitting(r) => bucket[r] \in submitted
    /\ \A r \in Replica : pc[r] = "invoke" => bucket[r] \notin hash
    /\ \A r \in done : pc[r] = "invoke" /\ onChain[bucket[r]] > 0
    /\ \A r \in Replica : pc[r] = "record" => onChain[bucket[r]] > 0

\* While nothing is lost, a bucket on the ledger is there once, and its hash is
\* stored or on its way.
Counted ==
    /\ late = {}
    /\ \A b \in Hour :
        /\ onChain[b] <= 1
        /\ onChain[b] = 1 => \/ b \in hash
                             \/ \E r \in Replica : /\ bucket[r] = b
                                                   /\ r \in done \/ pc[r] = "record"

SubmitInv == SubmitTypeOK /\ Claims /\ (faults = {} => Counted)

\* bucketStartFor keeps a time within the modelled hours.
LEMMA BucketInRange ==
    ASSUME NEW t \in 0..LastTick
    PROVE  BucketStartFor(t) \in Hour
<1>1. MaxHour \in Nat /\ TicksPerHour \in Nat /\ TicksPerHour > 0
  BY HourAssumption
<1>2. t \in Nat /\ t < (MaxHour + 1) * TicksPerHour
  BY <1>1 DEF LastTick
<1>3. PICK q \in Nat, m \in 0..(TicksPerHour - 1) :
          t = q * TicksPerHour + m /\ q = t \div TicksPerHour
  BY <1>1, <1>2
<1>4. q * TicksPerHour < (MaxHour + 1) * TicksPerHour
  BY <1>1, <1>2, <1>3
<1>5. q < MaxHour + 1
  BY <1>1, <1>3, <1>4
<1> QED BY <1>1, <1>3, <1>5 DEF BucketStartFor, Hour

\* The type invariant, action by action.
LEMMA SubmitTypes == SubmitTypeOK /\ SubmitNext => SubmitTypeOK'
<1> SUFFICES ASSUME SubmitTypeOK, SubmitNext PROVE SubmitTypeOK'
  OBVIOUS
<1> USE DEF SubmitTypeOK, Goto, Complete, claimRow, ledger
<1>1. faults' \in FaultSets
  BY DEF SubmitNext
<1>2. ASSUME NEW r \in Replica, Start(r) PROVE SubmitTypeOK'
  <2>1. now \div TicksPerHour \in Hour
    BY BucketInRange DEF BucketStartFor
  <2> QED BY <1>1, <1>2, <2>1 DEF Start
<1>3. ASSUME NEW r \in Replica, FetchReading(r) PROVE SubmitTypeOK'
  <2>1. BucketStartFor(now) \in Hour
    BY BucketInRange, Zenon
  <2> QED BY <1>1, <1>3, <2>1 DEF FetchReading
<1>4. ASSUME NEW r \in Replica,
             \/ NoReading(r) \/ Persist(r) \/ NotSubmitted(r)
             \/ ClaimDenied(r) \/ RecordFailed(r) \/ ReleaseFailed(r)
      PROVE  SubmitTypeOK'
  BY <1>1, <1>4, Zenon DEF NoReading, Persist, NotSubmitted, ClaimDenied, RecordFailed,
                    ReleaseFailed, AfterThrow
<1>5. ASSUME NEW r \in Replica, Claim(r) \/ Record(r) \/ Release(r)
      PROVE  SubmitTypeOK'
  BY <1>1, <1>5 DEF Claim, Record, Release, AfterThrow
<1>6. ASSUME NEW r \in Replica, Invoked(r) \/ InvokeThrew(r) \/ Crash(r)
      PROVE  SubmitTypeOK'
  BY <1>1, <1>6 DEF Invoked, InvokeThrew, Crash, AfterThrow
<1>7. ASSUME NEW r \in Replica, Land(r) PROVE SubmitTypeOK'
  BY <1>1, <1>7 DEF Land
<1>8. ASSUME NEW r \in Replica, NEW b \in Hour, LandLate(r, b) PROVE SubmitTypeOK'
  BY <1>1, <1>8 DEF LandLate
<1>9. CASE ClockTick
  <2>1. LastTick \in Int
    BY HourAssumption, SMTT(30) DEF LastTick
  <2> QED BY <1>1, <1>9, <2>1 DEF ClockTick
<1> QED BY <1>2, <1>3, <1>4, <1>5, <1>6, <1>7, <1>8, <1>9, Zenon DEF SubmitNext, Step

\* The claim on a bucket, action by action, whatever fails.
LEMMA SubmitClaims == SubmitTypeOK /\ Claims /\ SubmitNext => Claims'
<1> SUFFICES ASSUME SubmitTypeOK, Claims, SubmitNext PROVE Claims'
  BY Zenon
<1> USE DEF Claims, OneSubmitter, RecordedIsFinal, Submitting, Goto, Complete,
            claimRow, ledger, SubmitTypeOK
<1>2. ASSUME NEW r \in Replica,
             \/ Start(r) \/ FetchReading(r) \/ NoReading(r) \/ Persist(r)
             \/ NotSubmitted(r) \/ ClaimDenied(r) \/ RecordFailed(r)
             \/ ReleaseFailed(r)
      PROVE  Claims'
  BY <1>2, SMTT(60) DEF Start, FetchReading, NoReading, Persist, NotSubmitted, ClaimDenied,
              RecordFailed, ReleaseFailed, AfterThrow
<1>3. ASSUME NEW r \in Replica, Claim(r) PROVE Claims'
  BY <1>3, ZenonT(30) DEF Claim, Unclaimed
<1>4. ASSUME NEW r \in Replica, Record(r) PROVE Claims'
  BY <1>4, ZenonT(30) DEF Record, AfterThrow
<1>5. ASSUME NEW r \in Replica, Release(r) PROVE Claims'
  BY <1>5, Zenon DEF Release, Releasable
<1>6. ASSUME NEW r \in Replica, Invoked(r) \/ InvokeThrew(r) \/ Crash(r)
      PROVE  Claims'
  BY <1>6 DEF Invoked, InvokeThrew, Crash, AfterThrow
<1>7. ASSUME NEW r \in Replica, Land(r) PROVE Claims'
  BY <1>7 DEF Land
<1>8. ASSUME NEW r \in Replica, NEW b \in Hour, LandLate(r, b) PROVE Claims'
  BY <1>8 DEF LandLate
<1>9. CASE ClockTick
  BY <1>9, Zenon DEF ClockTick
<1> QED BY <1>2, <1>3, <1>4, <1>5, <1>6, <1>7, <1>8, <1>9, Zenon DEF SubmitNext, Step

\* The count on the ledger, for the steps of a behaviour in which nothing is lost.
LEMMA SubmitCounted ==
    ASSUME SubmitTypeOK, Claims, Counted, faults = {}, SubmitNext
    PROVE  Counted'
<1> USE DEF Counted, Goto, Complete, claimRow, ledger
<1>1. /\ bucket \in [Replica -> Hour]
      /\ pc \in [Replica -> {"idle", "fetch", "persist", "claim", "invoke",
                             "record", "release"}]
      /\ onChain \in [Hour -> Nat] /\ done \subseteq Replica
      /\ \A r \in done : pc[r] = "invoke"
  BY Zenon DEF SubmitTypeOK, Claims
<1>2. ASSUME NEW r \in Replica,
             \/ Start(r) \/ FetchReading(r) \/ NoReading(r) \/ Persist(r)
             \/ NotSubmitted(r) \/ ClaimDenied(r) \/ Claim(r) \/ Release(r)
      PROVE  Counted'
  BY <1>1, <1>2, SMTT(60) DEF Start, FetchReading, NoReading, Persist, NotSubmitted,
                    ClaimDenied, Claim, Release
<1>3. ASSUME NEW r \in Replica, Record(r) PROVE Counted'
  BY <1>1, <1>3 DEF Record
<1>4. ASSUME NEW r \in Replica, Invoked(r) \/ InvokeThrew(r) PROVE Counted'
  BY <1>1, <1>4 DEF Invoked, InvokeThrew, AfterThrow
<1>5. ASSUME NEW r \in Replica, Land(r) PROVE Counted'
  <2>1. \A s \in Replica : bucket[s] = bucket[r] /\ Submitting(s) => s = r
    BY <1>5, Zenon DEF Claims, OneSubmitter, Submitting, Land
  <2>2. bucket[r] \notin hash
    BY <1>5, Zenon DEF Claims, Land
  <2>3. onChain[bucket[r]] = 0
    BY <1>1, <1>5, <2>1, <2>2 DEF Submitting, Land
  <2> QED BY <1>1, <1>5, <2>3 DEF Land
<1>6. CASE ClockTick
  BY <1>6, Zenon DEF ClockTick
<1>7. late = {} /\ faults = {}
  OBVIOUS
<1> HIDE DEF Counted
<1> QED BY <1>2, <1>3, <1>4, <1>5, <1>6, <1>7
      DEF SubmitNext, Step, RecordFailed, ReleaseFailed, Crash, LandLate

\* The worker's first state satisfies the invariant.
LEMMA SubmitInit0 == SubmitInit => SubmitInv
<1> SUFFICES ASSUME SubmitInit PROVE SubmitInv
  OBVIOUS
<1>1. 0 \in Hour /\ 0 \in 0..LastTick
  <2>1. (MaxHour + 1) * TicksPerHour >= 1
    BY HourAssumption
  <2> QED BY <2>1, HourAssumption DEF Hour, LastTick
<1> QED BY <1>1 DEF SubmitInit, SubmitInv, SubmitTypeOK, Claims, Counted,
                    OneSubmitter, RecordedIsFinal, Submitting

\* SubmitInv is inductive: every cron run of every replica, and every failure.
THEOREM SubmitInvariance == SubmitSpec => []SubmitInv
<1>1. SubmitInv /\ [SubmitNext]_submitVars => SubmitInv'
  <2> SUFFICES ASSUME SubmitInv, [SubmitNext]_submitVars PROVE SubmitInv'
    OBVIOUS
  <2>1. CASE SubmitNext
    <3>1. faults' = faults
      BY <2>1, Zenon DEF SubmitNext
    <3> QED BY <2>1, <3>1, SubmitTypes, SubmitClaims, SubmitCounted DEF SubmitInv
  <2>2. CASE UNCHANGED submitVars
    BY <2>2 DEF submitVars, SubmitInv, SubmitTypeOK, Claims, Counted, OneSubmitter,
                RecordedIsFinal, Submitting
  <2> QED BY <2>1, <2>2
<1> QED BY <1>1, SubmitInit0, PTL DEF SubmitSpec

\* claimForOnChainSubmission's conditional update, with the release that spares a
\* recorded row, keeps a reading from being submitted twice by any number of
\* replicas over any number of hours while nothing is lost.
THEOREM ReadingSubmittedOnce == SubmitSpec => []SubmittedOnce
<1>1. SubmitInv => SubmittedOnce
  BY DEF SubmitInv, Counted, SubmittedOnce
<1> QED BY <1>1, SubmitInvariance, PTL

\* Whatever fails, the conditional update is a lock, and no release undoes a
\* recorded submission.
THEOREM ClaimIsALock == SubmitSpec => [](OneSubmitter /\ RecordedIsFinal)
<1>1. SubmitInv => OneSubmitter /\ RecordedIsFinal
  BY Zenon DEF SubmitInv, Claims
<1> QED BY <1>1, SubmitInvariance, PTL

-----------------------------------------------------------------------------
(* How a reading is made                                                   *)

\* Induction on the natural numbers, for a set in place of a predicate.
LEMMA SetInduction ==
  ASSUME NEW S, 0 \in S, \A n \in Nat : n \in S => n + 1 \in S
  PROVE  \A n \in Nat : n \in S
<1> DEFINE R == OpToRel(<, Nat)
           T == Nat \ S
<1> SUFFICES ASSUME T # {} PROVE FALSE
  OBVIOUS
<1>1. \A y, x \in Nat : y < x => <<y, x>> \in R
  BY DEF OpToRel
<1>2. IsWellFoundedOn(R, Nat)
  BY NatLessThanWellFounded, Zenon
<1>3. T \subseteq Nat
  OBVIOUS
<1> HIDE DEF R, T
<1>4. PICK x \in T : \A y \in T : ~(<<y, x>> \in R)
  BY <1>2, <1>3, WFMin, Zenon
<1>5. x \in Nat /\ x \notin S /\ x # 0
  BY DEF T
<1>6. x - 1 \in Nat /\ x - 1 < x /\ x = (x - 1) + 1
  BY <1>5
<1>7. x - 1 \in T
  BY <1>5, <1>6 DEF T
<1> QED
  BY <1>1, <1>3, <1>4, <1>5, <1>6, <1>7, Zenon

IsSum(f, v, n) ==
  f \in [0..n -> Int] /\ f[0] = 0 /\ \A i \in 1..n: f[i] = f[i - 1] + v[i]

\* Every month of integers has its table of running sums.
LEMMA SumsExist ==
  ASSUME NEW v \in [Month -> Int]
  PROVE  \A n \in Nat: n <= Days => \E f: IsSum(f, v, n)
<1> DEFINE S == {n \in Nat: n <= Days => \E f: IsSum(f, v, n)}
<1>0. Days \in Nat
  BY FetchAssumption
<1>1. 0 \in S
  <2>1. IsSum([i \in 0..0 |-> 0], v, 0)
    BY DEF IsSum
  <2> QED BY <2>1
<1>2. ASSUME NEW n \in Nat, n \in S PROVE n + 1 \in S
  <2> SUFFICES ASSUME n + 1 <= Days PROVE \E g: IsSum(g, v, n + 1)
    OBVIOUS
  <2>1. PICK f: IsSum(f, v, n)
    BY <1>0, <1>2
  <2> DEFINE g == [i \in 0..(n + 1) |-> IF i = n + 1 THEN f[n] + v[n + 1] ELSE f[i]]
  <2>2. \A i \in 0..n: f[i] \in Int /\ g[i] = f[i]
    BY <2>1 DEF IsSum
  <2>3. v[n + 1] \in Int
    BY <1>0 DEF Month
  <2>4. g \in [0..(n + 1) -> Int] /\ g[0] = 0 /\ g[n + 1] = f[n] + v[n + 1]
    BY <2>1, <2>2, <2>3 DEF IsSum
  <2> HIDE DEF g
  <2>5. ASSUME NEW i \in 1..(n + 1) PROVE g[i] = g[i - 1] + v[i]
    <3>1. CASE i = n + 1
      BY <2>2, <2>4, <3>1
    <3>2. CASE i \in 1..n
      BY <2>1, <2>2, <3>2 DEF IsSum
    <3> QED BY <3>1, <3>2
  <2>6. IsSum(g, v, n + 1)
    BY <2>4, <2>5 DEF IsSum
  <2> QED BY <2>6
<1> HIDE DEF S
<1>3. \A n \in Nat: n \in S
  BY <1>1, <1>2, SetInduction
<1> QED BY <1>3 DEF S

\* Summing integers day after day gives an integer.
LEMMA RunningSumIsInt ==
  ASSUME NEW v \in [Month -> Int]
  PROVE  RunningSum(v)[Days] \in Int
<1>0. Days \in Nat
  BY FetchAssumption
<1>1. PICK f: IsSum(f, v, Days)
  BY <1>0, SumsExist
<1>2. f = [d \in 0..Days |-> IF d = 0 THEN 0 ELSE f[d - 1] + v[d]]
  BY <1>0, <1>1 DEF IsSum
<1>3. \E g: g = [d \in 0..Days |-> IF d = 0 THEN 0 ELSE g[d - 1] + v[d]]
  BY <1>2, Zenon
<1> DEFINE s == RunningSum(v)
<1>4. s = [d \in 0..Days |-> IF d = 0 THEN 0 ELSE s[d - 1] + v[d]]
  BY <1>3, Zenon DEF RunningSum
<1> HIDE DEF s
<1> DEFINE S == {n \in Nat: n <= Days => s[n] \in Int}
<1>5. 0 \in S
  BY <1>0, <1>4
<1>6. ASSUME NEW n \in Nat, n \in S PROVE n + 1 \in S
  <2> SUFFICES ASSUME n + 1 <= Days PROVE s[n + 1] \in Int
    OBVIOUS
  <2>1. /\ n <= Days /\ s[n] \in Int /\ n + 1 \in 0..Days /\ n + 1 # 0
        /\ (n + 1) - 1 = n /\ v[n + 1] \in Int
    BY <1>0, <1>6 DEF Month
  <2>2. s[n + 1] = s[(n + 1) - 1] + v[n + 1]
    BY <1>4, <2>1, Zenon
  <2> QED BY <2>1, <2>2
<1> HIDE DEF S
<1>7. \A n \in Nat: n \in S
  BY <1>5, <1>6, SetInduction
<1> QED BY <1>0, <1>7 DEF S, s

\* A product of integers, for leaves that hold other products.
LEMMA ProductIsInt == \A x, y \in Int : x * y \in Int
OBVIOUS

\* Math.round is within a half of the quotient.
LEMMA RoundFacts ==
  ASSUME NEW a \in Int, NEW b \in Nat \ {0}
  PROVE  /\ Round(a, b) \in Int
         /\ (2 * b) * Round(a, b) <= 2 * a + b
         /\ 2 * a + b < (2 * b) * Round(a, b) + 2 * b
<1> DEFINE n == 2 * a + b
           d == 2 * b
<1>1. n \in Int /\ d \in Int /\ d > 0
  OBVIOUS
<1>2. Round(a, b) = n \div d
  BY DEF Round
<1> HIDE DEF n, d
<1>3. n \div d \in Int /\ d * (n \div d) <= n /\ n < d * (n \div d) + d
  BY <1>1
<1> QED BY <1>2, <1>3 DEF n, d

\* A call was made on a day its answer was not made before.
CallOK ==
  \/ call = IdleCall
  \/ \E t \in 0..day, n \in Nat:
       call = [pc |-> "asked", today |-> t, attempt |-> n, answer |-> None]
  \/ \E m \in Nat, n \in Nat: \E t \in 0..m: \E a \in AnswersMadeOn(m):
       call = [pc |-> "answered", today |-> t, attempt |-> n, answer |-> a]

FetchInv == kind \in Kinds /\ day \in Nat /\ CallOK /\ StoredIsObserved

\* What a month of weather comes to, if the call does not throw and the reading
\* carries data.
LEMMA WeatherIsObserved ==
  ASSUME kind \in Kinds, kind \in {"rainfall", "temperature"},
         NEW m \in Nat, NEW n \in Nat, NEW t \in 0..m, NEW a \in AnswersMadeOn(m),
         NEW c, c = [pc |-> "answered", today |-> t, attempt |-> n, answer |-> a],
         ~WeatherThrows(c), WeatherReading(c).confidence > 0
  PROVE  /\ WeatherReading(c) # None
         /\ WeatherReading(c).of = a /\ a.ok /\ a.made = m
         /\ a.dated => SaysObserved(WeatherReading(c), t)
<1> DEFINE r == WeatherReading(c)
           obs == Observed(c)
           card == Cardinality(obs)
           n0 == Divisor(c)
           sum == Total(c)
<1>1. c.answer = a /\ Today(c) = t
  BY Zenon DEF Today
<1>2. a.ok
  BY <1>1 DEF WeatherThrows
<1>3. a.values \in [Month -> Values \cup {Null}] /\ a.dated \in BOOLEAN /\ a.made = m
  <2>1. CASE a = [ok |-> FALSE, made |-> m]
    BY <1>2, <2>1, Zenon
  <2>2. CASE a \in [ok: {TRUE}, values: [Month -> Values \cup {Null}],
                    dated: BOOLEAN, made: {m}]
    BY <2>2, Zenon
  <2> QED BY <2>1, <2>2, Zenon DEF AnswersMadeOn
<1>4. /\ Days \in Nat \ {0} /\ Scale \in Nat \ {0} /\ Values \subseteq Int
      /\ Bounds[kind].min \in Int /\ Bounds[kind].max \in Int
  BY FetchAssumption, Zenon
<1>5. IsFiniteSet(obs) /\ card \in Nat /\ obs \subseteq Month
  <2>1. IsFiniteSet(Month)
    BY <1>4, FS_Interval DEF Month
  <2>2. obs \subseteq Month
    BY Zenon DEF Observed
  <2>3. IsFiniteSet(obs)
    BY <2>1, <2>2, FS_Subset, Zenon
  <2> QED BY <2>2, <2>3, FS_CardinalityType, Zenon
<1>6. sum \in Int
  <2> DEFINE v == [d \in Month |-> IF d \in obs THEN a.values[d] ELSE 0]
  <2>1. \A d \in obs: a.values[d] \in Int
    BY <1>1, <1>3, <1>4, Zenon DEF Observed
  <2>2. v \in [Month -> Int]
    BY <2>1
  <2>3. sum = RunningSum(v)[Days]
    BY <1>1, Zenon DEF Total, SumOver
  <2> HIDE DEF v
  <2> QED BY <2>2, <2>3, RunningSumIsInt
<1>7. r.value = Round(sum * Scale, n0) /\ r.confidence = Round(card * 95, Days) /\ r.of = a
  BY <1>1 DEF WeatherReading
<1>8. r # None
  <2>1. DOMAIN r = {"value", "confidence", "of"}
    BY Zenon DEF WeatherReading
  <2>2. DOMAIN None = {"none"}
    BY Zenon DEF None
  <2> QED BY <2>1, <2>2, Zenon
<1>9. r.confidence > 0
  BY Zenon
<1>10. obs # {}
  <2> SUFFICES ASSUME obs = {} PROVE FALSE
    BY Zenon
  <2>1. card = 0
    BY FS_EmptySet
  <2>2. (2 * Days) * r.confidence <= 2 * (card * 95) + Days /\ r.confidence \in Int
    <3>1. card * 95 \in Int
      BY <1>5
    <3> HIDE DEF r, card
    <3> QED BY <1>4, <1>7, <3>1, RoundFacts, Zenon
  <2> HIDE DEF r, card
  <2>3. (2 * Days) * r.confidence <= Days
    BY <1>4, <2>1, <2>2, SMTT(60)
  <2> QED BY <1>4, <1>9, <2>2, <2>3
<1>11. card > 0
  BY <1>5, <1>10, FS_EmptySet
<1>12. n0 \in Nat \ {0} /\ n0 = IF kind = "temperature" THEN card ELSE 1
  BY <1>5, <1>10, <1>11 DEF Divisor
<1> HIDE DEF n0, sum, card
<1>13. /\ r.value \in Int
       /\ (2 * n0) * r.value <= 2 * (sum * Scale) + n0
       /\ 2 * (sum * Scale) + n0 < (2 * n0) * r.value + 2 * n0
  <2>1. sum * Scale \in Int
    BY <1>4, <1>6, ProductIsInt
  <2> HIDE DEF r
  <2> QED BY <1>7, <1>12, <2>1, RoundFacts, Zenon
<1>14. /\ r.confidence \in Int
       /\ (2 * Days) * r.confidence <= 2 * (card * 95) + Days
       /\ 2 * (card * 95) + Days < (2 * Days) * r.confidence + 2 * Days
  <2>1. card * 95 \in Int
    BY <1>5
  <2> HIDE DEF r
  <2> QED BY <1>4, <1>7, <2>1, RoundFacts, ZenonT(30)
<1> HIDE DEF r
<1>15. 2 * n0 * r.value <= 2 * Scale * sum + n0 /\ 2 * Scale * sum < 2 * n0 * r.value + n0
  <2>1. 2 * (sum * Scale) = 2 * Scale * sum
    BY <1>4, <1>6
  <2>2. 2 * Scale * sum \in Int /\ 2 * n0 * r.value \in Int
    BY <1>4, <1>6, <1>12, <1>13, SMTT(30)
  <2> QED BY <1>12, <1>13, <2>1, <2>2, SMTT(30)
<1>16. 2 * (95 * card - Days * r.confidence) \in (0 - Days)..(Days - 1)
  <2>1. PICK p \in Int: p = Days * r.confidence
    BY <1>4, <1>14
  <2>2. (2 * Days) * r.confidence = 2 * p
    BY <1>4, <1>14, <2>1, SMTT(30)
  <2> QED BY <1>4, <1>5, <1>14, <2>1, <2>2, SMTT(30)
<1>17. \A d \in obs: Bounds[kind].min <= a.values[d] /\ a.values[d] <= Bounds[kind].max
  <2> SUFFICES ASSUME NEW d \in obs
               PROVE  Bounds[kind].min <= a.values[d] /\ a.values[d] <= Bounds[kind].max
    BY Zenon
  <2>1. WithinBounds(a.values[d], 1)
    BY <1>1, Zenon DEF WeatherThrows
  <2>2. Bounds[kind].min * 1 = Bounds[kind].min /\ Bounds[kind].max * 1 = Bounds[kind].max
    BY <1>4, SMTT(30)
  <2> QED BY <2>1, <2>2, Zenon DEF WithinBounds
<1>18. ASSUME a.dated PROVE SaysObserved(r, t)
  <2>1. {d \in Month: d <= t /\ r.of.values[d] # Null} = obs
    BY <1>1, <1>7, <1>18, Zenon DEF Observed
  <2>2. SumOver(r.of.values, obs) = sum
    BY <1>1, <1>7, Zenon DEF sum, Total
  <2> HIDE DEF obs
  <2> QED BY <1>7, <1>10, <1>12, <1>15, <1>16, <1>17, <2>1, <2>2, ZenonT(30)
        DEF SaysObserved, card
<1> QED BY <1>2, <1>3, <1>7, <1>8, <1>18, Zenon DEF r

\* What a flight comes to, if the reading carries data.
LEMMA FlightIsObserved ==
  ASSUME NEW m \in Nat, NEW n \in Nat, NEW t \in 0..m, NEW a \in AnswersMadeOn(m),
         NEW c, c = [pc |-> "answered", today |-> t, attempt |-> n, answer |-> a],
         FlightReading(c).confidence > 0
  PROVE  /\ FlightReading(c).of = a /\ a.ok /\ a.values[1] # Null
         /\ FlightReading(c).value = a.values[1] * Scale
<1>1. c.answer = a
  OBVIOUS
<1>2. ~Unknown(c)
  <2>1. SUFFICES ASSUME Unknown(c) PROVE FALSE
    BY SMTT(30)
  <2>2. FlightReading(c).confidence = 0
    BY <2>1, Zenon DEF FlightReading
  <2> QED BY <2>2
<1>3. FlightReading(c) = [value |-> a.values[1] * Scale, confidence |-> 95, of |-> a]
  BY <1>1, <1>2 DEF FlightReading
<1> QED BY <1>1, <1>2, <1>3 DEF Unknown

\* FetchInv is inductive: the request, its retries, the answer, the reading and the day.
THEOREM FetchInvariance == FetchSpec => []FetchInv
<1>1. FetchInit => FetchInv
  BY FetchAssumption DEF FetchInit, FetchInv, CallOK, StoredIsObserved
<1>2. FetchInv /\ [FetchNext]_fetchVars => FetchInv'
  <2> SUFFICES ASSUME FetchInv, [FetchNext]_fetchVars PROVE FetchInv'
    OBVIOUS
  <2>1. ASSUME UNCHANGED <<kind, row>> PROVE StoredIsObserved'
    BY <2>1, Zenon DEF FetchInv, StoredIsObserved, SaysObserved
  <2>2. CASE StartFetch
    <3>1. CallOK'
      BY <2>2 DEF StartFetch, CallOK, FetchInv
    <3> QED BY <2>1, <2>2, <3>1, Zenon DEF StartFetch, FetchInv
  <2>3. ASSUME call.pc = "asked"
        PROVE  \E t \in 0..day, k \in Nat:
                 call = [pc |-> "asked", today |-> t, attempt |-> k, answer |-> None]
    BY <2>3 DEF FetchInv, CallOK, IdleCall
  <2>4. CASE RateLimited \/ Failed
    <3>1. PICK t \in 0..day, k \in Nat:
            call = [pc |-> "asked", today |-> t, attempt |-> k, answer |-> None]
      BY <2>3, <2>4 DEF RateLimited, Failed
    <3>2. \/ call' = IdleCall
          \/ call' = [pc |-> "asked", today |-> t, attempt |-> k + 1, answer |-> None]
      BY <2>4, <3>1 DEF RateLimited, Failed
    <3>3. CallOK'
      BY <2>4, <3>2 DEF CallOK, RateLimited, Failed
    <3> QED BY <2>1, <2>4, <3>3 DEF RateLimited, Failed, FetchInv
  <2>5. CASE Answer
    <3>1. PICK t \in 0..day, k \in Nat:
            call = [pc |-> "asked", today |-> t, attempt |-> k, answer |-> None]
      BY <2>3, <2>5, SMTT(30) DEF Answer
    <3>2. PICK a \in AnswersMadeOn(day):
            call' = [call EXCEPT !.pc = "answered", !.answer = a]
      BY <2>5, Zenon DEF Answer
    <3>3. call' = [pc |-> "answered", today |-> t, attempt |-> k, answer |-> a]
      BY <3>1, <3>2, Zenon
    <3>4. CallOK'
      BY <3>3, Zenon DEF CallOK, FetchInv
    <3> QED BY <2>1, <2>5, <3>4 DEF Answer, FetchInv
  <2>6. ASSUME call.pc = "answered"
        PROVE  \E m \in Nat, k \in Nat: \E t \in 0..m: \E a \in AnswersMadeOn(m):
                 call = [pc |-> "answered", today |-> t, attempt |-> k, answer |-> a]
    BY <2>6 DEF FetchInv, CallOK, IdleCall
  <2>7. CASE ReadRainfall \/ ReadTemperature
    <3>1. PICK m \in Nat, k \in Nat: \E t \in 0..m: \E a \in AnswersMadeOn(m):
            call = [pc |-> "answered", today |-> t, attempt |-> k, answer |-> a]
      BY <2>6, <2>7, Zenon DEF ReadRainfall, ReadTemperature, ReadWeather
    <3>2. PICK t \in 0..m: \E a \in AnswersMadeOn(m):
            call = [pc |-> "answered", today |-> t, attempt |-> k, answer |-> a]
      BY <3>1, Zenon
    <3>3. PICK a \in AnswersMadeOn(m):
            call = [pc |-> "answered", today |-> t, attempt |-> k, answer |-> a]
      BY <3>2, Zenon
    <3>4. /\ kind \in {"rainfall", "temperature"} /\ kind \in Kinds
          /\ ReadWeather /\ UNCHANGED <<kind, day>> /\ CallOK'
      BY <2>7, Zenon DEF ReadRainfall, ReadTemperature, ReadWeather, FetchInv, CallOK
    <3>5. CASE row' = row
      BY <2>1, <3>4, <3>5, Zenon DEF FetchInv
    <3>6. CASE row' # row
      <4>1. /\ ~WeatherThrows(call) /\ WeatherReading(call).confidence > 0
            /\ row' = WeatherReading(call)
        BY <3>4, <3>6, Zenon DEF ReadWeather, Persisted
      <4>2. /\ row'.of = a /\ a.ok /\ a.made = m
            /\ a.dated => SaysObserved(WeatherReading(call), t)
        BY <3>3, <3>4, <4>1, WeatherIsObserved, SMTT(30)
      <4>3. ASSUME NEW w, row' = w, kind' = kind, SaysObserved(w, t)
            PROVE  SaysObserved(row, t)'
        BY <4>3, Zenon DEF SaysObserved
      <4>4. a.dated => SaysObserved(row, t)'
        BY <3>4, <4>1, <4>2, <4>3, Zenon
      <4>5. StoredIsObserved'
        BY <3>4, <4>2, <4>4, Zenon DEF StoredIsObserved
      <4> QED BY <3>4, <4>5, Zenon DEF FetchInv
    <3> QED BY <3>5, <3>6, Zenon
  <2>8. CASE ReadFlight
    <3>1. PICK m \in Nat, k \in Nat: \E t \in 0..m: \E a \in AnswersMadeOn(m):
            call = [pc |-> "answered", today |-> t, attempt |-> k, answer |-> a]
      BY <2>6, <2>8, Zenon DEF ReadFlight
    <3>2. PICK t \in 0..m: \E a \in AnswersMadeOn(m):
            call = [pc |-> "answered", today |-> t, attempt |-> k, answer |-> a]
      BY <3>1
    <3>3. PICK a \in AnswersMadeOn(m):
            call = [pc |-> "answered", today |-> t, attempt |-> k, answer |-> a]
      BY <3>2
    <3>4. kind = "delay" /\ kind \in Kinds /\ UNCHANGED <<kind, day>> /\ CallOK'
      BY <2>8 DEF ReadFlight, FetchInv, CallOK
    <3>5. CASE row' = row
      BY <2>1, <3>4, <3>5, Zenon DEF FetchInv
    <3>6. CASE row' # row
      <4>1. FlightReading(call).confidence > 0 /\ row' = FlightReading(call)
        BY <2>8, <3>6, Zenon DEF ReadFlight, Persisted
      <4>2. row'.of = a /\ a.ok /\ a.values[1] # Null /\ row'.value = a.values[1] * Scale
        BY <3>3, <4>1, FlightIsObserved
      <4>3. StoredIsObserved'
        BY <3>4, <4>2 DEF StoredIsObserved
      <4> QED BY <3>4, <4>3, Zenon DEF FetchInv
    <3> QED BY <3>5, <3>6
  <2>9. CASE DayTick
    <3>1. day' \in Nat /\ 0..day \subseteq 0..day' /\ UNCHANGED <<kind, call, row>>
      BY <2>9 DEF DayTick, FetchInv
    <3>2. CallOK'
      BY <3>1, Zenon DEF CallOK, FetchInv
    <3> QED BY <2>1, <3>1, <3>2 DEF FetchInv
  <2>10. CASE UNCHANGED fetchVars
    BY <2>1, <2>10 DEF fetchVars, FetchInv, CallOK
  <2> QED BY <2>2, <2>4, <2>5, <2>7, <2>8, <2>9, <2>10, Zenon DEF FetchNext
<1> QED BY <1>1, <1>2, PTL DEF FetchSpec

\* A stored reading is an observation: for every length of the month, every value
\* an upstream reports and every day it is asked, answers and is read on.
THEOREM ReadingIsObserved == FetchSpec => []StoredIsObserved
<1>1. FetchInv => StoredIsObserved
  BY DEF FetchInv
<1> QED BY <1>1, FetchInvariance, PTL

-----------------------------------------------------------------------------
(* The circuit breaker in front of an upstream                             *)

\* A probe is under way only in a half-open circuit whose flag is set: a late
\* answer that moves the circuit also ends the period the probe belongs to.
BreakerInv ==
    /\ BreakerTypeOK
    /\ probing # {} => state = "HALF_OPEN" /\ probe
    /\ \A c, d \in probing : c = d
    /\ ClosedBelowThreshold

\* BreakerInv is inductive: execute, whatever its call ends with, and the clock.
THEOREM BreakerInvariance == BreakerSpec => []BreakerInv
<1>1. BreakerInit => BreakerInv
  <2> SUFFICES ASSUME BreakerInit PROVE BreakerInv
    OBVIOUS
  <2>1. failures \in 0..Cap /\ since \in 0..ResetTimeout /\ failures < Threshold
    BY BreakerAssumption DEF BreakerInit, Cap
  <2>2. BreakerTypeOK
    BY <2>1, Zenon DEF BreakerInit, BreakerTypeOK
  <2> QED BY <2>1, <2>2 DEF BreakerInit, BreakerInv, ClosedBelowThreshold
<1>2. BreakerInv /\ [BreakerNext]_breakerVars => BreakerInv'
  <2> SUFFICES ASSUME BreakerInv, [BreakerNext]_breakerVars PROVE BreakerInv'
    OBVIOUS
  <2> USE BreakerAssumption DEF BreakerInv, BreakerTypeOK, Cap, ClosedBelowThreshold
  <2>1. CASE BreakerTick
    BY <2>1 DEF BreakerTick
  <2>2. ASSUME NEW c \in Call, Execute(c) PROVE BreakerInv'
    <3>1. CASE GetState = "HALF_OPEN"
      <4>1. probing = {}
        BY <2>2, <3>1, Zenon DEF Execute, GetState, HalfOpens, ProbeInFlight
      <4> QED BY <2>2, <3>1, <4>1, Zenon DEF Execute
    <3>2. CASE GetState # "HALF_OPEN"
      <4>1. state = "CLOSED" /\ GetState = "CLOSED" /\ ~HalfOpens
        BY <2>2, <3>2, Zenon DEF Execute, GetState, HalfOpens
      <4> QED BY <2>2, <4>1, Zenon DEF Execute, ProbeInFlight
    <3> QED BY <3>1, <3>2
  <2>3. ASSUME NEW c \in Call, OnSuccess(c) PROVE BreakerInv'
    <3>1. failures' \in 0..Cap /\ failures' < Threshold /\ state' = "CLOSED" /\ probing' = {}
      BY <2>3 DEF OnSuccess, End
    <3>2. flight' \subseteq Call /\ probe' \in BOOLEAN /\ rejects' \in BOOLEAN
      BY <2>3, Zenon DEF OnSuccess, End
    <3> QED BY <2>3, <3>1, <3>2, Zenon DEF OnSuccess
  <2>4. ASSUME NEW c \in Call, OnClientError(c) PROVE BreakerInv'
    BY <2>4, Zenon DEF OnClientError, End
  <2>5. ASSUME NEW c \in Call, OnFailure(c) PROVE BreakerInv'
    BY <2>5 DEF OnFailure, End, Count, AtThreshold
  <2>6. CASE UNCHANGED breakerVars
    BY <2>6, Zenon DEF breakerVars
  <2> QED BY <2>1, <2>2, <2>3, <2>4, <2>5, <2>6, Zenon DEF BreakerNext, Finish
<1> QED BY <1>1, <1>2, PTL DEF BreakerSpec

\* A half-open circuit lets one call through, for every number of calls in flight,
\* every failureThreshold and every resetTimeoutMs.
THEOREM OneProbeAtATime == BreakerSpec => []SingleProbe
<1>1. BreakerInv => SingleProbe
  <2> SUFFICES ASSUME BreakerInv PROVE SingleProbe
    OBVIOUS
  <2>1. CASE probing = {}
    BY <2>1, FS_EmptySet DEF SingleProbe
  <2>2. CASE probing # {}
    <3>1. PICK c : probing = {c}
      BY <2>2 DEF BreakerInv
    <3>2. Cardinality(probing) = 1
      BY <3>1, FS_Singleton, Zenon
    <3> QED BY <3>2 DEF SingleProbe
  <2> QED BY <2>1, <2>2
<1> QED BY <1>1, BreakerInvariance, PTL

\* A circuit is never closed with its failures at the threshold, in whatever
\* order late answers arrive.
THEOREM ClosedHasRoom == BreakerSpec => []ClosedBelowThreshold
<1>1. BreakerInv => ClosedBelowThreshold
  BY DEF BreakerInv
<1> QED BY <1>1, BreakerInvariance, PTL

-----------------------------------------------------------------------------
(* The buffer: the strengthening keeps the rows, the batch and the buffer  *)
(* in one line, in the order of the calls.                                 *)

Ascending(s) == \A i, j \in 1..Len(s) : i < j => s[i] < s[j]

\* What waits, in the order it will be written.
Queue == batch \o buffer

\* Rows and waiting readings stand in the order of the calls; the queue holds the
\* pending calls, and only they; each answer is the right one.
Lined ==
    /\ Ascending(stored) /\ Ascending(Queue)
    /\ \A i \in 1..Len(stored), j \in 1..Len(Queue) : stored[i] < Queue[j]
    /\ \A i \in 1..Len(stored) : status[stored[i]] = "resolved"
    /\ \A j \in 1..Len(Queue) : status[Queue[j]] = "pending"

Answered ==
    \A x \in Reading :
        /\ status[x] = "pending" => \E j \in 1..Len(Queue) : Queue[j] = x
        /\ status[x] = "resolved" => \E i \in 1..Len(stored) : stored[i] = x
        /\ status[x] = "rejected" => x \in Bad
        /\ status[x] = "new" => \A y \in Reading : status[y] # "new" => y < x

BufferInv == /\ BufferTypeOK
             /\ flushing = "no" <=> batch = <<>>
             /\ Lined
             /\ Answered

\* Readings are numbered by their calls, and a batch holds more than one.
LEMMA ReadingFacts == Reading \subseteq Int /\ BatchSize \in Nat /\ BatchSize > 1
BY SizesAssumption DEF Reading

\* splice(0, batchSize) cuts the buffer in two.
LEMMA Splice ==
    ASSUME NEW b \in Seq(Reading), Len(b) <= MaxBuffer
    PROVE  /\ TakeUpTo(b) \in Seq(Reading) /\ Left(b) \in Seq(Reading)
           /\ TakeUpTo(b) \o Left(b) = b
           /\ TakeUpTo(b) = <<>> <=> b = <<>>
           /\ Len(TakeUpTo(b)) <= BatchSize /\ Len(Left(b)) <= Len(b)
<1>1. CASE Len(b) <= BatchSize
  <2>1. TakeUpTo(b) = b
    BY <1>1 DEF TakeUpTo
  <2>2. Left(b) = <<>>
    BY <1>1, ReadingFacts DEF Left
  <2> QED BY <1>1, <2>1, <2>2
<1>2. CASE ~(Len(b) <= BatchSize)
  <2>1. TakeUpTo(b) = SubSeq(b, 1, BatchSize)
    BY <1>2, Zenon DEF TakeUpTo, Taken
  <2>2. /\ SubSeq(b, 1, BatchSize) \in Seq(Reading)
        /\ Len(SubSeq(b, 1, BatchSize)) = BatchSize
        /\ \A i \in 1..BatchSize : SubSeq(b, 1, BatchSize)[i] = b[i]
    BY <1>2, ReadingFacts
  <2>3. /\ Left(b) \in Seq(Reading) /\ Len(Left(b)) = Len(b) - BatchSize
        /\ \A i \in 1..(Len(b) - BatchSize) : Left(b)[i] = b[i + BatchSize]
    BY <1>2, ReadingFacts DEF Left
  <2>4. ASSUME NEW t \in Seq(Reading), NEW l \in Seq(Reading),
               Len(t) = BatchSize, \A i \in 1..BatchSize : t[i] = b[i],
               Len(l) = Len(b) - BatchSize,
               \A i \in 1..(Len(b) - BatchSize) : l[i] = b[i + BatchSize]
        PROVE  t \o l = b /\ t # <<>> /\ b # <<>> /\ Len(l) <= Len(b)
    <3>0. t \o l \in Seq(Reading) /\ Len(t \o l) = Len(t) + Len(l)
          /\ Len(b) \in Nat
      OBVIOUS
    <3>1. Len(t \o l) = Len(b)
      BY <2>4, <3>0, ReadingFacts
    <3>2. ASSUME NEW i \in 1..Len(b) PROVE (t \o l)[i] = b[i]
      <4>1. CASE i <= BatchSize
        BY <2>4, <4>1, ReadingFacts
      <4>2. CASE i > BatchSize
        <5>1. i - BatchSize \in 1..Len(l) /\ (t \o l)[i] = l[i - BatchSize]
          BY <2>4, <4>2, ReadingFacts
        <5> QED BY <2>4, <5>1, ReadingFacts
      <4>3. i <= BatchSize \/ i > BatchSize
        BY ReadingFacts
      <4> QED BY <4>1, <4>2, <4>3, Zenon
    <3>3. Len(t) # 0 /\ Len(b) # 0 /\ Len(l) <= Len(b)
      BY <1>2, <2>4, ReadingFacts
    <3>4. t \o l = b
      BY <3>0, <3>1, <3>2, SeqEqual, Zenon
    <3> QED BY <3>3, <3>4
  <2>5. TakeUpTo(b) \in Seq(Reading) /\ Len(TakeUpTo(b)) = BatchSize
        /\ \A i \in 1..BatchSize : TakeUpTo(b)[i] = b[i]
    BY <2>1, <2>2
  <2>6. /\ TakeUpTo(b) \o Left(b) = b
        /\ TakeUpTo(b) # <<>> /\ b # <<>> /\ Len(Left(b)) <= Len(b)
    <3> HIDE DEF TakeUpTo, Left
    <3> QED BY <2>3, <2>4, <2>5, Zenon
  <2> QED BY <2>3, <2>5, <2>6, ReadingFacts
<1> QED BY <1>1, <1>2

\* A call of flushBuffer, or another round of its loop, moves readings from the
\* buffer to the batch and leaves the queue as it was.
LEMMA LoopKeepsQueue ==
    ASSUME NEW b \in Seq(Reading), Len(b) <= MaxBuffer, Loop(b)
    PROVE  /\ Queue' = b
           /\ buffer' \in Seq(Reading) /\ Len(buffer') <= MaxBuffer
           /\ batch' \in Seq(Reading) /\ Len(batch') <= BatchSize
           /\ flushing' \in {"no", "batch"}
           /\ flushing' = "no" <=> batch' = <<>>
<1>1. /\ buffer' = Left(b) /\ batch' = TakeUpTo(b)
      /\ flushing' = IF b = <<>> THEN "no" ELSE "batch"
  BY DEF Loop
<1>2. Len(Left(b)) \in Nat /\ Len(b) \in Nat /\ MaxBuffer \in Nat
  BY Splice, SizesAssumption
<1>3. /\ buffer' \in Seq(Reading) /\ batch' \in Seq(Reading)
      /\ batch' \o buffer' = b /\ Len(batch') <= BatchSize
      /\ batch' = <<>> <=> b = <<>>
      /\ Len(buffer') <= Len(b) /\ Len(buffer') \in Nat
  BY <1>1, <1>2, Splice, Zenon
<1>4. Len(buffer') <= MaxBuffer
  BY <1>2, <1>3
<1>5. Queue' = b
  BY <1>3 DEF Queue
<1> QED BY <1>1, <1>3, <1>4, <1>5

\* flushBuffer starts on the buffer only when no other call is in it.
LEMMA FlushKeepsQueue ==
    ASSUME BufferInv, NEW b \in Seq(Reading), Len(b) <= MaxBuffer, FlushBuffer(b)
    PROVE  /\ Queue' = batch \o b
           /\ buffer' \in Seq(Reading) /\ Len(buffer') <= MaxBuffer
           /\ batch' \in Seq(Reading) /\ Len(batch') <= BatchSize
           /\ flushing' \in {"no", "batch", "single"} /\ timer' \in BOOLEAN
           /\ flushing' = "no" <=> batch' = <<>>
<1>1. CASE b = <<>> \/ flushing # "no"
  BY <1>1, Zenon DEF FlushBuffer, Queue, BufferInv, BufferTypeOK
<1>2. CASE b # <<>> /\ flushing = "no"
  <2>1. batch = <<>> /\ Loop(b)
    BY <1>2 DEF FlushBuffer, BufferInv
  <2>2. batch \o b = b
    BY <2>1, ConcatEmptySeq
  <2> QED BY <2>1, <2>2, LoopKeepsQueue, Zenon DEF FlushBuffer
<1> QED BY <1>1, <1>2

\* The queue is the batch and then the buffer, position by position.
LEMMA QueueFacts ==
    ASSUME BufferInv
    PROVE  /\ batch \in Seq(Reading) /\ buffer \in Seq(Reading)
           /\ stored \in Seq(Reading) /\ Queue \in Seq(Reading)
           /\ Len(Queue) = Len(batch) + Len(buffer)
           /\ \A i \in 1..Len(batch) : Queue[i] = batch[i]
           /\ \A i \in 1..Len(buffer) : Queue[Len(batch) + i] = buffer[i]
<1>1. batch \in Seq(Reading) /\ buffer \in Seq(Reading) /\ stored \in Seq(Reading)
  BY DEF BufferInv, BufferTypeOK
<1>2. Queue \in Seq(Reading) /\ Len(Queue) = Len(batch) + Len(buffer)
      /\ \A i \in 1..(Len(batch) + Len(buffer)) :
            Queue[i] = IF i <= Len(batch) THEN batch[i] ELSE buffer[i - Len(batch)]
  BY <1>1, ConcatProperties DEF Queue
<1>3. Len(batch) \in Nat /\ Len(buffer) \in Nat
  BY <1>1
<1>4. ASSUME NEW i \in 1..Len(batch) PROVE Queue[i] = batch[i]
  <2>1. i \in 1..(Len(batch) + Len(buffer)) /\ i <= Len(batch)
    BY <1>3
  <2> QED BY <1>2, <2>1
<1>5. ASSUME NEW i \in 1..Len(buffer) PROVE Queue[Len(batch) + i] = buffer[i]
  <2>1. /\ Len(batch) + i \in 1..(Len(batch) + Len(buffer))
        /\ ~(Len(batch) + i <= Len(batch)) /\ (Len(batch) + i) - Len(batch) = i
    BY <1>3
  <2> QED BY <1>2, <2>1
<1> QED BY <1>1, <1>2, <1>4, <1>5

StatusType == [Reading -> {"new", "pending", "resolved", "rejected", "refused"}]

\* A call is accepted at the end of the queue, or refused.
LEMMA Accepted ==
    ASSUME BufferInv, NEW x \in Reading, status[x] = "new", stored' = stored,
           \A y \in 1..(x - 1) : status[y] # "new",
           \/ Queue' = Append(Queue, x) /\ status' = [status EXCEPT ![x] = "pending"]
           \/ Queue' = Queue /\ status' = [status EXCEPT ![x] = "refused"]
    PROVE  Lined' /\ Answered'
<1> DEFINE q == Queue
<1>1. /\ q \in Seq(Reading) /\ stored \in Seq(Reading) /\ status \in StatusType
      /\ Len(q) \in Nat /\ Len(stored) \in Nat
      /\ Lined /\ Answered
  BY QueueFacts DEF BufferInv, BufferTypeOK, StatusType
<1>2. \A y \in Reading : y \in Int /\ (status[y] # "new" => y < x)
  BY ReadingFacts, <1>1 DEF Answered
<1>3. \A z \in Reading : status[z] = "new" /\ z # x => x < z
  BY ReadingFacts DEF Reading
<1>4. \A i \in 1..Len(q) : q[i] \in Reading /\ q[i] < x /\ q[i] # x
  BY <1>1, <1>2 DEF Lined
<1>5. \A i \in 1..Len(stored) : stored[i] \in Reading /\ stored[i] < x /\ stored[i] # x
  BY <1>1, <1>2 DEF Lined
<1>6. CASE Queue' = Append(q, x) /\ status' = [status EXCEPT ![x] = "pending"]
  <2>1. /\ Len(Queue') = Len(q) + 1
        /\ \A i \in 1..Len(q) : Queue'[i] = q[i]
        /\ Queue'[Len(q) + 1] = x
        /\ \A i \in 1..Len(Queue') : i \in 1..Len(q) \/ i = Len(q) + 1
    BY <1>1, <1>6
  <2>2. Ascending(Queue)'
    BY <1>1, <1>4, <2>1, SMTT(30) DEF Ascending, Lined
  <2>3. Lined'
    BY <1>1, <1>4, <1>5, <1>6, <2>1, <2>2, SMTT(30) DEF Lined, Ascending, StatusType
  <2>4. Answered'
    <3> SUFFICES ASSUME NEW z \in Reading
                 PROVE  /\ status'[z] = "pending" => \E j \in 1..Len(Queue') : Queue'[j] = z
                        /\ status'[z] = "resolved" =>
                               \E i \in 1..Len(stored') : stored'[i] = z
                        /\ status'[z] = "rejected" => z \in Bad
                        /\ status'[z] = "new" =>
                               \A y \in Reading : status'[y] # "new" => y < z
      BY DEF Answered
    <3>1. Len(q) + 1 \in 1..Len(Queue') /\ \A j \in 1..Len(q) : j \in 1..Len(Queue')
      BY <1>1, <2>1
    <3>2. status'[z] = IF z = x THEN "pending" ELSE status[z]
      BY <1>1, <1>6 DEF StatusType
    <3>3. status'[z] = "pending" => \E j \in 1..Len(Queue') : Queue'[j] = z
      BY <1>1, <2>1, <3>1, <3>2, Zenon DEF Answered
    <3>4. status'[z] = "new" => \A y \in Reading : status'[y] # "new" => y < z
      BY <1>1, <1>3, <1>6, <3>2, ZenonT(30) DEF Answered, StatusType
    <3> QED BY <1>1, <3>2, <3>3, <3>4 DEF Answered
  <2> QED BY <2>3, <2>4
<1>7. CASE Queue' = q /\ status' = [status EXCEPT ![x] = "refused"]
  <2>1. \A z \in Reading : status'[z] = IF z = x THEN "refused" ELSE status[z]
    BY <1>1, <1>7 DEF StatusType
  <2>2. Lined'
    BY <1>1, <1>4, <1>5, <1>7, <2>1, SMTT(30) DEF Lined, Ascending
  <2>3. Answered'
    BY <1>1, <1>3, <1>7, <2>1 DEF Answered
  <2> QED BY <2>2, <2>3
<1> QED BY <1>6, <1>7

\* The batch is written as a whole.
LEMMA BatchWritten ==
    ASSUME BufferInv, Queue' = buffer, stored' = stored \o batch,
           status' = [x \in Reading |-> IF x \in Range(batch) THEN "resolved"
                                                              ELSE status[x]]
    PROVE  Lined' /\ Answered'
<1> DEFINE q == Queue
           m == Len(batch)
           n == Len(stored)
<1>1. /\ q \in Seq(Reading) /\ stored \in Seq(Reading) /\ batch \in Seq(Reading)
      /\ buffer \in Seq(Reading) /\ Len(q) = m + Len(buffer)
      /\ \A i \in 1..m : q[i] = batch[i]
      /\ \A i \in 1..Len(buffer) : q[m + i] = buffer[i]
      /\ Lined /\ Answered
  BY QueueFacts, Zenon DEF BufferInv
<1>2. m \in Nat /\ n \in Nat /\ Len(buffer) \in Nat
  BY <1>1
<1>3. \A y \in Reading : y \in Int
  BY ReadingFacts
<1>4. /\ Len(stored') = n + m
      /\ \A i \in 1..n : stored'[i] = stored[i]
      /\ \A i \in 1..m : stored'[n + i] = batch[i]
      /\ \A i \in 1..Len(stored') : i \in 1..n \/ i - n \in 1..m
  <2>1. /\ Len(stored \o batch) = n + m
        /\ \A i \in 1..(n + m) : (stored \o batch)[i] =
               IF i <= n THEN stored[i] ELSE batch[i - n]
    BY <1>1, ConcatProperties
  <2>2. \A i \in 1..n : i \in 1..(n + m) /\ i <= n
    BY <1>2
  <2>3. \A i \in 1..m : n + i \in 1..(n + m) /\ ~(n + i <= n) /\ (n + i) - n = i
    BY <1>2
  <2>4. \A i \in 1..(n + m) : i \in 1..n \/ i - n \in 1..m
    BY <1>2
  <2> QED BY <2>1, <2>2, <2>3, <2>4, SMTT(30)
<1>5. Range(batch) = {batch[i] : i \in 1..m}
  BY <1>1 DEF Range
<1>6. \A z \in Reading : status'[z] = IF z \in Range(batch) THEN "resolved" ELSE status[z]
  OBVIOUS
<1> HIDE DEF q, m, n
<1>7. \A i \in 1..m : /\ i \in 1..Len(q) /\ batch[i] \in Reading
                      /\ status[batch[i]] = "pending"
                      /\ \A k \in 1..n : stored[k] < batch[i]
                      /\ \A k \in 1..m : i < k => batch[i] < batch[k]
                      /\ \A k \in 1..Len(buffer) : batch[i] < buffer[k]
  <2> SUFFICES ASSUME NEW i \in 1..m
               PROVE  /\ i \in 1..Len(q) /\ batch[i] \in Reading
                      /\ status[batch[i]] = "pending"
                      /\ \A k \in 1..n : stored[k] < batch[i]
                      /\ \A k \in 1..m : i < k => batch[i] < batch[k]
                      /\ \A k \in 1..Len(buffer) : batch[i] < buffer[k]
    OBVIOUS
  <2>1. i \in 1..Len(q) /\ q[i] = batch[i] /\ batch[i] \in Reading
    BY <1>1, <1>2 DEF m
  <2>2. \A k \in 1..m : k \in 1..Len(q)
    BY <1>1, <1>2
  <2>3. \A k \in 1..Len(buffer) : m + k \in 1..Len(q) /\ i < m + k
    BY <1>1, <1>2
  <2> QED BY <1>1, <2>1, <2>2, <2>3, Zenon DEF Lined, Ascending, q, n
<1>8. \A i \in 1..Len(buffer) :
          /\ m + i \in 1..Len(q) /\ buffer[i] \in Reading
          /\ status[buffer[i]] = "pending"
          /\ \A k \in 1..n : stored[k] < buffer[i]
          /\ \A k \in 1..Len(buffer) : i < k => buffer[i] < buffer[k]
  <2> SUFFICES ASSUME NEW i \in 1..Len(buffer)
               PROVE  /\ m + i \in 1..Len(q) /\ buffer[i] \in Reading
                      /\ status[buffer[i]] = "pending"
                      /\ \A k \in 1..n : stored[k] < buffer[i]
                      /\ \A k \in 1..Len(buffer) : i < k => buffer[i] < buffer[k]
    OBVIOUS
  <2>1. m + i \in 1..Len(q) /\ q[m + i] = buffer[i] /\ buffer[i] \in Reading
    BY <1>1, <1>2, SMTT(30)
  <2>2. \A k \in 1..Len(buffer) : m + k \in 1..Len(q) /\ (i < k => m + i < m + k)
    BY <1>1, <1>2
  <2> QED BY <1>1, <2>1, <2>2, Zenon DEF Lined, Ascending, q, n
<1>9. Ascending(stored)'
  <2> SUFFICES ASSUME NEW i \in 1..Len(stored'), NEW j \in 1..Len(stored'), i < j
               PROVE  stored'[i] < stored'[j]
    BY DEF Ascending
  <2>1. CASE j \in 1..n
    <3>1. i \in 1..n
      BY <1>2, <2>1
    <3> QED BY <1>1, <1>4, <2>1, <3>1 DEF Lined, Ascending, n
  <2>2. CASE i \in 1..n /\ j - n \in 1..m
    <3>1. stored'[j] = batch[j - n]
      <4>1. n + (j - n) = j
        BY <1>2
      <4> QED BY <1>4, <2>2, <4>1
    <3> QED BY <1>4, <1>7, <2>2, <3>1, Zenon
  <2>3. CASE i - n \in 1..m /\ j - n \in 1..m
    <3>1. n + (j - n) = j /\ n + (i - n) = i /\ i - n < j - n
      BY <1>2
    <3>2. stored'[j] = batch[j - n] /\ stored'[i] = batch[i - n]
      BY <1>4, <2>3, <3>1, Zenon
    <3> QED BY <1>7, <2>3, <3>1, <3>2
  <2> QED BY <1>4, <2>1, <2>2, <2>3
<1>10. \A i \in 1..Len(stored') :
           /\ \A k \in 1..Len(buffer) : stored'[i] < buffer[k]
           /\ status'[stored'[i]] = "resolved"
  <2> SUFFICES ASSUME NEW i \in 1..Len(stored')
               PROVE  /\ \A k \in 1..Len(buffer) : stored'[i] < buffer[k]
                      /\ status'[stored'[i]] = "resolved"
    OBVIOUS
  <2>1. CASE i \in 1..n
    <3>1. stored'[i] = stored[i] /\ stored[i] \in Reading /\ status[stored[i]] = "resolved"
      BY <1>1, <1>4, <2>1 DEF Lined, n
    <3> QED BY <1>6, <1>8, <2>1, <3>1, Zenon
  <2>2. CASE i - n \in 1..m
    <3>1. n + (i - n) = i
      BY <1>2
    <3>2. stored'[i] = batch[i - n] /\ batch[i - n] \in Range(batch)
      BY <1>4, <1>5, <2>2, <3>1, Zenon
    <3> QED BY <1>6, <1>7, <2>2, <3>2
  <2> QED BY <1>4, <2>1, <2>2, Zenon
<1>11. \A i \in 1..Len(buffer) : status'[buffer[i]] = "pending"
  <2>1. \A i \in 1..Len(buffer) : buffer[i] \notin Range(batch)
    BY <1>3, <1>5, <1>7, <1>8
  <2> QED BY <1>6, <1>8, <2>1
<1>12. Lined'
  BY <1>8, <1>9, <1>10, <1>11, Zenon DEF Lined, Ascending
<1>13. Answered'
  <2> SUFFICES ASSUME NEW z \in Reading
               PROVE  /\ status'[z] = "pending" => \E j \in 1..Len(buffer) : buffer[j] = z
                      /\ status'[z] = "resolved" =>
                             \E i \in 1..Len(stored') : stored'[i] = z
                      /\ status'[z] = "rejected" => z \in Bad
                      /\ status'[z] = "new" =>
                             \A y \in Reading : status'[y] # "new" => y < z
    BY DEF Answered
  <2>1. CASE z \in Range(batch)
    <3>1. PICK i \in 1..m : batch[i] = z
      BY <1>5, <2>1
    <3>2. n + i \in 1..Len(stored') /\ stored'[n + i] = z
      BY <1>2, <1>4, <3>1
    <3> QED BY <1>6, <2>1, <3>2
  <2>2. CASE z \notin Range(batch)
    <3>1. status'[z] = status[z]
      BY <1>6, <2>2
    <3>2. ASSUME status[z] = "pending" PROVE \E j \in 1..Len(buffer) : buffer[j] = z
      <4>1. PICK j \in 1..Len(q) : q[j] = z
        BY <1>1, <3>2 DEF Answered, q
      <4>2. ~(j \in 1..m)
        BY <1>1, <1>5, <2>2, <4>1, Zenon DEF m
      <4>3. j - m \in 1..Len(buffer) /\ m + (j - m) = j
        BY <1>1, <1>2, <4>2
      <4>4. buffer[j - m] = z
        BY <1>1, <4>1, <4>3
      <4> QED BY <4>3, <4>4
    <3>3. ASSUME status[z] = "resolved" PROVE \E i \in 1..Len(stored') : stored'[i] = z
      <4>1. PICK i \in 1..n : stored[i] = z
        BY <1>1, <3>3 DEF Answered, n
      <4>2. i \in 1..Len(stored')
        BY <1>2, <1>4
      <4> QED BY <1>4, <4>1, <4>2, Zenon
    <3>4. ASSUME status[z] = "new", NEW y \in Reading, status'[y] # "new" PROVE y < z
      <4>1. status[y] # "new"
        BY <1>5, <1>6, <1>7, <3>4, Zenon
      <4> QED BY <1>1, <3>4, <4>1 DEF Answered
    <3> QED BY <1>1, <3>1, <3>2, <3>3, <3>4 DEF Answered
  <2> QED BY <2>1, <2>2
<1> QED BY <1>12, <1>13

\* The first reading of the queue is written, or rejected if its row is bad.
LEMMA HeadWritten ==
    ASSUME BufferInv, NEW x \in Reading, Queue # <<>>, x = Queue[1],
           Queue' = Tail(Queue),
           stored' = IF x \in Bad THEN stored ELSE Append(stored, x),
           status' = [status EXCEPT ![x] = IF x \in Bad THEN "rejected" ELSE "resolved"]
    PROVE  Lined' /\ Answered'
<1> DEFINE q == Queue
           n == Len(stored)
<1>1. /\ q \in Seq(Reading) /\ stored \in Seq(Reading) /\ status \in StatusType
      /\ Lined /\ Answered
  BY QueueFacts DEF BufferInv, BufferTypeOK, StatusType
<1>2. Len(q) \in Nat /\ Len(q) > 0 /\ n \in Nat
  BY <1>1
<1>3. \A y \in Reading : y \in Int
  BY ReadingFacts
<1>4. /\ Len(Queue') = Len(q) - 1
      /\ \A i \in 1..Len(Queue') : Queue'[i] = q[i + 1]
  BY <1>1, HeadTailProperties
<1>5. \A z \in Reading : status'[z] =
          IF z = x THEN IF x \in Bad THEN "rejected" ELSE "resolved" ELSE status[z]
  BY <1>1 DEF StatusType
<1>6. /\ status[x] = "pending"
      /\ \A k \in 1..n : stored[k] \in Reading /\ stored[k] < x
      /\ \A k \in 1..Len(q) : k # 1 => x < q[k]
  <2>1. 1 \in 1..Len(q) /\ \A k \in 1..Len(q) : k # 1 => 1 < k
    BY <1>2
  <2> QED BY <1>1, <2>1 DEF Lined, Ascending
<1>7. /\ Len(stored') \in {n, n + 1}
      /\ \A k \in 1..n : k \in 1..Len(stored') /\ stored'[k] = stored[k]
      /\ x \notin Bad => n + 1 \in 1..Len(stored') /\ stored'[n + 1] = x
      /\ \A k \in 1..Len(stored') : k \in 1..n \/ (k = n + 1 /\ x \notin Bad)
  BY <1>1, <1>2
<1> HIDE DEF q, n
<1>8. \A i \in 1..Len(Queue') : /\ i + 1 \in 1..Len(q) /\ i + 1 # 1
                                /\ \A k \in 1..Len(Queue') : i < k => i + 1 < k + 1
  BY <1>2, <1>4
<1>9. \A i \in 1..Len(Queue') : /\ Queue'[i] \in Reading /\ x < Queue'[i]
                                /\ status[Queue'[i]] = "pending"
                                /\ \A k \in 1..n : stored[k] < Queue'[i]
                                /\ \A k \in 1..Len(Queue') :
                                       i < k => Queue'[i] < Queue'[k]
  BY <1>1, <1>4, <1>6, <1>8 DEF Lined, Ascending, q, n
<1>10. Ascending(stored)'
  <2> SUFFICES ASSUME NEW i \in 1..Len(stored'), NEW j \in 1..Len(stored'), i < j
               PROVE  stored'[i] < stored'[j]
    BY DEF Ascending
  <2>1. i \in 1..n
    BY <1>2, <1>7
  <2>2. CASE j \in 1..n
    BY <1>1, <1>7, <2>1, <2>2, Zenon DEF Lined, Ascending, n
  <2>3. CASE j = n + 1 /\ x \notin Bad
    BY <1>6, <1>7, <2>1, <2>3, Zenon
  <2> QED BY <1>7, <2>2, <2>3, Zenon
<1>11. \A i \in 1..Len(stored') :
           /\ \A k \in 1..Len(Queue') : stored'[i] < Queue'[k]
           /\ status'[stored'[i]] = "resolved"
  <2> SUFFICES ASSUME NEW i \in 1..Len(stored')
               PROVE  /\ \A k \in 1..Len(Queue') : stored'[i] < Queue'[k]
                      /\ status'[stored'[i]] = "resolved"
    OBVIOUS
  <2>1. CASE i \in 1..n
    <3>1. stored'[i] = stored[i] /\ status[stored[i]] = "resolved"
      BY <1>1, <1>7, <2>1, Zenon DEF Lined, n
    <3>2. stored[i] \in Reading /\ stored[i] # x
      BY <1>3, <1>6, <2>1
    <3> QED BY <1>5, <1>9, <2>1, <3>1, <3>2, Zenon
  <2>2. CASE i = n + 1 /\ x \notin Bad
    BY <1>5, <1>7, <1>9, <2>2, Zenon
  <2> QED BY <1>7, <2>1, <2>2, Zenon
<1>12. Lined'
  <2>1. \A i \in 1..Len(Queue') : status'[Queue'[i]] = "pending"
    BY <1>3, <1>5, <1>9
  <2> QED BY <1>9, <1>10, <1>11, <2>1, Zenon DEF Lined, Ascending
<1>13. Answered'
  <2> SUFFICES ASSUME NEW z \in Reading
               PROVE  /\ status'[z] = "pending" => \E j \in 1..Len(Queue') : Queue'[j] = z
                      /\ status'[z] = "resolved" =>
                             \E i \in 1..Len(stored') : stored'[i] = z
                      /\ status'[z] = "rejected" => z \in Bad
                      /\ status'[z] = "new" =>
                             \A y \in Reading : status'[y] # "new" => y < z
    BY DEF Answered
  <2>1. CASE z = x
    BY <1>5, <1>7, <2>1
  <2>2. CASE z # x
    <3>1. status'[z] = status[z]
      BY <1>5, <2>2
    <3>2. ASSUME status[z] = "pending" PROVE \E j \in 1..Len(Queue') : Queue'[j] = z
      <4>1. PICK j \in 1..Len(q) : q[j] = z
        BY <1>1, <3>2 DEF Answered, q
      <4>2. j # 1
        BY <2>2, <4>1, Zenon DEF q
      <4>3. j - 1 \in 1..Len(Queue') /\ (j - 1) + 1 = j
        BY <1>2, <1>4, <4>2
      <4> QED BY <1>4, <4>1, <4>3, Zenon
    <3>3. status[z] = "resolved" => \E i \in 1..Len(stored') : stored'[i] = z
      BY <1>1, <1>7 DEF Answered, n
    <3>4. ASSUME status[z] = "new", NEW y \in Reading, status'[y] # "new" PROVE y < z
      <4>1. status[y] # "new"
        BY <1>5, <1>6, <3>4
      <4> QED BY <1>1, <3>4, <4>1, Zenon DEF Answered
    <3> QED BY <1>1, <3>1, <3>2, <3>3, <3>4, Zenon DEF Answered
  <2> QED BY <2>1, <2>2
<1> QED BY <1>12, <1>13

\* BufferInv is inductive: persistReading, the timer, flushBuffer and the shutdown hook.
THEOREM BufferInvariance == BufferSpec => []BufferInv
<1>1. BufferInit => BufferInv
  <2> SUFFICES ASSUME BufferInit PROVE BufferInv
    OBVIOUS
  <2>1. Queue = <<>> /\ stored = <<>>
    BY DEF BufferInit, Queue
  <2>2. BufferTypeOK
    <3>1. <<>> \in Seq(Reading) /\ Len(<<>>) = 0
      OBVIOUS
    <3>2. 0 <= MaxBuffer /\ 0 <= BatchSize
      BY SizesAssumption
    <3> QED BY <3>1, <3>2, Zenon DEF BufferInit, BufferTypeOK
  <2> QED BY <2>1, <2>2 DEF BufferInit, BufferInv, Lined, Answered, Ascending
<1>2. BufferInv /\ [BufferNext]_bufferVars => BufferInv'
  <2> SUFFICES ASSUME BufferInv, [BufferNext]_bufferVars PROVE BufferInv'
    OBVIOUS
  <2>1. /\ status \in StatusType /\ stored \in Seq(Reading) /\ timer \in BOOLEAN
        /\ buffer \in Seq(Reading) /\ Len(buffer) <= MaxBuffer /\ Len(buffer) \in Nat
        /\ batch \in Seq(Reading) /\ Len(batch) <= BatchSize
        /\ hook \in {"up", "destroy", "between", "shutdown", "done"}
        /\ flushing \in {"no", "batch", "single"}
    BY DEF BufferInv, BufferTypeOK, StatusType
  <2>2. ASSUME UNCHANGED <<status, stored>>, Queue' = Queue PROVE Lined' /\ Answered'
    BY <2>2 DEF BufferInv, Lined, Answered, Ascending
  <2>3. CASE BatchFailed
    <3>1. Queue' = Queue
      BY <2>3 DEF BatchFailed, Queue
    <3>2. flushing' = "no" <=> batch' = <<>>
      BY <2>3 DEF BatchFailed, BufferInv
    <3> QED BY <2>1, <2>2, <2>3, <3>1, <3>2, Zenon
          DEF BatchFailed, BufferInv, BufferTypeOK
  <2>4. CASE BatchStored
    <3>1. Queue' = buffer /\ Lined' /\ Answered'
      BY <2>1, <2>4, LoopKeepsQueue, BatchWritten, Zenon DEF BatchStored
    <3>2. status' \in StatusType /\ stored' \in Seq(Reading)
      BY <2>1, <2>4 DEF BatchStored, StatusType
    <3> QED BY <2>1, <2>4, <3>1, <3>2, LoopKeepsQueue, Zenon
          DEF BatchStored, BufferInv, BufferTypeOK, StatusType
  <2>5. ASSUME FlushBuffer(buffer), UNCHANGED <<status, stored>>,
               hook' \in {"up", "destroy", "between", "shutdown", "done"}
        PROVE  BufferInv'
    <3>1. Queue' = Queue
      BY <2>1, <2>5, FlushKeepsQueue, Zenon DEF Queue
    <3>2. Lined' /\ Answered'
      BY <2>2, <2>5, <3>1
    <3> QED BY <2>1, <2>5, <3>2, FlushKeepsQueue, Zenon
          DEF BufferInv, BufferTypeOK, StatusType
  <2>6. CASE TimerFires
    BY <2>1, <2>5, <2>6 DEF TimerFires
  <2>7. CASE \/ HookBegins("up", "destroy", "between")
             \/ HookBegins("between", "shutdown", "done")
    BY <2>5, <2>7, Zenon DEF HookBegins
  <2>8. CASE HookEnds("destroy", "between") \/ HookEnds("shutdown", "done")
    <3>1. /\ UNCHANGED <<status, buffer, batch, flushing, timer, stored>>
          /\ hook' \in {"between", "done"}
      BY <2>8 DEF HookEnds
    <3>2. Lined' /\ Answered'
      BY <2>2, <3>1, Zenon DEF Queue
    <3> QED BY <3>1, <3>2 DEF BufferInv, BufferTypeOK
  <2>9. CASE SingleUpsert
    <3> DEFINE x == Head(batch)
    <3>1. /\ flushing = "single" /\ batch # <<>> /\ x = batch[1] /\ x \in Reading
          /\ Len(batch) \in Nat \ {0}
      BY <2>1, <2>9 DEF SingleUpsert, BufferInv
    <3>2. Queue # <<>> /\ Queue[1] = x
      <4>1. Len(Queue) > 0 /\ 1 \in 1..Len(batch)
        BY <2>1, <3>1, QueueFacts
      <4> QED BY <3>1, <4>1, QueueFacts
    <3>3. /\ stored' = IF x \in Bad THEN stored ELSE Append(stored, x)
          /\ status' = [status EXCEPT ![x] = IF x \in Bad THEN "rejected" ELSE "resolved"]
          /\ UNCHANGED <<timer, hook>>
      BY <2>9 DEF SingleUpsert
    <3>4. Tail(Queue) = Tail(batch) \o buffer
      <4>1. /\ Tail(batch) \in Seq(Reading) /\ Len(Tail(batch)) = Len(batch) - 1
            /\ \A i \in 1..Len(Tail(batch)) : Tail(batch)[i] = batch[i + 1]
        BY <2>1, <3>1, HeadTailProperties
      <4>2. /\ Tail(Queue) \in Seq(Reading) /\ Len(Tail(Queue)) = Len(Queue) - 1
            /\ \A i \in 1..Len(Tail(Queue)) : Tail(Queue)[i] = Queue[i + 1]
        BY <3>2, QueueFacts, HeadTailProperties, Zenon
      <4> DEFINE t == Tail(batch)
                 u == Tail(Queue)
      <4> HIDE DEF t, u
      <4>3. /\ t \o buffer \in Seq(Reading) /\ Len(t \o buffer) = Len(t) + Len(buffer)
            /\ \A i \in 1..(Len(t) + Len(buffer)) : (t \o buffer)[i] =
                   IF i <= Len(t) THEN t[i] ELSE buffer[i - Len(t)]
        BY <2>1, <4>1, ConcatProperties DEF t
      <4>4. Len(u) = Len(t) + Len(buffer) /\ Len(t) = Len(batch) - 1
        <5>1. /\ Len(u) = Len(Queue) - 1 /\ Len(t) = Len(batch) - 1
              /\ Len(Queue) = Len(batch) + Len(buffer)
          BY <4>1, <4>2, QueueFacts, Zenon DEF t, u
        <5> QED BY <2>1, <3>1, <5>1, SMTT(30)
      <4>5. ASSUME NEW i \in 1..Len(u) PROVE u[i] = (t \o buffer)[i]
        <5>1. u[i] = Queue[i + 1] /\ i \in Int
          BY <4>2 DEF u
        <5>2. CASE i <= Len(t)
          <6>1. i + 1 \in 1..Len(batch) /\ i \in 1..Len(t)
            BY <3>1, <4>4, <5>2
          <6>2. Queue[i + 1] = batch[i + 1]
            BY <6>1, QueueFacts, Zenon
          <6>3. t[i] = batch[i + 1]
            BY <4>1, <6>1 DEF t
          <6> QED BY <4>3, <4>4, <5>1, <5>2, <6>2, <6>3, Zenon
        <5>3. CASE ~(i <= Len(t))
          <6>1. i - Len(t) \in 1..Len(buffer) /\ Len(batch) + (i - Len(t)) = i + 1
            BY <2>1, <3>1, <4>4, <5>3
          <6>2. Queue[Len(batch) + (i - Len(t))] = buffer[i - Len(t)]
            BY <6>1, QueueFacts, Zenon
          <6> QED BY <4>3, <4>4, <5>1, <5>3, <6>1, <6>2, Zenon
        <5> QED BY <5>2, <5>3, Zenon
      <4>6. u = t \o buffer
        BY <4>2, <4>3, <4>4, <4>5, SeqEqual, Zenon DEF u
      <4> QED BY <4>6, Zenon DEF t, u
    <3>5. /\ Queue' = Tail(Queue)
          /\ buffer' \in Seq(Reading) /\ Len(buffer') <= MaxBuffer
          /\ batch' \in Seq(Reading) /\ Len(batch') <= BatchSize
          /\ flushing' \in {"no", "batch", "single"}
          /\ flushing' = "no" <=> batch' = <<>>
      <4>1. CASE Len(batch) = 1
        <5>1. Loop(buffer)
          BY <2>9, <4>1 DEF SingleUpsert
        <5>2. Tail(batch) = <<>>
          <6>1. Tail(batch) \in Seq(Reading) /\ Len(Tail(batch)) = Len(batch) - 1
            BY <2>1, <3>1, HeadTailProperties
          <6>2. Len(Tail(batch)) = 0
            BY <4>1, <6>1
          <6> QED BY <6>1, <6>2, EmptySeq, Zenon
        <5>3. Tail(Queue) = buffer
          BY <2>1, <3>4, <5>2, ConcatEmptySeq, Zenon
        <5> QED BY <2>1, <5>1, <5>3, LoopKeepsQueue, Zenon
      <4>2. CASE Len(batch) # 1
        <5>1. batch' = Tail(batch) /\ UNCHANGED <<buffer, flushing>>
          BY <2>9, <4>2 DEF SingleUpsert
        <5>2. Tail(batch) \in Seq(Reading) /\ Len(Tail(batch)) = Len(batch) - 1
          BY <2>1, <3>1
        <5>3. Len(batch) - 1 # 0 /\ Len(batch) - 1 <= BatchSize
          BY <2>1, <3>1, <4>2, ReadingFacts
        <5>4. Tail(batch) # <<>> /\ Len(Tail(batch)) <= BatchSize
          BY <5>2, <5>3, EmptySeq, Zenon
        <5> QED BY <2>1, <3>1, <3>4, <5>1, <5>2, <5>4, Zenon DEF Queue
      <4> QED BY <4>1, <4>2
    <3>6. Lined' /\ Answered'
      BY <3>1, <3>2, <3>3, <3>5, HeadWritten, Zenon
    <3>7. status' \in StatusType /\ stored' \in Seq(Reading)
      BY <2>1, <3>1, <3>3 DEF StatusType
    <3> QED BY <2>1, <3>3, <3>5, <3>6, <3>7, Zenon DEF BufferInv, BufferTypeOK, StatusType
  <2>10. ASSUME NEW x \in Reading, PersistReading(x) PROVE BufferInv'
    <3>1. /\ status[x] = "new" /\ \A y \in 1..(x - 1) : status[y] # "new"
          /\ UNCHANGED <<stored, hook>>
      BY <2>10, Zenon DEF PersistReading
    <3>2. CASE Full
      <4>1. /\ status' = [status EXCEPT ![x] = "refused"]
            /\ UNCHANGED <<buffer, batch, flushing, timer>>
        BY <2>10, <3>2 DEF PersistReading
      <4>2. Queue' = Queue
        BY <4>1 DEF Queue
      <4>3. Lined' /\ Answered'
        BY <3>1, <4>1, <4>2, Accepted, Zenon
      <4>4. status' \in StatusType
        BY <2>1, <4>1, Zenon DEF StatusType
      <4> QED BY <3>1, <4>1, <4>3, <4>4, Zenon DEF BufferInv, BufferTypeOK, StatusType
    <3>3. CASE ~Full
      <4> DEFINE b == Append(buffer, x)
      <4>1. b \in Seq(Reading) /\ Len(b) = Len(buffer) + 1 /\ Len(b) <= MaxBuffer
        BY <2>1, <3>3, SizesAssumption DEF Full
      <4>2. status' = [status EXCEPT ![x] = "pending"]
        BY <2>10, <3>3 DEF PersistReading
      <4>3. batch \o b = Append(Queue, x)
        BY <2>1 DEF Queue
      <4>4. /\ Queue' = batch \o b
            /\ buffer' \in Seq(Reading) /\ Len(buffer') <= MaxBuffer
            /\ batch' \in Seq(Reading) /\ Len(batch') <= BatchSize
            /\ flushing' \in {"no", "batch", "single"} /\ timer' \in BOOLEAN
            /\ flushing' = "no" <=> batch' = <<>>
        <5>1. CASE FlushBuffer(b)
          BY <4>1, <5>1, FlushKeepsQueue, Zenon
        <5>2. CASE buffer' = b /\ timer' = TRUE /\ UNCHANGED <<batch, flushing>>
          BY <2>1, <4>1, <5>2 DEF Queue, BufferInv
        <5> QED BY <2>10, <3>3, <5>1, <5>2, Zenon DEF PersistReading
      <4>5. Lined' /\ Answered'
        BY <3>1, <4>2, <4>3, <4>4, Accepted, Zenon
      <4>6. status' \in StatusType
        BY <2>1, <4>2, Zenon DEF StatusType
      <4> QED BY <2>1, <3>1, <4>4, <4>5, <4>6, Zenon DEF BufferInv, BufferTypeOK, StatusType
    <3> QED BY <3>2, <3>3, Zenon
  <2>11. CASE UNCHANGED bufferVars
    <3>1. Lined' /\ Answered'
      BY <2>2, <2>11, SMTT(30) DEF bufferVars, Queue
    <3> QED BY <2>11, <3>1 DEF bufferVars, BufferInv, BufferTypeOK
  <2> QED BY <2>3, <2>4, <2>6, <2>7, <2>8, <2>9, <2>10, <2>11, Zenon
        DEF BufferNext, Flush, OnModuleDestroy, OnApplicationShutdown
<1> QED BY <1>1, <1>2, PTL DEF BufferSpec

\* flushBuffer with its fall-back to single rows: exactly the bad rows are
\* rejected and a resolved call has its row, for every size of batch and buffer.
THEOREM BadRowsAreIsolated == BufferSpec => []BadRowsIsolated
<1>1. BufferInv => BadRowsIsolated
  <2> SUFFICES ASSUME BufferInv, NEW x \in Reading
               PROVE  /\ status[x] = "rejected" => x \in Bad
                      /\ status[x] = "resolved" => x \in Range(stored)
    BY Zenon DEF BadRowsIsolated
  <2>1. DOMAIN stored = 1..Len(stored)
    <3>1. stored \in Seq(Reading)
      BY QueueFacts, Zenon
    <3> QED BY <3>1
  <2> QED BY <2>1 DEF BufferInv, Answered, Range
<1> QED BY <1>1, BufferInvariance, PTL

\* Rows are written in the order of the calls, and a call that was accepted and
\* not answered is in the buffer or in the batch, once.
THEOREM WrittenInOrder == BufferSpec => [](StoredInOrder /\ InOnePlace)
<1>1. BufferInv => StoredInOrder
  <2> SUFFICES ASSUME BufferInv PROVE StoredInOrder
    BY Zenon
  <2>1. DOMAIN stored = 1..Len(stored)
    <3>1. stored \in Seq(Reading)
      BY QueueFacts, Zenon
    <3> QED BY <3>1
  <2> QED BY <2>1 DEF BufferInv, Lined, Ascending, StoredInOrder
<1>2. BufferInv => InOnePlace
  <2> SUFFICES ASSUME BufferInv PROVE InOnePlace
    OBVIOUS
  <2>1. /\ batch \in Seq(Reading) /\ buffer \in Seq(Reading)
        /\ Queue \in Seq(Reading) /\ Len(Queue) = Len(batch) + Len(buffer)
        /\ Lined /\ Answered
    BY QueueFacts DEF BufferInv
  <2>2. Range(Queue) = Pending
    <3>1. Range(Queue) = {Queue[i] : i \in 1..Len(Queue)}
      <4>1. Queue \in Seq(Reading)
        BY <2>1, Zenon
      <4>2. DOMAIN Queue = 1..Len(Queue)
        BY <4>1
      <4> QED BY <4>2, Zenon DEF Range
    <3>2. \A i \in 1..Len(Queue) : Queue[i] \in Reading
      BY <2>1, ElementOfSeq
    <3>3. \A i \in 1..Len(Queue) : Queue[i] \in Pending
      BY <2>1, <3>2 DEF Lined, Pending
    <3>4. \A x \in Pending : \E i \in 1..Len(Queue) : Queue[i] = x
      BY <2>1 DEF Answered, Pending
    <3> QED BY <3>1, <3>3, <3>4, Zenon
  <2>3. Range(buffer \o batch) = Range(batch \o buffer)
    <3>1. Range(buffer \o batch) = Range(buffer) \cup Range(batch)
      BY <2>1, RangeConcatenation
    <3>2. Range(batch \o buffer) = Range(batch) \cup Range(buffer)
      BY <2>1, RangeConcatenation
    <3> QED BY <3>1, <3>2
  <2>4. Cardinality(Pending) = Len(Queue)
    <3>1. Queue \in [1..Len(Queue) -> Pending] /\ Len(Queue) \in Nat
      BY <2>1 DEF Lined, Pending
    <3>2. \A i, j \in 1..Len(Queue) : Queue[i] = Queue[j] => i = j
      <4>1. \A i \in 1..Len(Queue) : Queue[i] \in Int
        BY <2>1, ElementOfSeq, ReadingFacts, Zenon
      <4> QED BY <2>1, <4>1 DEF Lined, Ascending
    <3>3. \A x \in Pending : \E i \in 1..Len(Queue) : Queue[i] = x
      BY <2>1 DEF Answered, Pending
    <3>4. Queue \in Bijection(1..Len(Queue), Pending)
      BY <3>1, <3>2, <3>3, Zenon DEF Bijection, Injection, Surjection, IsInjective
    <3> QED BY <3>1, <3>4, FS_CountingElements, Zenon DEF ExistsBijection
  <2> QED BY <2>1, <2>2, <2>3, <2>4 DEF InOnePlace, Queue
<1> QED BY <1>1, <1>2, BufferInvariance, PTL
=============================================================================
