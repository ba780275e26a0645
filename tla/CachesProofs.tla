---------------------------- MODULE CachesProofs ----------------------------
(***************************************************************************)
(* Theorems about two more caches, for any number of readers, admins and   *)
(* overlapping checks and any lifetimes: the age of a listed page          *)
(* (ProductCatalogue), and the past that an answer of GET /health speaks   *)
(* of (HealthCheck).                                                       *)
(***************************************************************************)
EXTENDS ProductCatalogue, HealthCheck, TLAPS

-----------------------------------------------------------------------------
(* The product listing                                                     *)

Row == [rate: Rates \cup {0}, version: Nat, active: BOOLEAN]

CatalogueTypeOK ==
  /\ product \in Row
  /\ productCache \in [data: Row, left: Nat, stale: Nat]
  /\ reader \in [Readers -> [pc: {"idle", "query", "read", "stored", "served"},
                             data: Row, elapsed: Nat, stale: Nat]]
  /\ admin \in [Admins -> [pc: {"idle", "create", "update", "deactivate", "write",
                                "writeStatus", "done"},
                           rate: Rates \cup {0}, existing: Row]]

\* A page is stale for no longer than its query has taken; what an entry has
\* been stale for and what it has left to live are within the TTL.
CatalogueInv ==
  /\ CatalogueTypeOK
  /\ productCache.left > 0 => productCache.stale + productCache.left <= PageTtl
  /\ \A r \in Readers:
       /\ reader[r].pc \in {"idle", "query"} => reader[r].stale = 0
       /\ reader[r].pc = "read" => reader[r].stale <= reader[r].elapsed
       /\ reader[r].pc = "served" => reader[r].stale < PageTtl

\* The initial values are well typed.
LEMMA CatalogueConstants ==
  /\ Absent \in Row /\ Empty \in [data: Row, left: Nat, stale: Nat] /\ Empty.left = 0
  /\ IdleReader \in [pc: {"idle", "query", "read", "stored", "served"},
                     data: Row, elapsed: Nat, stale: Nat]
  /\ IdleReader.pc = "idle" /\ IdleReader.stale = 0
  /\ IdleAdmin \in [pc: {"idle", "create", "update", "deactivate", "write",
                         "writeStatus", "done"},
                    rate: Rates \cup {0}, existing: Row]
BY DEF Absent, Empty, IdleReader, IdleAdmin, Row

\* What a tick makes of the entry and of a call.
LEMMA PageAges ==
  ASSUME CatalogueTypeOK, CatalogueTick
  PROVE  /\ productCache' \in [data: Row, left: Nat, stale: Nat]
         /\ productCache'.left > 0 => productCache'.left = productCache.left - 1
         /\ productCache'.stale <= productCache.stale + 1
<1> DEFINE left == IF productCache.left > 0 THEN productCache.left - 1 ELSE 0
           stale == IF productCache.left > 0 /\ productCache.data # Page
                    THEN productCache.stale + 1 ELSE productCache.stale
<1>1. productCache' = [data |-> productCache.data, left |-> left, stale |-> stale]
  BY Zenon DEF CatalogueTick, CatalogueTypeOK
<1>2. productCache.left \in Nat /\ productCache.stale \in Nat /\ productCache.data \in Row
  BY DEF CatalogueTypeOK
<1>3. left \in Nat /\ stale \in Nat /\ stale <= productCache.stale + 1
      /\ (left > 0 => left = productCache.left - 1)
  BY <1>2
<1> QED BY <1>1, <1>2, <1>3, SMTT(30)

\* A tick ages what a call read no faster than the call.
LEMMA ReaderAges ==
  ASSUME CatalogueTypeOK, CatalogueTick, NEW r \in Readers
  PROVE  /\ reader'[r] \in [pc: {"idle", "query", "read", "stored", "served"},
                            data: Row, elapsed: Nat, stale: Nat]
         /\ reader'[r].pc = reader[r].pc
         /\ reader[r].pc # "read" => reader'[r].stale = reader[r].stale
         /\ reader[r].pc = "read" => /\ reader'[r].stale <= reader[r].stale + 1
                                     /\ reader'[r].elapsed = reader[r].elapsed + 1
<1> DEFINE stale == IF reader[r].pc = "read" /\ reader[r].data # Page
                    THEN reader[r].stale + 1 ELSE reader[r].stale
<1>1. reader[r] \in [pc: {"idle", "query", "read", "stored", "served"},
                     data: Row, elapsed: Nat, stale: Nat]
  BY DEF CatalogueTypeOK
<1>2. CASE reader[r].pc \in {"query", "read"}
  <2>1. reader'[r] = [pc |-> reader[r].pc, data |-> reader[r].data,
                      elapsed |-> reader[r].elapsed + 1, stale |-> stale]
    BY <1>1, <1>2, Zenon DEF CatalogueTick
  <2>2. reader[r].elapsed + 1 \in Nat /\ stale \in Nat /\ stale <= reader[r].stale + 1
    BY <1>1
  <2>3. reader[r].pc # "read" => stale = reader[r].stale
    BY SMTT(30)
  <2> HIDE DEF stale
  <2> QED BY <1>1, <2>1, <2>2, <2>3, SMTT(30)
<1>3. CASE reader[r].pc \notin {"query", "read"}
  BY <1>1, <1>3, Zenon DEF CatalogueTick
<1> QED BY <1>2, <1>3

\* The type invariant, action by action.
LEMMA CatalogueTypes == CatalogueTypeOK /\ CatalogueNext => CatalogueTypeOK'
<1> SUFFICES ASSUME CatalogueTypeOK, CatalogueNext PROVE CatalogueTypeOK'
  OBVIOUS
<1> USE CatalogueAssumption, CatalogueConstants DEF CatalogueTypeOK
<1>1. Page \in Row
  BY DEF Page
<1>2. ASSUME NEW r \in Readers, Hit(r) \/ Miss(r) \/ ReadPage(r) \/ StorePage(r)
      PROVE  CatalogueTypeOK'
  <2>1. Lifetime(reader[r].elapsed) \in Nat
    BY DEF Lifetime
  <2> QED BY <1>1, <1>2, <2>1 DEF Hit, Miss, ReadPage, StorePage
<1>3. ASSUME NEW a \in Admins, CreateProduct(a) \/ UpdateProduct(a) \/ DeactivateProduct(a)
      PROVE  CatalogueTypeOK'
  BY <1>3 DEF CreateProduct, UpdateProduct, DeactivateProduct
<1>4. ASSUME NEW a \in Admins, FindUnique(a) PROVE CatalogueTypeOK'
  BY <1>4 DEF FindUnique
<1>5. ASSUME NEW a \in Admins, NEW new \in Row, Write(a, new) PROVE CatalogueTypeOK'
  BY <1>5 DEF Write
<1>6. ASSUME NEW a \in Admins, WriteProduct(a) PROVE CatalogueTypeOK'
  <2>1. \A b \in BOOLEAN: [product EXCEPT !.active = b] \in Row
    BY Zenon DEF Row
  <2>2. \A b \in BOOLEAN, v \in Nat: [rate |-> admin[a].rate, version |-> v, active |-> b] \in Row
    BY DEF Row
  <2>3. NextPremiumRateVersion(admin[a].existing, admin[a].rate) \in Nat
    BY DEF NextPremiumRateVersion, Row
  <2>4. \A b \in BOOLEAN:
          [rate |-> admin[a].rate, active |-> b,
           version |-> NextPremiumRateVersion(admin[a].existing, admin[a].rate)] \in Row
    BY <2>3 DEF Row
  <2>5. \E new \in Row: Write(a, new)
    BY <1>6, <2>1, <2>2, <2>4, Zenon DEF WriteProduct
  <2> QED BY <1>5, <2>5
<1>7. CASE CatalogueTick
  <2>1. productCache' \in [data: Row, left: Nat, stale: Nat]
    BY <1>7, PageAges
  <2>2. ASSUME NEW r \in Readers
        PROVE  reader'[r] \in [pc: {"idle", "query", "read", "stored", "served"},
                               data: Row, elapsed: Nat, stale: Nat]
    BY <1>7, ReaderAges
  <2>3. /\ reader' = [r \in Readers |-> reader'[r]]
        /\ UNCHANGED <<product, admin>>
    BY <1>7, Zenon DEF CatalogueTick
  <2>4. reader' \in [Readers -> [pc: {"idle", "query", "read", "stored", "served"},
                                 data: Row, elapsed: Nat, stale: Nat]]
    BY <2>2, <2>3
  <2> QED BY <2>1, <2>3, <2>4
<1>8. CASE EndCall
  BY <1>8 DEF EndCall
<1> QED BY <1>2, <1>3, <1>4, <1>6, <1>7, <1>8 DEF CatalogueNext

\* CatalogueInv is inductive: listProducts, the writes of the admins and time.
THEOREM CatalogueInvariance == CatalogueSpec => []CatalogueInv
<1>1. CatalogueInit => CatalogueInv
  <2> SUFFICES ASSUME CatalogueInit PROVE CatalogueInv
    OBVIOUS
  <2>1. product \in Row
    <3>1. CASE product = Absent
      BY <3>1, CatalogueConstants
    <3>2. CASE \E r \in Rates: product = [rate |-> r, version |-> 1, active |-> TRUE]
      BY <3>2 DEF Row
    <3> QED BY <3>1, <3>2 DEF CatalogueInit
  <2> QED BY <2>1, CatalogueConstants DEF CatalogueInit, CatalogueInv, CatalogueTypeOK
<1>2. CatalogueInv /\ [CatalogueNext]_catalogueVars => CatalogueInv'
  <2> SUFFICES ASSUME CatalogueInv, [CatalogueNext]_catalogueVars PROVE CatalogueInv'
    OBVIOUS
  <2>1. CatalogueTypeOK'
    BY CatalogueTypes DEF CatalogueInv, catalogueVars, CatalogueTypeOK
  <2> USE CatalogueAssumption, CatalogueConstants DEF CatalogueInv
  <2>2. ASSUME NEW r \in Readers, Hit(r) \/ Miss(r) \/ ReadPage(r) PROVE CatalogueInv'
    BY <2>1, <2>2, SMTT(30) DEF Hit, Miss, ReadPage, CatalogueTypeOK
  <2>3. ASSUME NEW r \in Readers, StorePage(r) PROVE CatalogueInv'
    BY <2>1, <2>3 DEF StorePage, Lifetime, CatalogueTypeOK
  <2>4. ASSUME productCache' = productCache \/ productCache' = Empty, reader' = reader
        PROVE  CatalogueInv'
    BY <2>1, <2>4
  <2>5. ASSUME NEW a \in Admins,
               \/ CreateProduct(a) \/ UpdateProduct(a) \/ DeactivateProduct(a)
               \/ FindUnique(a) \/ WriteProduct(a)
        PROVE  CatalogueInv'
    BY <2>4, <2>5 DEF CreateProduct, UpdateProduct, DeactivateProduct, FindUnique,
                      WriteProduct, Write
  <2>6. CASE CatalogueTick
    <3>1. (productCache.left > 0 => productCache.stale + productCache.left <= PageTtl)'
      BY <2>6, PageAges DEF CatalogueTypeOK
    <3>2. ASSUME NEW r \in Readers
          PROVE  /\ reader'[r].pc = reader[r].pc
                 /\ reader[r].pc # "read" => reader'[r].stale = reader[r].stale
                 /\ reader[r].pc = "read" => reader'[r].stale <= reader'[r].elapsed
      <4>1. reader[r].stale \in Nat /\ reader[r].elapsed \in Nat /\ reader'[r].stale \in Nat
        BY <2>1 DEF CatalogueTypeOK
      <4> QED BY <2>6, <4>1, ReaderAges
    <3> QED BY <2>1, <3>1, <3>2
  <2>7. CASE EndCall
    <3>1. CASE reader' = reader
      BY <2>4, <2>7, <3>1 DEF EndCall
    <3>2. CASE reader' # reader
      BY <2>1, <2>7, <3>2 DEF EndCall, CatalogueTypeOK
    <3> QED BY <3>1, <3>2
  <2>8. CASE UNCHANGED catalogueVars
    BY <2>4, <2>8 DEF catalogueVars
  <2> QED BY <2>2, <2>3, <2>5, <2>6, <2>7, <2>8 DEF CatalogueNext
<1> QED BY <1>1, <1>2, PTL DEF CatalogueSpec

\* A page served from the cache was the catalogue's state less than a TTL ago,
\* for any number of readers and admins, however long their queries take.
THEOREM PageIsYoung == CatalogueSpec => []CatalogueAge
<1>1. CatalogueInv => CatalogueAge
  BY DEF CatalogueInv, CatalogueAge
<1> QED BY <1>1, CatalogueInvariance, PTL

-----------------------------------------------------------------------------
(* GET /health                                                             *)

Check == [pc: {"idle", "probing", "done"}, at: Nat \ {0}, error: BOOLEAN,
          age: 0..MaxCheck, admin: BOOLEAN, answer: {"none", "ok", "degraded"}]

HealthTypeOK ==
  /\ watched \in Watched
  /\ found \in IF watched = "heartbeats" THEN {"ok", "stopped", "throws"} ELSE Outcomes
  /\ beat \in 0..HeartbeatTtl
  /\ turned \in Nat
  /\ call \in [Checks -> Check]
  /\ external \in [age: Nat, error: BOOLEAN]
  /\ response \in Nat

\* The dependency is bad now; a finding that it is well, or that it is ill, is
\* n ticks old at most.
Sick == Faulty(found)
WellWithin(n) == Sick => turned <= n
IllWithin(n) == ~Sick => turned <= n

\* How much older than its check a finding can be.
ExternalLag == IF IsExternal THEN ExternalTtl - 1 ELSE 0
BeatLag == IF watched = "heartbeats" THEN HeartbeatTtl ELSE 0

\* A live worker has a heartbeat, and that of a stopped one runs out in time.
Beats == watched = "heartbeats" =>
  /\ found = "ok" => beat > 0
  /\ found = "stopped" /\ beat > 0 => turned + beat <= HeartbeatTtl

\* The check has asked the watched dependency.
Passed(k) == \E i \in 1..(k - 1): Probes[i] = watched

\* A check under way has a finding as old as itself, but for the cached one.
Lag(k) == IF k <= Len(Probes) THEN 0 ELSE ExternalLag
CheckIsRecent(c) == call[c].pc = "probing" =>
  /\ call[c].error => IllWithin(call[c].age + Lag(call[c].at))
  /\ ~call[c].error /\ Passed(call[c].at) =>
       WellWithin(call[c].age + BeatLag + Lag(call[c].at))

ExternalIsRecent == IsExternal /\ external.age < ExternalTtl =>
  /\ external.error => IllWithin(external.age)
  /\ ~external.error => WellWithin(external.age)

ResponseIsRecent == response < ResponseTtl =>
  WellWithin(response + MaxCheck + BeatLag + ExternalLag)

AnswerWithin(c) == call[c].pc = "done" =>
  /\ call[c].answer = "ok" => WellWithin(MaxCheck + ResponseTtl - 1 + BeatLag + ExternalLag)
  /\ call[c].answer = "degraded" => IllWithin(MaxCheck + ExternalLag)

HealthInv ==
  /\ HealthTypeOK /\ Beats
  /\ \A c \in Checks: CheckIsRecent(c) /\ AnswerWithin(c)
  /\ ExternalIsRecent /\ ResponseIsRecent

-----------------------------------------------------------------------------

\* The watched probe is one of its group.
LEMMA ProbesFacts ==
  ASSUME watched \in Watched
  PROVE  /\ Len(Probes) \in Nat
         /\ \E w \in 1..Len(Probes): Probes[w] = watched
         /\ IsExternal => watched # "heartbeats"
<1> DEFINE Has(ps) == \E i \in DOMAIN ps: ps[i] = watched
           G == {Groups[g] : g \in DOMAIN Groups}
<1>1. G = {Groups.database, Groups.stellar, Groups.queue, Groups.external}
  BY DEF Groups
<1>2. \E ps \in G: Has(ps)
  <2>1. /\ Groups.database = <<"select", "pool", "throughput", "replication">>
        /\ Groups.stellar = <<"rpc", "network", "keeper">>
        /\ Groups.queue = <<"ping", "heartbeats", "memory">>
        /\ Groups.external = <<"openMeteo", "aviationStack">>
    BY DEF Groups
  <2>2. watched \in {"select", "pool", "throughput", "replication"} => Has(Groups.database)
    BY <2>1
  <2>3. watched \in {"rpc", "network", "keeper"} => Has(Groups.stellar)
    BY <2>1
  <2>4. watched \in {"ping", "heartbeats", "memory"} => Has(Groups.queue)
    BY <2>1
  <2>5. watched \in {"openMeteo", "aviationStack"} => Has(Groups.external)
    BY <2>1
  <2> HIDE DEF Has
  <2> QED BY <1>1, <2>2, <2>3, <2>4, <2>5, HealthAssumption
<1>3. Probes \in G /\ Has(Probes)
  BY <1>2, Zenon DEF Probes
<1>4. \A ps \in G: Len(ps) \in Nat /\ DOMAIN ps = 1..Len(ps)
  <2>1. /\ \A a, b: Len(<<a, b>>) = 2 /\ DOMAIN <<a, b>> = 1..2
        /\ \A a, b, c: Len(<<a, b, c>>) = 3 /\ DOMAIN <<a, b, c>> = 1..3
        /\ \A a, b, c, d: Len(<<a, b, c, d>>) = 4 /\ DOMAIN <<a, b, c, d>> = 1..4
    OBVIOUS
  <2>2. /\ Groups.database = <<"select", "pool", "throughput", "replication">>
        /\ Groups.stellar = <<"rpc", "network", "keeper">>
        /\ Groups.queue = <<"ping", "heartbeats", "memory">>
        /\ Groups.external = <<"openMeteo", "aviationStack">>
    BY DEF Groups
  <2> HIDE DEF G
  <2> QED BY <1>1, <2>1, <2>2
<1>5. IsExternal => watched # "heartbeats"
  BY <1>3 DEF IsExternal, Groups
<1> QED BY <1>3, <1>4, <1>5

\* The lags are natural numbers.
LEMMA LagFacts ==
  ASSUME watched \in Watched
  PROVE  /\ ExternalLag \in Nat /\ BeatLag \in Nat
         /\ IsExternal => BeatLag = 0
BY ProbesFacts, HealthAssumption DEF ExternalLag, BeatLag

\* Which findings answer 503.
LEMMA FatalFacts ==
  /\ Fatal("heartbeats") = {"bad"}
  /\ Findings("heartbeats") = {"ok", "stopped", "throws"}
  /\ \A p: p # "heartbeats" => Findings(p) \subseteq Outcomes
<1>1. Fatal("heartbeats") = {"bad"}
  <2>1. DOMAIN FatalDatabase = {"select", "pool"} /\ DOMAIN FatalReplication = {"throughput", "replication"}
    BY DEF FatalDatabase, FatalReplication
  <2>2. DOMAIN FatalStellar = {"rpc", "network", "keeper"} /\ DOMAIN FatalQueue = {"ping", "heartbeats", "memory"}
    BY DEF FatalStellar, FatalQueue
  <2>3. DOMAIN FatalExternal = {"openMeteo", "aviationStack"} /\ FatalQueue["heartbeats"] = {"bad"}
    BY DEF FatalExternal, FatalQueue
  <2> QED BY <2>1, <2>2, <2>3 DEF Fatal
<1>2. Findings("heartbeats") = {"ok", "stopped", "throws"}
  BY DEF Findings
<1>3. ASSUME NEW p, p # "heartbeats" PROVE Findings(p) \subseteq Outcomes
  BY <1>3 DEF Findings, GetAccountBalance, CheckNetworkStatus, Outcomes
<1> QED BY <1>1, <1>2, <1>3

\* What the watched probe finds is the dependency's state, or that of a worker
\* whose last heartbeat still lasts.
LEMMA SeenFacts ==
  ASSUME HealthTypeOK, Beats
  PROVE  /\ Seen \in Fatal(watched) => Sick
         /\ Seen \notin Fatal(watched) => WellWithin(BeatLag)
<1>1. CASE watched = "heartbeats"
  BY <1>1, FatalFacts, HealthAssumption
     DEF HealthTypeOK, Beats, Seen, Sick, Faulty, WellWithin, BeatLag
<1>2. CASE watched # "heartbeats"
  BY <1>2 DEF HealthTypeOK, Outcomes, Seen, Sick, Faulty, WellWithin
<1> QED BY <1>1, <1>2

\* What is known of a dependency that did not change stays true.
LEMMA SameDependency ==
  ASSUME watched' = watched
  PROVE  /\ Probes' = Probes /\ IsExternal' = IsExternal
         /\ ExternalLag' = ExternalLag /\ BeatLag' = BeatLag
         /\ \A k \in Nat: Passed(k)' = Passed(k) /\ Lag(k)' = Lag(k)
         /\ found' = found => Sick' = Sick
BY DEF Probes, IsExternal, ExternalLag, BeatLag, Passed, Lag, Sick, Faulty

\* A check starts on a cached external result, or from the first probe.
LEMMA StartFacts ==
  ASSUME HealthTypeOK, NEW c \in Checks, Start(c)
  PROVE  \E a \in BOOLEAN, e \in BOOLEAN, k \in Nat \ {0}:
           /\ call' = [call EXCEPT ![c] = [pc |-> "probing", at |-> k, error |-> e, age |-> 0,
                                           admin |-> a, answer |-> "none"]]
           /\ \/ e = FALSE /\ k = 1
              \/ /\ IsExternal /\ external.age < ExternalTtl
                 /\ e = external.error /\ k = Len(Probes) + 1
<1> DEFINE cached == IsExternal /\ external.age < ExternalTtl
           e == cached /\ external.error
           k == IF cached THEN Len(Probes) + 1 ELSE 1
<1>1. PICK a \in BOOLEAN:
        call' = [call EXCEPT ![c] = [pc |-> "probing", at |-> k, error |-> e, age |-> 0,
                                     admin |-> a, answer |-> "none"]]
  BY Zenon DEF Start
<1>2. Len(Probes) \in Nat
  BY ProbesFacts DEF HealthTypeOK
<1>3. e \in BOOLEAN /\ k \in Nat \ {0}
  BY <1>2
<1>4. ~cached => e = FALSE /\ k = 1
  OBVIOUS
<1>5. cached => e = external.error /\ k = Len(Probes) + 1
  BY DEF HealthTypeOK
<1> HIDE DEF e, k
<1> QED BY <1>1, <1>3, <1>4, <1>5, Zenon

\* A probe answers: a fatal finding of the watched one is kept, and the last
\* external one dates the result from the start of the check.
LEMMA ProbeFacts ==
  ASSUME HealthTypeOK, NEW c \in Checks, Probe(c)
  PROVE  \E e \in BOOLEAN:
           /\ e = (call[c].error \/ (Probes[call[c].at] = watched /\ Seen \in Fatal(watched)))
           /\ call' = [call EXCEPT ![c].at = call[c].at + 1, ![c].error = e]
           /\ \/ external' = external
              \/ /\ IsExternal /\ call[c].at = Len(Probes)
                 /\ external' = [age |-> call[c].age, error |-> e]
<1> DEFINE e == call[c].error \/ (Probes[call[c].at] = watched /\ Seen \in Fatal(watched))
<1>1. e \in BOOLEAN
  OBVIOUS
<1>2. call' = [call EXCEPT ![c].at = call[c].at + 1, ![c].error = e]
  BY DEF Probe
<1>3. external' = IF IsExternal /\ call[c].at = Len(Probes)
                  THEN [age |-> call[c].age, error |-> e] ELSE external
  BY DEF Probe, Stamp
<1> HIDE DEF e
<1>4. \/ external' = external
      \/ IsExternal /\ call[c].at = Len(Probes) /\ external' = [age |-> call[c].age, error |-> e]
  BY <1>3
<1> QED BY <1>1, <1>2, <1>4, Zenon DEF e

\* The type invariant, action by action.
LEMMA HealthTypes == HealthTypeOK /\ HealthNext => HealthTypeOK'
<1> SUFFICES ASSUME HealthTypeOK, HealthNext PROVE HealthTypeOK'
  OBVIOUS
<1> USE HealthAssumption
<1>1. /\ IdleCheck \in Check
      /\ \A c \in Checks: call[c] \in Check
  BY DEF IdleCheck, Check, HealthTypeOK
<1>2. Len(Probes) \in Nat
  BY ProbesFacts DEF HealthTypeOK
<1>3. CASE Change
  <2>1. found' \in IF watched' = "heartbeats" THEN {"ok", "stopped", "throws"} ELSE Outcomes
    BY <1>3, FatalFacts DEF Change
  <2> QED BY <1>3, <2>1 DEF Change, HealthTypeOK
<1>4. CASE RecordWorkerHeartbeat
  BY <1>4 DEF RecordWorkerHeartbeat, HealthTypeOK
<1>5. CASE HealthTick
  <2>1. ASSUME NEW c \in Checks PROVE call'[c] \in Check
    <3>1. CASE call[c].pc = "probing"
      <4>1. call[c].age + 1 \in 0..MaxCheck
        BY <1>1, <1>5, <3>1 DEF HealthTick, Check
      <4>2. call'[c] = [pc |-> call[c].pc, at |-> call[c].at, error |-> call[c].error,
                        age |-> call[c].age + 1, admin |-> call[c].admin,
                        answer |-> call[c].answer]
        BY <1>1, <1>5, <3>1 DEF HealthTick, Check
      <4> QED BY <1>1, <4>1, <4>2 DEF Check
    <3>2. CASE call[c].pc # "probing"
      BY <1>1, <1>5, <3>2 DEF HealthTick
    <3> QED BY <3>1, <3>2
  <2>2. call' \in [Checks -> Check]
    BY <1>5, <2>1 DEF HealthTick
  <2>3. \A a, l \in Nat: Older(a, l) \in Nat
    BY DEF Older, Expired
  <2>4. external' = [age |-> Older(external.age, ExternalTtl + MaxCheck), error |-> external.error]
    BY <1>5 DEF HealthTick, HealthTypeOK
  <2>5. external' \in [age: Nat, error: BOOLEAN] /\ response' \in Nat
    BY <1>5, <2>3, <2>4 DEF HealthTick, HealthTypeOK
  <2>6. turned' \in Nat /\ beat' \in 0..HeartbeatTtl
    BY <1>5 DEF HealthTick, HealthTypeOK, Horizon
  <2> QED BY <1>5, <2>2, <2>5, <2>6 DEF HealthTick, HealthTypeOK
<1>6. ASSUME NEW c \in Checks, ServeCached(c) \/ Return(c) PROVE HealthTypeOK'
  <2>1. call' \in [Checks -> Check]
    BY <1>1, <1>6 DEF ServeCached, Return, HealthTypeOK, Check
  <2> QED BY <1>6, <2>1 DEF ServeCached, Return, HealthTypeOK
<1>7. ASSUME NEW c \in Checks, Start(c) PROVE HealthTypeOK'
  <2>1. PICK a \in BOOLEAN, e \in BOOLEAN, k \in Nat \ {0}:
          call' = [call EXCEPT ![c] = [pc |-> "probing", at |-> k, error |-> e, age |-> 0,
                                       admin |-> a, answer |-> "none"]]
    BY <1>7, StartFacts, Zenon
  <2>2. call' \in [Checks -> Check]
    BY <2>1 DEF HealthTypeOK, Check
  <2> QED BY <1>7, <2>2 DEF Start, HealthTypeOK
<1>8. ASSUME NEW c \in Checks, Probe(c) PROVE HealthTypeOK'
  <2>1. PICK e \in BOOLEAN:
          /\ call' = [call EXCEPT ![c].at = call[c].at + 1, ![c].error = e]
          /\ external' \in {external, [age |-> call[c].age, error |-> e]}
    BY <1>8, ProbeFacts
  <2>2. call'[c] = [pc |-> call[c].pc, at |-> call[c].at + 1, error |-> e,
                    age |-> call[c].age, admin |-> call[c].admin, answer |-> call[c].answer]
    BY <1>1, <2>1, ZenonT(30) DEF HealthTypeOK, Check
  <2>3. call'[c] \in Check
    BY <1>1, <2>2 DEF Check
  <2>4. call' \in [Checks -> Check]
    BY <1>1, <2>1, <2>3 DEF HealthTypeOK
  <2>5. external' \in [age: Nat, error: BOOLEAN]
    BY <1>1, <2>1 DEF HealthTypeOK, Check
  <2> QED BY <1>8, <2>4, <2>5 DEF Probe, HealthTypeOK
<1>9. ASSUME NEW c \in Checks, Answer(c) PROVE HealthTypeOK'
  <2>1. PICK w \in {"ok", "degraded"}:
          call' = [call EXCEPT ![c].pc = "done", ![c].answer = w]
    BY <1>9, Zenon DEF Answer
  <2>2. call'[c] = [pc |-> "done", at |-> call[c].at, error |-> call[c].error,
                    age |-> call[c].age, admin |-> call[c].admin, answer |-> w]
    BY <1>1, <2>1, ZenonT(30) DEF HealthTypeOK, Check
  <2>3. call'[c] \in Check
    BY <1>1, <2>2 DEF Check
  <2>4. call' \in [Checks -> Check]
    BY <1>1, <2>1, <2>3 DEF HealthTypeOK
  <2> QED BY <1>9, <2>4 DEF Answer, HealthTypeOK
<1> QED BY <1>3, <1>4, <1>5, <1>6, <1>7, <1>8, <1>9 DEF HealthNext

\* A check that a step leaves alone stays as recent as it was.
LEMMA OtherCheck ==
  ASSUME UNCHANGED <<watched, found, turned>>, NEW c \in Checks, call'[c] = call[c],
         CheckIsRecent(c), AnswerWithin(c)
  PROVE  CheckIsRecent(c)' /\ AnswerWithin(c)'
<1>1. /\ Probes' = Probes /\ ExternalLag' = ExternalLag /\ BeatLag' = BeatLag /\ Sick' = Sick
      /\ watched' = watched /\ turned' = turned
  BY SameDependency
<1> QED BY <1>1 DEF CheckIsRecent, AnswerWithin, WellWithin, IllWithin, Lag, Passed

\* The caches that a step leaves alone stay as recent as they were.
LEMMA SameCaches ==
  ASSUME UNCHANGED <<watched, found, turned>>
  PROVE  /\ UNCHANGED external /\ ExternalIsRecent => ExternalIsRecent'
         /\ UNCHANGED response /\ ResponseIsRecent => ResponseIsRecent'
         /\ UNCHANGED beat /\ Beats => Beats'
<1>1. /\ IsExternal' = IsExternal /\ ExternalLag' = ExternalLag /\ BeatLag' = BeatLag
      /\ Sick' = Sick /\ turned' = turned
  BY SameDependency
<1> QED BY <1>1 DEF ExternalIsRecent, ResponseIsRecent, WellWithin, IllWithin, Beats

\* A call answers from the response cache.
LEMMA ServeCachedInv ==
  ASSUME HealthInv, HealthTypeOK', NEW c \in Checks, ServeCached(c) PROVE HealthInv'
<1> USE DEF HealthInv
<1>1. ExternalIsRecent' /\ ResponseIsRecent' /\ Beats'
  BY SameCaches DEF ServeCached
<1>2. call[c] \in Check /\ call' = [call EXCEPT ![c].pc = "done", ![c].answer = "ok"]
  BY DEF ServeCached, HealthTypeOK
<1>3. call'[c].pc = "done" /\ call'[c].answer = "ok"
  BY <1>2 DEF HealthTypeOK, Check
<1>4. WellWithin(MaxCheck + ResponseTtl - 1 + BeatLag + ExternalLag)
  <2>1. response < ResponseTtl /\ WellWithin(response + MaxCheck + BeatLag + ExternalLag)
    BY DEF ServeCached, Fresh, ResponseIsRecent
  <2> QED BY <2>1, LagFacts, HealthAssumption DEF WellWithin, HealthTypeOK
<1>5. CheckIsRecent(c)' /\ AnswerWithin(c)'
  <2>1. ExternalLag' = ExternalLag /\ BeatLag' = BeatLag /\ Sick' = Sick /\ turned' = turned
    BY SameDependency DEF ServeCached
  <2> QED BY <1>3, <1>4, <2>1 DEF CheckIsRecent, AnswerWithin, WellWithin
<1>6. ASSUME NEW d \in Checks, d # c PROVE CheckIsRecent(d)' /\ AnswerWithin(d)'
  BY <1>2, <1>6, OtherCheck DEF ServeCached, HealthTypeOK
<1> QED BY <1>1, <1>5, <1>6

\* A call starts a check, with the external result if that is cached.
LEMMA StartInv ==
  ASSUME HealthInv, HealthTypeOK', NEW c \in Checks, Start(c) PROVE HealthInv'
<1> USE DEF HealthInv
<1>1. ExternalIsRecent' /\ ResponseIsRecent' /\ Beats'
  BY SameCaches DEF Start
<1>2. PICK a \in BOOLEAN, e \in BOOLEAN, k \in Nat \ {0}:
        /\ call' = [call EXCEPT ![c] = [pc |-> "probing", at |-> k, error |-> e, age |-> 0,
                                        admin |-> a, answer |-> "none"]]
        /\ \/ e = FALSE /\ k = 1
           \/ /\ IsExternal /\ external.age < ExternalTtl
              /\ e = external.error /\ k = Len(Probes) + 1
  BY StartFacts, Zenon
<1>3. call'[c].pc = "probing" /\ call'[c].at = k /\ call'[c].error = e /\ call'[c].age = 0
  BY <1>2 DEF HealthTypeOK
<1>4. /\ Probes' = Probes /\ ExternalLag' = ExternalLag /\ BeatLag' = BeatLag /\ Sick' = Sick
      /\ watched' = watched /\ turned' = turned
  BY SameDependency DEF Start
<1>5. AnswerWithin(c)'
  BY <1>3 DEF AnswerWithin
<1>6. CheckIsRecent(c)'
  <2>1. CASE e = FALSE /\ k = 1
    BY <1>3, <2>1 DEF CheckIsRecent, Passed
  <2>2. CASE IsExternal /\ external.age < ExternalTtl /\ e = external.error /\ k = Len(Probes) + 1
    <3>1. /\ e => IllWithin(ExternalLag)
          /\ ~e => WellWithin(ExternalLag)
      BY <2>2, HealthAssumption
         DEF ExternalIsRecent, IllWithin, WellWithin, ExternalLag, HealthTypeOK
    <3>2. Lag(k) = ExternalLag /\ BeatLag \in Nat /\ ExternalLag \in Nat
      BY <2>2, ProbesFacts, LagFacts DEF Lag, HealthTypeOK
    <3>3. /\ e => IllWithin(0 + Lag(k))
          /\ ~e => WellWithin(0 + BeatLag + Lag(k))
      BY <3>1, <3>2 DEF WellWithin, IllWithin, HealthTypeOK
    <3> QED BY <1>3, <1>4, <3>3 DEF CheckIsRecent, WellWithin, IllWithin, Lag
  <2> QED BY <1>2, <2>1, <2>2, Zenon
<1>7. ASSUME NEW d \in Checks, d # c PROVE CheckIsRecent(d)' /\ AnswerWithin(d)'
  BY <1>2, <1>7, OtherCheck DEF Start, HealthTypeOK
<1> QED BY <1>1, <1>5, <1>6, <1>7

\* A check that is complete fills the response cache and answers.
LEMMA AnswerInv ==
  ASSUME HealthInv, HealthTypeOK', NEW c \in Checks, Answer(c) PROVE HealthInv'
<1> USE DEF HealthInv
<1>1. ExternalIsRecent' /\ Beats'
  BY SameCaches DEF Answer
<1>2. call[c] \in Check /\ call[c].pc = "probing" /\ call[c].at > Len(Probes)
  BY DEF Answer, HealthTypeOK
<1>3. /\ call'[c].pc = "done"
      /\ call'[c].answer = IF call[c].error THEN "degraded" ELSE "ok"
  BY <1>2 DEF Answer, HealthTypeOK, Check
<1>4. Passed(call[c].at) /\ Lag(call[c].at) = ExternalLag
  BY <1>2, ProbesFacts, SMTT(30) DEF Passed, Lag, HealthTypeOK, Check
<1>5. BeatLag \in Nat /\ ExternalLag \in Nat /\ call[c].age \in 0..MaxCheck /\ turned \in Nat
  BY <1>2, LagFacts DEF HealthTypeOK, Check
<1>6. /\ call[c].error => IllWithin(MaxCheck + ExternalLag)
      /\ ~call[c].error => WellWithin(MaxCheck + BeatLag + ExternalLag)
  <2>1. /\ call[c].error => IllWithin(call[c].age + ExternalLag)
        /\ ~call[c].error => WellWithin(call[c].age + BeatLag + ExternalLag)
    BY <1>2, <1>4 DEF CheckIsRecent
  <2> QED BY <1>5, <2>1, HealthAssumption DEF WellWithin, IllWithin
<1>7. ExternalLag' = ExternalLag /\ BeatLag' = BeatLag /\ Sick' = Sick /\ turned' = turned
  BY SameDependency, Zenon DEF Answer
<1>8. CheckIsRecent(c)' /\ AnswerWithin(c)'
  BY <1>3, <1>5, <1>6, <1>7, HealthAssumption, SMTT(60)
     DEF CheckIsRecent, AnswerWithin, WellWithin, IllWithin
<1>9. ResponseIsRecent'
  <2>1. CASE response' = response
    BY <2>1, SameCaches, Zenon DEF Answer
  <2>2. CASE response' = 0 /\ ~call[c].error
    BY <1>5, <1>6, <1>7, <2>2, HealthAssumption DEF ResponseIsRecent, WellWithin
  <2> QED BY <2>1, <2>2 DEF Answer
<1>10. ASSUME NEW d \in Checks, d # c PROVE CheckIsRecent(d)' /\ AnswerWithin(d)'
  BY <1>10, OtherCheck DEF Answer, HealthTypeOK
<1> QED BY <1>1, <1>8, <1>9, <1>10

\* A probe of a check answers.
LEMMA ProbeInv ==
  ASSUME HealthInv, HealthTypeOK', NEW c \in Checks, Probe(c) PROVE HealthInv'
<1> USE DEF HealthInv
<1>1. ResponseIsRecent' /\ Beats'
  BY SameCaches, Zenon DEF Probe
<1>2. /\ call[c] \in Check /\ call[c].pc = "probing" /\ call[c].at <= Len(Probes)
      /\ Len(Probes) \in Nat /\ call[c].at \in Nat \ {0} /\ call[c].age \in Nat
  BY ProbesFacts, HealthAssumption, SMTT(30) DEF Probe, HealthTypeOK, Check
<1>3. PICK e \in BOOLEAN:
        /\ e = (call[c].error \/ (Probes[call[c].at] = watched /\ Seen \in Fatal(watched)))
        /\ call' = [call EXCEPT ![c].at = call[c].at + 1, ![c].error = e]
        /\ \/ external' = external
           \/ /\ IsExternal /\ call[c].at = Len(Probes)
              /\ external' = [age |-> call[c].age, error |-> e]
  BY ProbeFacts
<1>4. /\ call'[c].pc = "probing" /\ call'[c].at = call[c].at + 1
      /\ call'[c].error = e /\ call'[c].age = call[c].age
  BY <1>2, <1>3 DEF HealthTypeOK, Check
<1>5. /\ Probes' = Probes /\ IsExternal' = IsExternal /\ ExternalLag' = ExternalLag
      /\ BeatLag' = BeatLag /\ Sick' = Sick /\ watched' = watched /\ turned' = turned
  BY SameDependency DEF Probe
<1>6. BeatLag \in Nat /\ ExternalLag \in Nat /\ turned \in Nat /\ (IsExternal => BeatLag = 0)
  BY LagFacts DEF HealthTypeOK
<1>7. e => IllWithin(call[c].age)
  <2>1. CASE call[c].error
    BY <1>2, <2>1 DEF CheckIsRecent, Lag, IllWithin
  <2>2. CASE ~call[c].error
    BY <1>3, <2>2, SeenFacts, Zenon DEF IllWithin
  <2> QED BY <2>1, <2>2
<1>8. ~e /\ Passed(call[c].at + 1) => WellWithin(call[c].age + BeatLag)
  <2>1. SUFFICES ASSUME ~e, Passed(call[c].at + 1) PROVE WellWithin(call[c].age + BeatLag)
    OBVIOUS
  <2>2. CASE Probes[call[c].at] = watched
    <3>1. WellWithin(BeatLag)
      BY <1>3, <2>1, <2>2, SeenFacts, Zenon
    <3> QED BY <1>2, <1>6, <3>1 DEF WellWithin
  <2>3. CASE Probes[call[c].at] # watched
    <3>1. Passed(call[c].at)
      BY <1>2, <2>1, <2>3 DEF Passed
    <3>2. ~call[c].error
      BY <1>3, <2>1, Zenon
    <3>3. WellWithin(call[c].age + BeatLag + Lag(call[c].at)) /\ Lag(call[c].at) = 0
      BY <1>2, <3>1, <3>2, Zenon DEF CheckIsRecent, Lag
    <3> QED BY <1>2, <1>6, <3>3 DEF WellWithin
  <2> QED BY <2>2, <2>3
<1>9. AnswerWithin(c)'
  BY <1>4, Zenon DEF AnswerWithin
<1>10. CheckIsRecent(c)'
  <2>1. Lag(call[c].at + 1) \in Nat
    BY <1>6 DEF Lag
  <2>2. /\ e => IllWithin(call[c].age + Lag(call[c].at + 1))
        /\ ~e /\ Passed(call[c].at + 1) =>
             WellWithin(call[c].age + BeatLag + Lag(call[c].at + 1))
    BY <1>2, <1>6, <1>7, <1>8, <2>1 DEF IllWithin, WellWithin
  <2> QED BY <1>4, <1>5, <2>2, Zenon DEF CheckIsRecent, IllWithin, WellWithin, Lag, Passed
<1>11. ExternalIsRecent'
  <2>1. CASE external' = external
    BY <2>1, SameCaches, Zenon DEF Probe
  <2>2. CASE /\ IsExternal /\ call[c].at = Len(Probes)
             /\ external' = [age |-> call[c].age, error |-> e]
    <3>1. Passed(call[c].at + 1)
      BY <1>2, <2>2, ProbesFacts DEF Passed, HealthTypeOK
    <3>2. external'.age = call[c].age /\ external'.error = e
      BY <2>2, Zenon
    <3>3. ~e => WellWithin(call[c].age)
      BY <1>2, <1>6, <1>8, <2>2, <3>1 DEF WellWithin
    <3> QED BY <1>5, <1>7, <3>2, <3>3, Zenon DEF ExternalIsRecent, IllWithin, WellWithin
  <2> QED BY <1>3, <2>1, <2>2
<1>12. ASSUME NEW d \in Checks, d # c PROVE CheckIsRecent(d)' /\ AnswerWithin(d)'
  BY <1>3, <1>12, OtherCheck DEF Probe, HealthTypeOK
<1> QED BY <1>1, <1>9, <1>10, <1>11, <1>12

\* A call is over.
LEMMA ReturnInv ==
  ASSUME HealthInv, HealthTypeOK', NEW c \in Checks, Return(c) PROVE HealthInv'
<1> USE DEF HealthInv
<1>1. ExternalIsRecent' /\ ResponseIsRecent' /\ Beats'
  BY SameCaches, Zenon DEF Return
<1>2. call' = [call EXCEPT ![c] = IdleCheck] /\ call'[c].pc = "idle"
  BY DEF Return, HealthTypeOK, IdleCheck
<1>3. CheckIsRecent(c)' /\ AnswerWithin(c)'
  BY <1>2 DEF CheckIsRecent, AnswerWithin
<1>4. ASSUME NEW d \in Checks, d # c PROVE CheckIsRecent(d)' /\ AnswerWithin(d)'
  BY <1>2, <1>4, OtherCheck DEF Return, HealthTypeOK
<1> QED BY <1>1, <1>3, <1>4

\* The dependency changes: nothing found before is older than the change.
LEMMA ChangeInv ==
  ASSUME HealthInv, HealthTypeOK', Change PROVE HealthInv'
<1> USE DEF HealthInv
<1>1. UNCHANGED <<watched, call, external, response>>
  BY DEF Change
<1>2. \/ turned' = 0
      \/ turned' = turned /\ Sick' = Sick
  BY <1>1 DEF Change, Sick, Faulty
<1>3. /\ Probes' = Probes /\ IsExternal' = IsExternal /\ ExternalLag' = ExternalLag
      /\ BeatLag' = BeatLag
  BY <1>1, SameDependency
<1>4. BeatLag \in Nat /\ ExternalLag \in Nat
  BY LagFacts DEF HealthTypeOK
<1>5. ASSUME NEW c \in Checks PROVE CheckIsRecent(c)' /\ AnswerWithin(c)'
  <2>1. CheckIsRecent(c) /\ AnswerWithin(c) /\ call'[c] = call[c] /\ call[c] \in Check
    BY <1>1 DEF HealthTypeOK
  <2>2. call[c].age \in Nat
    BY <2>1, HealthAssumption DEF Check
  <2>3. CASE turned' = turned /\ Sick' = Sick
    BY <1>1, <1>3, <2>1, <2>3, Zenon
       DEF CheckIsRecent, AnswerWithin, WellWithin, IllWithin, Lag, Passed
  <2>4. CASE turned' = 0
    BY <1>3, <1>4, <2>1, <2>2, <2>4, HealthAssumption
       DEF CheckIsRecent, AnswerWithin, WellWithin, IllWithin, Lag
  <2> QED BY <1>2, <2>3, <2>4
<1>6. ExternalIsRecent'
  BY <1>1, <1>2, <1>3 DEF ExternalIsRecent, WellWithin, IllWithin, HealthTypeOK
<1>7. ResponseIsRecent'
  <2>1. response \in Nat /\ MaxCheck \in Nat
    BY HealthAssumption DEF HealthTypeOK
  <2>2. CASE turned' = 0
    BY <1>1, <1>3, <1>4, <2>1, <2>2 DEF ResponseIsRecent, WellWithin
  <2>3. CASE turned' = turned /\ Sick' = Sick
    BY <1>1, <1>3, <2>3 DEF ResponseIsRecent, WellWithin
  <2> QED BY <1>2, <2>2, <2>3
<1>8. Beats'
  <2>1. SUFFICES ASSUME watched = "heartbeats"
                 PROVE  /\ found' = "ok" => beat' > 0
                        /\ found' = "stopped" /\ beat' > 0 => turned' + beat' <= HeartbeatTtl
    BY <1>1 DEF Beats
  <2>2. found' # found /\ found \in {"ok", "stopped", "throws"}
    BY <2>1 DEF Change, HealthTypeOK
  <2>3. found' = "ok" => beat' = HeartbeatTtl
    BY <2>1 DEF Change
  <2>4. found' = "stopped" => turned' = 0
    <3>1. \A f: Faulty(f) <=> f \in {"bad", "stopped"}
      BY <2>1, FatalFacts DEF Faulty
    <3> QED BY <2>2, <3>1 DEF Change
  <2>5. beat' \in 0..HeartbeatTtl
    BY DEF HealthTypeOK
  <2> QED BY <2>3, <2>4, <2>5, HealthAssumption
<1> QED BY <1>5, <1>6, <1>7, <1>8

\* A worker that is up writes its heartbeat.
LEMMA HeartbeatInv ==
  ASSUME HealthInv, HealthTypeOK', RecordWorkerHeartbeat PROVE HealthInv'
<1> USE DEF HealthInv
<1>1. ExternalIsRecent' /\ ResponseIsRecent'
  BY SameCaches DEF RecordWorkerHeartbeat
<1>2. ASSUME NEW d \in Checks PROVE CheckIsRecent(d)' /\ AnswerWithin(d)'
  BY <1>2, OtherCheck DEF RecordWorkerHeartbeat
<1>3. Beats'
  BY HealthAssumption DEF Beats, RecordWorkerHeartbeat
<1> QED BY <1>1, <1>2, <1>3

\* Time passes, for the findings as for the dependency.
LEMMA HealthTickInv ==
  ASSUME HealthInv, HealthTypeOK', HealthTick PROVE HealthInv'
<1> USE DEF HealthInv
<1>1. UNCHANGED <<watched, found>> /\ turned' <= turned + 1 /\ turned \in Nat /\ turned' \in Nat
  BY DEF HealthTick, HealthTypeOK, Horizon
<1>2. /\ Probes' = Probes /\ IsExternal' = IsExternal /\ ExternalLag' = ExternalLag
      /\ BeatLag' = BeatLag /\ Sick' = Sick /\ watched' = watched
  BY <1>1, SameDependency
<1>3. BeatLag \in Nat /\ ExternalLag \in Nat
  BY LagFacts DEF HealthTypeOK
<1>4. ASSUME NEW n \in Nat, NEW m \in Nat, m = n + 1
      PROVE  /\ WellWithin(n) => (Sick' => turned' <= m)
             /\ IllWithin(n) => (~Sick' => turned' <= m)
  BY <1>1, <1>2, <1>4 DEF WellWithin, IllWithin
<1>5. ASSUME NEW c \in Checks PROVE CheckIsRecent(c)' /\ AnswerWithin(c)'
  <2>1. call[c] \in Check /\ call[c].pc # "done" /\ CheckIsRecent(c)
    BY Zenon DEF HealthTick, HealthTypeOK
  <2>2. CASE call[c].pc # "probing"
    <3>1. call'[c] = call[c]
      BY <2>2, Zenon DEF HealthTick, HealthTypeOK
    <3> QED BY <2>1, <2>2, <3>1 DEF CheckIsRecent, AnswerWithin
  <2>3. CASE call[c].pc = "probing"
    <3>1. /\ call'[c].pc = "probing" /\ call'[c].at = call[c].at
          /\ call'[c].error = call[c].error /\ call'[c].age = call[c].age + 1
      BY <2>1, <2>3 DEF HealthTick, HealthTypeOK, Check
    <3>2. Lag(call[c].at) \in Nat /\ call[c].age \in Nat
      BY <1>3, <2>1, HealthAssumption, SMTT(30) DEF Lag, Check
    <3>3. /\ call[c].error => (~Sick' => turned' <= call[c].age + 1 + Lag(call[c].at))
          /\ ~call[c].error /\ Passed(call[c].at) =>
               (Sick' => turned' <= call[c].age + 1 + BeatLag + Lag(call[c].at))
      BY <1>1, <1>2, <1>3, <2>1, <2>3, <3>2, SMTT(60) DEF CheckIsRecent, WellWithin, IllWithin
    <3> QED BY <1>2, <3>1, <3>3
            DEF CheckIsRecent, AnswerWithin, WellWithin, IllWithin, Lag, Passed
  <2> QED BY <2>2, <2>3
<1>6. ExternalIsRecent'
  <2>1. external' = [age |-> Older(external.age, ExternalTtl + MaxCheck), error |-> external.error]
    BY DEF HealthTick, HealthTypeOK
  <2>2. external'.age = Older(external.age, ExternalTtl + MaxCheck) /\ external'.error = external.error
    BY <2>1
  <2>3. external'.age < ExternalTtl => external'.age = external.age + 1
    BY <2>2, HealthAssumption DEF Older, Expired, HealthTypeOK
  <2>4. external.age \in Nat
    BY DEF HealthTypeOK
  <2> QED BY <1>1, <1>2, <2>2, <2>3, <2>4, HealthAssumption, SMTT(60)
          DEF ExternalIsRecent, WellWithin, IllWithin
<1>7. ResponseIsRecent'
  <2>1. response' < ResponseTtl => response' = response + 1
    BY HealthAssumption DEF HealthTick, Older, Expired, HealthTypeOK
  <2>2. response \in Nat
    BY DEF HealthTypeOK
  <2> QED BY <1>1, <1>2, <1>3, <2>1, <2>2, HealthAssumption DEF ResponseIsRecent, WellWithin
<1>8. Beats'
  <2>1. SUFFICES ASSUME watched = "heartbeats"
                 PROVE  /\ found = "ok" => beat' > 0
                        /\ found = "stopped" /\ beat' > 0 => turned' + beat' <= HeartbeatTtl
    BY <1>1 DEF Beats
  <2>2. beat \in Nat /\ beat' = IF beat > 0 THEN beat - 1 ELSE beat
    BY <2>1, HealthAssumption DEF HealthTick, HealthTypeOK
  <2>3. found # "stopped" => beat > 1
    BY <2>1 DEF HealthTick
  <2>4. found = "stopped" /\ beat > 0 => turned + beat <= HeartbeatTtl
    BY <2>1 DEF Beats
  <2>5. found = "ok" => beat' > 0
    BY <2>2, <2>3
  <2>6. ASSUME found = "stopped", beat' > 0 PROVE turned' + beat' <= HeartbeatTtl
    <3>1. beat > 0 /\ beat' = beat - 1 /\ turned + beat <= HeartbeatTtl
      BY <2>2, <2>4, <2>6
    <3>2. turned \in Nat /\ turned' \in Nat /\ turned' <= turned + 1 /\ HeartbeatTtl \in Nat
      BY <1>1, HealthAssumption
    <3>3. \A t, u, b, d, h \in Int: u <= t + 1 /\ d = b - 1 /\ t + b <= h => u + d <= h
      OBVIOUS
    <3>4. beat \in Int /\ beat' \in Int /\ turned \in Int /\ turned' \in Int /\ HeartbeatTtl \in Int
      BY <2>2, <3>1, <3>2
    <3> QED BY <3>1, <3>2, <3>3, <3>4, ZenonT(30)
  <2> QED BY <2>5, <2>6
<1> QED BY <1>5, <1>6, <1>7, <1>8

\* HealthInv is inductive: the checks, their probes, both caches, the dependency and time.
THEOREM HealthInvariance == HealthSpec => []HealthInv
<1>1. HealthInit => HealthInv
  <2> SUFFICES ASSUME HealthInit PROVE HealthInv
    OBVIOUS
  <2>1. HealthTypeOK
    <3>1. IdleCheck \in Check
      BY HealthAssumption DEF IdleCheck, Check
    <3>2. Horizon \in Nat /\ Expired \in Nat
      BY HealthAssumption DEF Horizon, Expired
    <3> QED BY <3>1, <3>2, HealthAssumption DEF HealthInit, HealthTypeOK, Outcomes
  <2>2. Beats
    BY HealthAssumption DEF HealthInit, Beats
  <2>3. \A c \in Checks: call[c].pc = "idle"
    BY DEF HealthInit, IdleCheck
  <2>4. ExternalIsRecent /\ ResponseIsRecent
    BY HealthAssumption DEF HealthInit, Expired, ExternalIsRecent, ResponseIsRecent
  <2> QED BY <2>1, <2>2, <2>3, <2>4 DEF HealthInv, CheckIsRecent, AnswerWithin
<1>2. HealthInv /\ [HealthNext]_healthVars => HealthInv'
  <2> SUFFICES ASSUME HealthInv, [HealthNext]_healthVars PROVE HealthInv'
    OBVIOUS
  <2>1. CASE HealthNext
    <3>1. HealthTypeOK'
      BY <2>1, HealthTypes DEF HealthInv
    <3> QED BY <2>1, <3>1, ServeCachedInv, StartInv, AnswerInv, ProbeInv, ReturnInv,
               ChangeInv, HeartbeatInv, HealthTickInv DEF HealthNext
  <2>2. CASE UNCHANGED healthVars
    <3>1. UNCHANGED <<watched, found, turned>> /\ UNCHANGED <<beat, call, external, response>>
      BY <2>2 DEF healthVars
    <3>2. \A c \in Checks: CheckIsRecent(c)' /\ AnswerWithin(c)'
      BY <3>1, OtherCheck, Zenon DEF HealthInv
    <3> QED BY <3>1, <3>2, SameCaches DEF HealthInv, HealthTypeOK
  <2> QED BY <2>1, <2>2
<1> QED BY <1>1, <1>2, PTL DEF HealthSpec

\* A 200 and a 503 of GET /health speak of the recent past, for any number of
\* overlapping checks, any dependency and any lifetimes of the caches.
THEOREM HealthIsRecent == HealthSpec => []AnswerIsRecent
<1>1. HealthInv => AnswerIsRecent
  <2> SUFFICES ASSUME HealthInv PROVE AnswerIsRecent
    OBVIOUS
  <2>1. /\ HealthyLag = MaxCheck + ResponseTtl - 1 + ExternalLag + BeatLag
        /\ DegradedLag = MaxCheck + ExternalLag
    BY DEF HealthyLag, DegradedLag, ExternalLag, BeatLag
  <2>2. ExternalLag \in Nat /\ BeatLag \in Nat /\ turned \in Nat
    BY LagFacts DEF HealthInv, HealthTypeOK
  <2> QED BY <2>1, <2>2, HealthAssumption
          DEF HealthInv, AnswerIsRecent, AnswerWithin, WellWithin, IllWithin, Sick
<1> QED BY <1>1, HealthInvariance, PTL
=============================================================================
