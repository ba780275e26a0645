------------------------- MODULE ProductCatalogue -------------------------
(***************************************************************************)
(* The product catalogue of one process: getActiveProducts with its        *)
(* in-process cache, and the admin mutations createProduct, updateProduct  *)
(* and deactivateProduct (policy/policy.service.ts) with the versioning of *)
(* the premium rate (policy/premium-rate-versioning.ts).                   *)
(*                                                                         *)
(* The catalogue is one product and the first page, the page of the public *)
(* listing; other pages have cache keys of their own and behave alike. A   *)
(* product is its premium rate, the rate's version and whether it is       *)
(* active; the other columns are copied from the request.                  *)
(***************************************************************************)
EXTENDS Naturals

CONSTANTS
  Readers,     \* calls of getActiveProducts
  Admins,      \* calls of the three mutations
  Rates,       \* premium rates
  PageTtl,         \* PRODUCT_CACHE_TTL_MS in ticks
  MaxQuery     \* bound: ticks a query may take

ASSUME CatalogueAssumption == PageTtl \in Nat /\ MaxQuery \in Nat

VARIABLES
  product,     \* the row
  productCache,\* the cached page: [data, left, stale]
  reader,      \* per reader: [pc, data, elapsed, stale]
  admin        \* per admin: [pc, rate, existing]

catalogueVars == <<product, productCache, reader, admin>>

Absent == [rate |-> 0, version |-> 0, active |-> FALSE]
Empty == [data |-> Absent, left |-> 0, stale |-> 0]
IdleReader == [pc |-> "idle", data |-> Absent, elapsed |-> 0, stale |-> 0]
IdleAdmin == [pc |-> "idle", rate |-> 0, existing |-> Absent]

\* What the listing shows: active products only.
Page == IF product.active THEN product ELSE Absent

CatalogueInit ==
  /\ product \in {Absent} \cup {[rate |-> r, version |-> 1, active |-> TRUE] : r \in Rates}
  /\ productCache = Empty
  /\ reader = [r \in Readers |-> IdleReader]
  /\ admin = [a \in Admins |-> IdleAdmin]

-----------------------------------------------------------------------------
\* getActiveProducts

\* A live entry answers the call.
Hit(r) ==
  /\ reader[r].pc = "idle" /\ productCache.left > 0
  /\ reader' = [reader EXCEPT ![r].pc = "served", ![r].stale = productCache.stale]
  /\ UNCHANGED <<product, productCache, admin>>

\* Otherwise the clock is read and the query starts.
Miss(r) ==
  /\ reader[r].pc = "idle" /\ productCache.left = 0
  /\ reader' = [reader EXCEPT ![r].pc = "query"]
  /\ UNCHANGED <<product, productCache, admin>>

\* The database runs the query.
ReadPage(r) ==
  /\ reader[r].pc = "query"
  /\ reader' = [reader EXCEPT ![r].pc = "read", ![r].data = Page]
  /\ UNCHANGED <<product, productCache, admin>>

\* The mutant: the entry lives a whole TTL from the moment it is stored.
Lifetime_FromStore(elapsed) == PageTtl

\* The entry expires a TTL after the clock was read, before the query.
Lifetime(elapsed) == IF elapsed < PageTtl THEN PageTtl - elapsed ELSE 0

\* The result arrives and is stored.
StorePage(r) ==
  /\ reader[r].pc = "read"
  /\ productCache' = [data |-> reader[r].data, left |-> Lifetime(reader[r].elapsed),
                      stale |-> reader[r].stale]
  /\ reader' = [reader EXCEPT ![r].pc = "stored"]
  /\ UNCHANGED <<product, admin>>

-----------------------------------------------------------------------------
\* Admin mutations: the cache is cleared first, the row written later.

CreateProduct(a) == \E rate \in Rates:
  /\ admin[a].pc = "idle" /\ product = Absent
  /\ productCache' = Empty
  /\ admin' = [admin EXCEPT ![a] = [pc |-> "create", rate |-> rate, existing |-> Absent]]
  /\ UNCHANGED <<product, reader>>

\* The rate is 0 when the request leaves it out.
UpdateProduct(a) == \E rate \in Rates \cup {0}:
  /\ admin[a].pc = "idle"
  /\ productCache' = Empty
  /\ admin' = [admin EXCEPT ![a] = [pc |-> "update", rate |-> rate, existing |-> Absent]]
  /\ UNCHANGED <<product, reader>>

DeactivateProduct(a) ==
  /\ admin[a].pc = "idle"
  /\ productCache' = Empty
  /\ admin' = [admin EXCEPT ![a].pc = "deactivate"]
  /\ UNCHANGED <<product, reader>>

\* updateProduct and deactivateProduct look the product up; no row is a 404.
FindUnique(a) ==
  /\ admin[a].pc \in {"update", "deactivate"}
  /\ admin' = [admin EXCEPT ![a].existing = product, ![a].pc =
       IF product = Absent THEN "done" ELSE IF @ = "update" THEN "write" ELSE "writeStatus"]
  /\ UNCHANGED <<product, productCache, reader>>

NextPremiumRateVersion(current, rate) ==
  IF rate # current.rate THEN current.version + 1 ELSE current.version

\* The row is written and the call ends; the cache was cleared long before.
Write(a, new) ==
  /\ product' = new
  /\ admin' = [admin EXCEPT ![a] = [IdleAdmin EXCEPT !.pc = "done"]]
  /\ UNCHANGED <<productCache, reader>>

WriteProduct(a) ==
  \/ /\ admin[a].pc = "create"
     /\ product = Absent
     /\ \E status \in BOOLEAN: Write(a, [rate |-> admin[a].rate, version |-> 1, active |-> status])
  \/ /\ admin[a].pc = "write" /\ admin[a].rate # 0
     /\ \E status \in BOOLEAN:
          Write(a, [rate |-> admin[a].rate, active |-> status,
                    version |-> NextPremiumRateVersion(admin[a].existing, admin[a].rate)])
  \/ /\ admin[a].pc = "write" /\ admin[a].rate = 0
     /\ \E status \in BOOLEAN: Write(a, [product EXCEPT !.active = status])
  \/ /\ admin[a].pc = "writeStatus"
     /\ Write(a, [product EXCEPT !.active = FALSE])

-----------------------------------------------------------------------------
\* Time passes. A page that differs from the row gets staler; a query takes at
\* most MaxQuery ticks.
CatalogueTick ==
  /\ \A r \in Readers: reader[r].pc \in {"query", "read"} => reader[r].elapsed < MaxQuery
  /\ productCache' = [productCache EXCEPT !.left = IF @ > 0 THEN @ - 1 ELSE 0,
       !.stale = IF productCache.left > 0 /\ productCache.data # Page THEN @ + 1 ELSE @]
  /\ reader' = [r \in Readers |->
       IF reader[r].pc \in {"query", "read"}
       THEN [reader[r] EXCEPT !.elapsed = @ + 1,
               !.stale = IF reader[r].pc = "read" /\ reader[r].data # Page THEN @ + 1 ELSE @]
       ELSE reader[r]]
  /\ UNCHANGED <<product, admin>>

\* A call is over and the next one may come.
EndCall ==
  \/ \E r \in Readers:
       /\ reader[r].pc \in {"served", "stored"}
       /\ reader' = [reader EXCEPT ![r] = IdleReader]
       /\ UNCHANGED <<product, productCache, admin>>
  \/ \E a \in Admins:
       /\ admin[a].pc = "done"
       /\ product.version < 3     \* bound: versions of a rate
       /\ admin' = [admin EXCEPT ![a] = IdleAdmin]
       /\ UNCHANGED <<product, productCache, reader>>

CatalogueNext ==
  \/ \E r \in Readers: Hit(r) \/ Miss(r) \/ ReadPage(r) \/ StorePage(r)
  \/ \E a \in Admins:
       \/ CreateProduct(a) \/ UpdateProduct(a) \/ DeactivateProduct(a)
       \/ FindUnique(a) \/ WriteProduct(a)
  \/ CatalogueTick \/ EndCall

CatalogueSpec == CatalogueInit /\ [][CatalogueNext]_catalogueVars

-----------------------------------------------------------------------------
\* A page served from the cache was the catalogue's state less than a TTL ago,
\* also when an admin's write cleared the cache, a reader filled it from the
\* old row and the write came after: what a slow query took counts against the
\* lifetime of its entry.
CatalogueAge == \A r \in Readers: reader[r].pc = "served" => reader[r].stale < PageTtl

\* The version of a product's rate changes only when the rate does ("A template
\* version changes only when its premium rate changes").
VersionFollowsRate ==
  [][product # Absent /\ product'.version # product.version => product'.rate # product.rate]_catalogueVars

\* Once a mutation is done, no cached page predates it ("invalidate product
\* cache after admin mutation").
CacheFollowsMutation ==
  (\A a \in Admins: admin[a].pc \in {"idle", "done"}) /\ productCache.left > 0 =>
    productCache.data = Page
=============================================================================
