----------------------- MODULE PolicyStateCacheProofs -----------------------
(***************************************************************************)
(* Theorems about PolicyStateCache, for any number of replicas, with one   *)
(* reader on each, and any TTLs: what a write of ClaimsService leaves      *)
(* behind, and how long an old derived state lasts.                        *)
(***************************************************************************)
EXTENDS PolicyStateCache, TLAPS

-----------------------------------------------------------------------------
(* The derived state of a policy                                           *)

\* What an entry, a state and a race are; the absent entry is none of them.
LEMMA StateConstants ==
    /\ NoEntry \notin State /\ NoEntry \notin Entry
    /\ NoEntry \notin [rd : Nat, ttl : 1..ReadingTtl]
    /\ \A s \in State : Held(s) \in Entry /\ Held(s).s = s /\ Held(s).ttl = Ttl
    /\ \A s \in State : /\ Raced(s) \in State /\ Raced(s).v = s.v /\ Raced(s).raced = TRUE
    /\ Raced(NoEntry) = NoEntry
    /\ StaleHorizon \in Nat
<1>1. /\ NoEntry \notin State /\ NoEntry \notin Entry
      /\ NoEntry \notin [rd : Nat, ttl : 1..ReadingTtl]
  BY DEF NoEntry, State, Entry
<1>2. \A s \in State : Held(s) \in Entry /\ Held(s).s = s /\ Held(s).ttl = Ttl
  BY StateAssumption DEF Held, Entry
<1>3. ASSUME NEW s \in State
      PROVE  Raced(s) \in State /\ Raced(s).v = s.v /\ Raced(s).raced = TRUE
  <2>1. Raced(s) = [v |-> s.v, raced |-> TRUE]
    BY <1>1, Zenon DEF Raced, State
  <2> QED BY <2>1 DEF State
<1>4. Raced(NoEntry) = NoEntry
  BY DEF Raced
<1>5. StaleHorizon \in Nat
  BY StateAssumption DEF StaleHorizon
<1> QED BY <1>1, <1>2, <1>3, <1>4, <1>5, Zenon

\* A call under way holds a state.
Loading == \A x \in Reader : pc[x] # "idle" => val[x] # NoEntry

\* The fields of a version and of a state.
LEMMA VersionFacts ==
    /\ \A p, d \in Nat : [pol |-> p, rd |-> d] \in Version
    /\ \A v \in Version : v.pol \in Nat /\ v.rd \in Nat
    /\ \A v \in Version : [v |-> v, raced |-> FALSE] \in State
    /\ \A s \in State : s.v \in Version /\ s.raced \in BOOLEAN
BY DEF Version, State

\* What a tick leaves of an entry.
LEMMA AgeFacts ==
    /\ \A e \in Entry : \/ Age(e) = NoEntry
                        \/ Age(e) \in Entry /\ Age(e).s = e.s /\ Age(e).ttl = e.ttl - 1
    /\ \A e \in [rd : Nat, ttl : 1..ReadingTtl] :
           \/ Age(e) = NoEntry
           \/ /\ Age(e) \in [rd : Nat, ttl : 1..ReadingTtl]
              /\ Age(e).rd = e.rd /\ Age(e).ttl = e.ttl - 1
    /\ Age(NoEntry) = NoEntry
<1>1. ASSUME NEW e \in Entry, Age(e) # NoEntry
      PROVE  Age(e) \in Entry /\ Age(e).s = e.s /\ Age(e).ttl = e.ttl - 1
  <2>1. e.ttl \in 1..Ttl /\ e.ttl # 1 /\ e.s \in State
    BY <1>1 DEF Age, Entry
  <2>2. Age(e) = [s |-> e.s, ttl |-> e.ttl - 1]
    BY <1>1, <2>1 DEF Age, Entry
  <2>3. e.ttl - 1 \in 1..Ttl
    BY <2>1, StateAssumption
  <2> QED BY <2>1, <2>2, <2>3 DEF Entry
<1>2. ASSUME NEW e \in [rd : Nat, ttl : 1..ReadingTtl], Age(e) # NoEntry
      PROVE  /\ Age(e) \in [rd : Nat, ttl : 1..ReadingTtl]
             /\ Age(e).rd = e.rd /\ Age(e).ttl = e.ttl - 1
  <2>1. e.ttl \in 1..ReadingTtl /\ e.ttl # 1 /\ e.rd \in Nat
    BY <1>2 DEF Age
  <2>2. Age(e) = [rd |-> e.rd, ttl |-> e.ttl - 1]
    BY <1>2, <2>1 DEF Age
  <2>3. e.ttl - 1 \in 1..ReadingTtl
    BY <2>1, StateAssumption
  <2> QED BY <2>1, <2>2, <2>3
<1> QED BY <1>1, <1>2 DEF Age

\* The type invariant, action by action.
LEMMA StateTypes ==
    StateTypeOK /\ Loading /\ StateNext => StateTypeOK' /\ Loading'
<1> SUFFICES ASSUME StateTypeOK, Loading, StateNext PROVE StateTypeOK' /\ Loading'
  OBVIOUS
<1> USE StateAssumption, StateConstants
<1>1. ASSUME NEW x \in Reader, NEW s \in State, StoreState(x, s),
             UNCHANGED <<db, l2, wpc, inbox, faults, others, since, setAge>>,
             rdCache' \in [Replica -> [rd : Nat, ttl : 1..ReadingTtl] \cup {NoEntry}]
      PROVE  StateTypeOK' /\ Loading'
  BY <1>1 DEF StoreState, StateTypeOK, Loading
<1>2. ASSUME NEW x \in Reader, ReadState(x) PROVE StateTypeOK' /\ Loading'
  <2>1. l2 # NoEntry => l2.s \in State
    BY DEF StateTypeOK, Entry
  <2>2. [v |-> db, raced |-> FALSE] \in State
    BY VersionFacts DEF StateTypeOK
  <2>3. \E s \in State, at \in {"got", "miss"} :
            val' = [val EXCEPT ![x] = s] /\ pc' = [pc EXCEPT ![x] = at]
    BY <1>2, <2>1, <2>2, Zenon DEF ReadState
  <2> QED BY <1>2, <2>3 DEF ReadState, StateTypeOK, Loading
<1>3. ASSUME NEW x \in Reader, Promote(x) PROVE StateTypeOK' /\ Loading'
  <2>1. val[x] \in State
    BY <1>3 DEF Promote, Loading, StateTypeOK
  <2> QED BY <1>3, <2>1 DEF Promote, StateTypeOK, Loading
<1>4. ASSUME NEW x \in Reader, QueryPolicy(x) PROVE StateTypeOK' /\ Loading'
  <2>1. val[x] \in State
    BY <1>4 DEF QueryPolicy, Loading, StateTypeOK
  <2>2. val'[x] = [v |-> [pol |-> db.pol, rd |-> val[x].v.rd], raced |-> val[x].raced]
    BY <1>4, <2>1 DEF QueryPolicy, StateTypeOK, State, Version
  <2>3. val'[x] \in State
    BY <2>1, <2>2, VersionFacts DEF State, StateTypeOK
  <2> QED BY <1>4, <2>3, ZenonT(60) DEF QueryPolicy, StateTypeOK, Loading
<1>5. ASSUME NEW x \in Reader, CachedReading(x) PROVE StateTypeOK' /\ Loading'
  <2>1. val[x] \in State /\ rdCache[Runs[x]].rd \in Nat
    BY <1>5 DEF CachedReading, Loading, StateTypeOK
  <2>2. [val[x] EXCEPT !.v.rd = rdCache[Runs[x]].rd]
          = [v |-> [pol |-> val[x].v.pol, rd |-> rdCache[Runs[x]].rd], raced |-> val[x].raced]
    BY <2>1 DEF State, Version
  <2>3. [val[x] EXCEPT !.v.rd = rdCache[Runs[x]].rd] \in State
    BY <2>1, <2>2, VersionFacts DEF State
  <2> QED BY <1>1, <1>5, <2>3 DEF CachedReading, StateTypeOK
<1>6. ASSUME NEW x \in Reader, QueryReading(x) PROVE StateTypeOK' /\ Loading'
  <2>1. val[x] \in State
    BY <1>6 DEF QueryReading, Loading, StateTypeOK
  <2>2. val'[x] = [v |-> [pol |-> val[x].v.pol, rd |-> db.rd], raced |-> val[x].raced]
    BY <1>6, <2>1 DEF QueryReading, StateTypeOK, State, Version
  <2>3. val'[x] \in State
    BY <2>1, <2>2, VersionFacts DEF State, StateTypeOK
  <2> QED BY <1>6, <2>3, ZenonT(30) DEF QueryReading, StateTypeOK, Loading
<1>7. ASSUME NEW x \in Reader, Fill(x) PROVE StateTypeOK' /\ Loading'
  <2>1. val[x] \in State
    BY <1>7 DEF Fill, Loading, StateTypeOK
  <2>2. [rd |-> val[x].v.rd, ttl |-> ReadingTtl] \in [rd : Nat, ttl : 1..ReadingTtl]
    BY <2>1, VersionFacts
  <2>3. rdCache' \in [Replica -> [rd : Nat, ttl : 1..ReadingTtl] \cup {NoEntry}]
    BY <1>7, <2>2 DEF Fill, StateTypeOK
  <2> QED BY <1>1, <1>7, <2>1, <2>3 DEF Fill
<1>8. ASSUME NEW x \in Reader, Fail(x) PROVE StateTypeOK' /\ Loading'
  BY <1>8 DEF Fail, StateTypeOK, Loading
<1>9. ASSUME NEW r \in Replica, SetL2(r) PROVE StateTypeOK' /\ Loading'
  BY <1>9 DEF SetL2, StateTypeOK, Loading
<1>10. ASSUME NEW r \in Replica, NEW path \in Path, Commit(r, path)
       PROVE  StateTypeOK' /\ Loading'
  <2>1. db' = [pol |-> db.pol + 1, rd |-> db.rd] /\ db'.pol \in Nat
    BY <1>10 DEF Commit, StateTypeOK, Version
  <2>2. db' \in Version
    BY <2>1, VersionFacts DEF StateTypeOK
  <2> QED BY <1>10, <2>2 DEF Commit, StateTypeOK, Loading
<1>11. ASSUME NEW rs \in SUBSET Replica, DropL1(rs)
       PROVE  l1' \in [Replica -> Entry \cup {NoEntry}] /\ inFlight' \in [Replica -> BOOLEAN]
  BY <1>11 DEF DropL1, StateTypeOK
<1>12. ASSUME NEW r \in Replica, AfterCommit(r) PROVE StateTypeOK' /\ Loading'
  <2>1. Dropped(r) \in SUBSET Replica
    BY DEF Dropped
  <2>2. inbox' \in [Replica -> BOOLEAN]
    BY <1>12 DEF AfterCommit, StateTypeOK
  <2>3. wpc' \in [Replica -> Path \cup {"idle", "del", "publish", "reading"}]
    BY <1>12 DEF AfterCommit, StateTypeOK
  <2> QED BY <1>11, <1>12, <2>1, <2>2, <2>3 DEF AfterCommit, StateTypeOK, Loading
<1>13. ASSUME NEW r \in Replica, Del(r) PROVE StateTypeOK' /\ Loading'
  <2>1. \A s \in State \cup {NoEntry} : Raced(s) \in State \cup {NoEntry}
    OBVIOUS
  <2>2. \A s \in State \cup {NoEntry} : Raced(s) = NoEntry => s = NoEntry
    OBVIOUS
  <2> QED BY <1>13, <2>1, <2>2 DEF Del, StateTypeOK, Loading
<1>14. ASSUME NEW r \in Replica, Publish(r) PROVE StateTypeOK' /\ Loading'
  <2>1. inbox' \in [Replica -> BOOLEAN]
    BY <1>14, Zenon DEF Publish, StateTypeOK
  <2> QED BY <1>14, <2>1, Zenon DEF Publish, StateTypeOK, Loading
<1>15. ASSUME NEW r \in Replica, Receive(r) PROVE StateTypeOK' /\ Loading'
  <2>1. \A s \in State \cup {NoEntry} : Raced(s) \in State \cup {NoEntry}
    OBVIOUS
  <2>2. \A s \in State \cup {NoEntry} : Raced(s) = NoEntry => s = NoEntry
    OBVIOUS
  <2>3. l1' \in [Replica -> Entry \cup {NoEntry}] /\ inFlight' \in [Replica -> BOOLEAN]
    BY <1>11, <1>15 DEF Receive, StateTypeOK
  <2>4. inbox' \in [Replica -> BOOLEAN]
    BY <1>15 DEF Receive, StateTypeOK
  <2>5. val' \in [Reader -> State \cup {NoEntry}]
    BY <1>15, <2>1 DEF Receive, StateTypeOK
  <2>6. Loading'
    BY <1>15, <2>2 DEF Receive, Loading, StateTypeOK
  <2> QED BY <1>15, <2>3, <2>4, <2>5, <2>6 DEF Receive, StateTypeOK
<1>16. ASSUME NEW r \in Replica, CommitReading(r) PROVE StateTypeOK' /\ Loading'
  <2>1. db' = [pol |-> db.pol, rd |-> db.rd + 1] /\ db'.rd \in Nat
    BY <1>16 DEF CommitReading, StateTypeOK, Version
  <2>2. db' \in Version
    BY <2>1, VersionFacts DEF StateTypeOK
  <2> QED BY <1>16, <2>2 DEF CommitReading, StateTypeOK, Loading
<1>17. ASSUME NEW r \in Replica, DropReading(r) PROVE StateTypeOK' /\ Loading'
  BY <1>17 DEF DropReading, StateTypeOK, Loading
<1>18. ASSUME NEW r \in Replica, Crash(r) PROVE StateTypeOK' /\ Loading'
  <2>1. l1' \in [Replica -> Entry \cup {NoEntry}] /\ inFlight' \in [Replica -> BOOLEAN]
    BY <1>11, <1>18 DEF Crash
  <2>2. inbox' \in [Replica -> BOOLEAN] /\ sets' \in [Replica -> State \cup {NoEntry}]
    BY <1>18 DEF Crash, StateTypeOK
  <2> QED BY <1>18, <2>1, <2>2 DEF Crash, StateTypeOK, Loading
<1>19. CASE StateTick
  <2>1. \A e \in Entry \cup {NoEntry} : Age(e) \in Entry \cup {NoEntry}
    BY AgeFacts
  <2>2. \A e \in [rd : Nat, ttl : 1..ReadingTtl] \cup {NoEntry} :
            Age(e) \in [rd : Nat, ttl : 1..ReadingTtl] \cup {NoEntry}
    BY AgeFacts
  <2>3. since' \in 0..StaleHorizon
    BY <1>19 DEF StateTick, StateTypeOK
  <2> QED BY <1>19, <2>1, <2>2, <2>3 DEF StateTick, StateTypeOK, Loading
<1> QED BY <1>2, <1>3, <1>4, <1>5, <1>6, <1>7, <1>8, <1>9, <1>10, <1>12, <1>13, <1>14,
           <1>15, <1>16, <1>17, <1>18, <1>19 DEF StateNext

-----------------------------------------------------------------------------
(* How old a state can be                                                  *)

\* The policy, and the reading, of a version can be old only for so long after
\* a write.
PolAge(v, n) == v.pol # db.pol => since <= n
RdAge(d, n) == d # db.rd => since <= n

\* How long after a write a load under way, a SET on its way, an entry of Redis, a
\* load that found it, and an entry of a memory may hold an old policy: each bound
\* is the one before and the time spent there.
Sent(a) == MaxWait + a
InRedis(t) == 2 * MaxWait + Ttl - t
Found(a) == 2 * MaxWait + Ttl - 1 + a
InMemory(t) == 3 * MaxWait + 2 * Ttl - 1 - t

\* An old reading was in the reading cache before it was loaded, and read before that.
Kept(t) == MaxWait + ReadingTtl - t
Late(n) == n + ReadingTtl - 1

EntryAges ==
    /\ l2 # NoEntry => /\ PolAge(l2.s.v, InRedis(l2.ttl))
                       /\ RdAge(l2.s.v.rd, Late(InRedis(l2.ttl)))
    /\ \A r \in Replica : l1[r] # NoEntry =>
        /\ PolAge(l1[r].s.v, InMemory(l1[r].ttl))
        /\ RdAge(l1[r].s.v.rd, Late(InMemory(l1[r].ttl)))
    /\ \A r \in Replica : rdCache[r] # NoEntry => RdAge(rdCache[r].rd, Kept(rdCache[r].ttl))

LoadAges ==
    /\ \A r \in Replica : sets[r] # NoEntry =>
        PolAge(sets[r].v, Sent(setAge[r])) /\ RdAge(sets[r].v.rd, Late(Sent(setAge[r])))
    /\ \A x \in Reader :
        /\ pc[x] = "got" => /\ PolAge(val[x].v, Found(loadAge[x]))
                            /\ RdAge(val[x].v.rd, Late(Found(loadAge[x])))
        /\ pc[x] \in {"look", "fill"} => PolAge(val[x].v, loadAge[x])
        /\ pc[x] = "fill" => RdAge(val[x].v.rd, loadAge[x])

Aged == EntryAges /\ LoadAges

\* The bounds grow along the way of a state, and a tick moves each by one.
LEMMA BoundFacts ==
    /\ \A a \in 0..MaxWait :
        /\ a \in Nat /\ a <= MaxWait
        /\ Sent(a) \in Nat /\ Found(a) \in Nat
        /\ Late(Sent(a)) \in Nat /\ Late(Found(a)) \in Nat
        /\ MaxWait <= Sent(a) /\ MaxWait <= Late(Sent(a))
        /\ Late(MaxWait) <= Late(Sent(a))
        /\ Sent(a) <= InRedis(Ttl) /\ Late(Sent(a)) <= Late(InRedis(Ttl))
        /\ Found(a) <= InMemory(Ttl) /\ Late(Found(a)) <= Late(InMemory(Ttl))
        /\ Sent(a + 1) = Sent(a) + 1 /\ Late(Sent(a + 1)) = Late(Sent(a)) + 1
        /\ Found(a + 1) = Found(a) + 1 /\ Late(Found(a + 1)) = Late(Found(a)) + 1
    /\ \A t \in 1..Ttl :
        /\ t \in Nat
        /\ InRedis(t) \in Nat /\ Late(InRedis(t)) \in Nat
        /\ InMemory(t) \in Nat /\ Late(InMemory(t)) \in Nat
        /\ InRedis(t - 1) = InRedis(t) + 1 /\ Late(InRedis(t - 1)) = Late(InRedis(t)) + 1
        /\ InMemory(t - 1) = InMemory(t) + 1
        /\ Late(InMemory(t - 1)) = Late(InMemory(t)) + 1
        /\ InMemory(t) < 2 * Ttl + 3 * MaxWait
        /\ Late(InMemory(t)) < 2 * Ttl + ReadingTtl + 3 * MaxWait
        /\ InRedis(t) < 2 * Ttl + 3 * MaxWait
        /\ Late(InRedis(t)) < 2 * Ttl + ReadingTtl + 3 * MaxWait
        /\ \A a \in 0..MaxWait :
            InRedis(t) <= Found(a) /\ Late(InRedis(t)) <= Late(Found(a))
    /\ \A t \in 1..ReadingTtl :
        /\ Kept(t) \in Nat /\ Kept(t) <= Late(MaxWait) /\ Kept(t - 1) = Kept(t) + 1
    /\ MaxWait <= InMemory(Ttl) /\ Late(MaxWait) <= Late(InMemory(Ttl))
    /\ MaxWait <= Late(MaxWait) /\ MaxWait <= Kept(ReadingTtl)
    /\ InMemory(Ttl) \in Nat /\ Late(InMemory(Ttl)) \in Nat
    /\ InRedis(Ttl) \in Nat /\ Late(InRedis(Ttl)) \in Nat
    /\ Late(MaxWait) \in Nat /\ Kept(ReadingTtl) \in Nat /\ MaxWait \in Nat
BY StateAssumption, SMTT(30) DEF Sent, InRedis, Found, InMemory, Kept, Late

\* A bound may be relaxed.
LEMMA Relax ==
    ASSUME since \in Int, NEW n \in Int, NEW m \in Int, n <= m
    PROVE  /\ \A v : PolAge(v, n) => PolAge(v, m)
           /\ \A d : RdAge(d, n) => RdAge(d, m)
BY DEF PolAge, RdAge

\* The ages bound what StaleStateExpires bounds.
LEMMA AgedExpires == StateTypeOK /\ EntryAges => StaleStateExpires
<1> SUFFICES ASSUME StateTypeOK, EntryAges, NEW e \in Cached
             PROVE  /\ e.s.v.pol # db.pol => since < 2 * Ttl + 3 * MaxWait
                    /\ e.s.v.rd # db.rd => since < 2 * Ttl + ReadingTtl + 3 * MaxWait
  BY DEF StaleStateExpires
<1> USE StateAssumption
<1>1. e # NoEntry /\ (e = l2 \/ \E r \in Replica : e = l1[r])
  BY DEF Cached
<1>2. since \in Int
  BY StateConstants DEF StateTypeOK
<1>3. e.ttl \in 1..Ttl
  BY <1>1 DEF StateTypeOK, Entry
<1>4. /\ InMemory(e.ttl) \in Nat /\ Late(InMemory(e.ttl)) \in Nat
      /\ InRedis(e.ttl) \in Nat /\ Late(InRedis(e.ttl)) \in Nat
      /\ InMemory(e.ttl) < 2 * Ttl + 3 * MaxWait
      /\ Late(InMemory(e.ttl)) < 2 * Ttl + ReadingTtl + 3 * MaxWait
      /\ InRedis(e.ttl) < 2 * Ttl + 3 * MaxWait
      /\ Late(InRedis(e.ttl)) < 2 * Ttl + ReadingTtl + 3 * MaxWait
  BY <1>3, BoundFacts, Zenon
<1>5. \/ PolAge(e.s.v, InRedis(e.ttl)) /\ RdAge(e.s.v.rd, Late(InRedis(e.ttl)))
      \/ PolAge(e.s.v, InMemory(e.ttl)) /\ RdAge(e.s.v.rd, Late(InMemory(e.ttl)))
  <2>1. CASE e = l2
    BY <1>1, <2>1, Zenon DEF EntryAges
  <2>2. ASSUME NEW r \in Replica, e = l1[r]
        PROVE  PolAge(e.s.v, InMemory(e.ttl)) /\ RdAge(e.s.v.rd, Late(InMemory(e.ttl)))
    BY <1>1, <2>2 DEF EntryAges
  <2> QED BY <1>1, <2>1, <2>2, Zenon
<1> QED BY <1>2, <1>4, <1>5 DEF PolAge, RdAge

Written == since = 0

\* A write starts the count again, which is within every bound.
LEMMA JustWritten == StateTypeOK /\ Loading /\ Written => Aged
<1> SUFFICES ASSUME StateTypeOK, Loading, since = 0 PROVE Aged
  BY DEF Written
<1> USE StateAssumption
<1>0. \A n \in Nat : (\A v : PolAge(v, n)) /\ (\A d : RdAge(d, n))
  BY DEF PolAge, RdAge
<1>1. \A e \in Entry : e.ttl \in 1..Ttl
  BY DEF Entry
<1>2. EntryAges
  <2>1. l2 # NoEntry => l2.ttl \in 1..Ttl
    BY <1>1 DEF StateTypeOK
  <2>2. \A r \in Replica : l1[r] # NoEntry => l1[r].ttl \in 1..Ttl
    BY <1>1 DEF StateTypeOK
  <2>3. \A r \in Replica : rdCache[r] # NoEntry => rdCache[r].ttl \in 1..ReadingTtl
    BY DEF StateTypeOK
  <2> QED BY <1>0, <2>1, <2>2, <2>3, BoundFacts, ZenonT(30) DEF EntryAges
<1>3. LoadAges
  <2>1. /\ \A r \in Replica : setAge[r] \in 0..MaxWait
        /\ \A x \in Reader : loadAge[x] \in 0..MaxWait
    BY DEF StateTypeOK
  <2> QED BY <1>0, <2>1, BoundFacts, ZenonT(30) DEF LoadAges
<1> QED BY <1>2, <1>3 DEF Aged

\* The ages, action by action: a tick uses up what it adds.
LEMMA StateAged ==
    StateTypeOK /\ Loading /\ Aged /\ StateTypeOK' /\ Loading' /\ StateNext => Aged'
<1> SUFFICES ASSUME StateTypeOK, Loading, Aged, StateTypeOK', Loading', StateNext
             PROVE  Aged'
  OBVIOUS
<1> USE StateAssumption, StateConstants
<1>0. /\ since \in Int /\ since' \in Int
      /\ \A r \in Replica : setAge[r] \in 0..MaxWait /\ setAge'[r] \in 0..MaxWait
      /\ \A x \in Reader : loadAge[x] \in 0..MaxWait /\ loadAge'[x] \in 0..MaxWait
  BY DEF StateTypeOK
<1>1. ASSUME NEW x \in Reader, NEW s \in State, StoreState(x, s),
             UNCHANGED <<db, l2, since, setAge>>,
             PolAge(s.v, MaxWait), RdAge(s.v.rd, Late(MaxWait)),
             \A r \in Replica : rdCache'[r] # NoEntry =>
                RdAge(rdCache'[r].rd, Kept(rdCache'[r].ttl))
      PROVE  Aged'
  <2>1. PolAge(s.v, InMemory(Ttl)) /\ RdAge(s.v.rd, Late(InMemory(Ttl)))
    BY <1>0, <1>1, BoundFacts, Relax
  <2>2. \A a \in 0..MaxWait : PolAge(s.v, Sent(a)) /\ RdAge(s.v.rd, Late(Sent(a)))
    BY <1>0, <1>1, BoundFacts, Relax
  <2>3. \A r \in Replica : r # Runs[x] => l1'[r] = l1[r] /\ sets'[r] = sets[r]
    BY <1>1 DEF StoreState, StateTypeOK
  <2>4. l1'[Runs[x]] = Held(s) /\ sets'[Runs[x]] = s
    BY <1>1, ZenonT(60) DEF StoreState, StateTypeOK
  <2>5. \A r \in Replica : l1'[r] # NoEntry =>
            /\ PolAge(l1'[r].s.v, InMemory(l1'[r].ttl))
            /\ RdAge(l1'[r].s.v.rd, Late(InMemory(l1'[r].ttl)))
    BY <2>1, <2>3, <2>4, SMTT(60) DEF Aged, EntryAges
  <2>6. EntryAges'
    BY <1>1, <2>5, Zenon DEF Aged, EntryAges, PolAge, RdAge
  <2>7. \A y \in Reader : y # x => pc'[y] = pc[y] /\ val'[y] = val[y] /\ loadAge'[y] = loadAge[y]
    BY <1>1 DEF StoreState, StateTypeOK
  <2>8. pc'[x] = "idle"
    <3>1. pc' = [pc EXCEPT ![x] = "idle"] /\ pc \in [Reader -> {"idle", "got", "miss", "look", "fill"}]
      BY <1>1, Zenon DEF StoreState, StateTypeOK
    <3> QED BY <3>1, Zenon
  <2>9. LoadAges'
    BY <1>0, <1>1, <2>2, <2>3, <2>4, <2>7, <2>8, SMTT(60) DEF Aged, LoadAges, PolAge, RdAge
  <2> QED BY <2>6, <2>9 DEF Aged
<1>2. ASSUME NEW x \in Reader, UNCHANGED <<db, l1, l2, rdCache, sets, since, setAge>>,
             \A y \in Reader : y # x => /\ pc'[y] = pc[y] /\ val'[y] = val[y]
                                       /\ loadAge'[y] = loadAge[y],
             pc'[x] = "got" => /\ PolAge(val'[x].v, Found(loadAge'[x]))
                               /\ RdAge(val'[x].v.rd, Late(Found(loadAge'[x]))),
             pc'[x] \in {"look", "fill"} => PolAge(val'[x].v, loadAge'[x]),
             pc'[x] = "fill" => RdAge(val'[x].v.rd, loadAge'[x])
      PROVE  Aged'
  <2>1. EntryAges'
    BY <1>2, Zenon DEF Aged, EntryAges, PolAge, RdAge
  <2>2. LoadAges'
    BY <1>2 DEF Aged, LoadAges, PolAge, RdAge
  <2> QED BY <2>1, <2>2, Zenon DEF Aged
<1>3. ASSUME NEW x \in Reader, ReadState(x) PROVE Aged'
  <2>1. \A y \in Reader : y # x => pc'[y] = pc[y] /\ val'[y] = val[y]
    BY <1>3 DEF ReadState, StateTypeOK
  <2>2. CASE l2 # NoEntry /\ pc' = [pc EXCEPT ![x] = "got"] /\ val' = [val EXCEPT ![x] = l2.s]
    <3>1. pc'[x] = "got" /\ val'[x] = l2.s /\ l2.ttl \in 1..Ttl
      BY <2>2 DEF StateTypeOK, Entry
    <3>2. PolAge(l2.s.v, InRedis(l2.ttl)) /\ RdAge(l2.s.v.rd, Late(InRedis(l2.ttl)))
      BY <2>2, Zenon DEF Aged, EntryAges
    <3>3. PolAge(l2.s.v, Found(loadAge[x])) /\ RdAge(l2.s.v.rd, Late(Found(loadAge[x])))
      BY <1>0, <3>1, <3>2, BoundFacts, Relax
    <3> QED BY <1>2, <1>3, <2>1, <3>1, <3>3, Zenon DEF ReadState
  <2>3. CASE /\ pc' = [pc EXCEPT ![x] = "miss"]
             /\ val' = [val EXCEPT ![x] = [v |-> db, raced |-> FALSE]]
    <3>1. pc'[x] = "miss"
      BY <2>3 DEF StateTypeOK
    <3> QED BY <1>2, <1>3, <2>1, <3>1 DEF ReadState
  <2> QED BY <1>3, <2>2, <2>3, Zenon DEF ReadState
<1>4. ASSUME NEW x \in Reader, Promote(x) PROVE Aged'
  <2>1. val[x] \in State
    BY <1>4 DEF Promote, Loading, StateTypeOK
  <2>2. \A r \in Replica : r # Runs[x] => l1'[r] = l1[r]
    BY <1>4, ZenonT(30) DEF Promote, StateTypeOK
  <2>3. l1'[Runs[x]] = Held(val[x])
    BY <1>4, ZenonT(60) DEF Promote, StateTypeOK
  <2>4. PolAge(val[x].v, Found(loadAge[x])) /\ RdAge(val[x].v.rd, Late(Found(loadAge[x])))
    BY <1>4, Zenon DEF Promote, Aged, LoadAges
  <2>5. PolAge(val[x].v, InMemory(Ttl)) /\ RdAge(val[x].v.rd, Late(InMemory(Ttl)))
    BY <1>0, <2>4, BoundFacts, Relax
  <2>6. \A r \in Replica : l1'[r] # NoEntry =>
            /\ PolAge(l1'[r].s.v, InMemory(l1'[r].ttl))
            /\ RdAge(l1'[r].s.v.rd, Late(InMemory(l1'[r].ttl)))
    BY <2>1, <2>2, <2>3, <2>5, SMTT(90) DEF Aged, EntryAges
  <2>7. EntryAges'
    BY <1>4, <2>6, Zenon DEF Promote, Aged, EntryAges, PolAge, RdAge
  <2>8. LoadAges'
    BY <1>4, SMTT(60) DEF Promote, Aged, LoadAges, PolAge, RdAge, StateTypeOK
  <2> QED BY <2>7, <2>8 DEF Aged
<1>5. ASSUME NEW x \in Reader, QueryPolicy(x) PROVE Aged'
  <2>1. val[x] \in State
    BY <1>5 DEF QueryPolicy, Loading, StateTypeOK
  <2>2. val'[x].v.pol = db.pol /\ pc'[x] = "look"
    BY <1>5, <2>1 DEF QueryPolicy, StateTypeOK, State, Version
  <2>3. \A y \in Reader : y # x => pc'[y] = pc[y] /\ val'[y] = val[y]
    BY <1>5 DEF QueryPolicy, StateTypeOK
  <2>4. UNCHANGED <<db, l1, l2, rdCache, sets, since, setAge, loadAge>>
    BY <1>5, Zenon DEF QueryPolicy
  <2> QED BY <1>2, <2>2, <2>3, <2>4 DEF PolAge
<1>6. ASSUME NEW x \in Reader, CachedReading(x) PROVE Aged'
  <2> DEFINE s == [v |-> [pol |-> val[x].v.pol, rd |-> rdCache[Runs[x]].rd],
                   raced |-> val[x].raced]
  <2>1. val[x] \in State /\ rdCache[Runs[x]] \in [rd : Nat, ttl : 1..ReadingTtl]
    BY <1>6 DEF CachedReading, Loading, StateTypeOK
  <2>2. [val[x] EXCEPT !.v.rd = rdCache[Runs[x]].rd] = s
    BY <2>1 DEF State, Version
  <2>3. s \in State
    BY <2>1, VersionFacts DEF State
  <2>4. PolAge(val[x].v, loadAge[x]) /\ RdAge(rdCache[Runs[x]].rd, Kept(rdCache[Runs[x]].ttl))
    BY <1>6 DEF CachedReading, Aged, LoadAges, EntryAges
  <2>5. s.v.pol = val[x].v.pol /\ s.v.rd = rdCache[Runs[x]].rd
    BY Zenon
  <2>6. PolAge(s.v, MaxWait) /\ RdAge(s.v.rd, Late(MaxWait))
    <3>1. PolAge(s.v, loadAge[x]) /\ RdAge(s.v.rd, Kept(rdCache[Runs[x]].ttl))
      BY <2>4, <2>5, Zenon DEF PolAge
    <3>2. rdCache[Runs[x]].ttl \in 1..ReadingTtl
      BY <2>1
    <3> HIDE DEF s
    <3> QED BY <1>0, <3>1, <3>2, BoundFacts, Relax
  <2>7. StoreState(x, s)
    BY <1>6, <2>2 DEF CachedReading
  <2>8. \A r \in Replica : rdCache'[r] # NoEntry =>
            RdAge(rdCache'[r].rd, Kept(rdCache'[r].ttl))
    BY <1>6, Zenon DEF CachedReading, Aged, EntryAges
  <2> HIDE DEF s
  <2> QED BY <1>1, <1>6, <2>3, <2>6, <2>7, <2>8 DEF CachedReading
<1>7. ASSUME NEW x \in Reader, QueryReading(x) PROVE Aged'
  <2>1. val[x] \in State
    BY <1>7 DEF QueryReading, Loading, StateTypeOK
  <2>2. val'[x].v.rd = db.rd /\ val'[x].v.pol = val[x].v.pol /\ pc'[x] = "fill"
    BY <1>7, <2>1 DEF QueryReading, StateTypeOK, State, Version
  <2>3. \A y \in Reader : y # x => pc'[y] = pc[y] /\ val'[y] = val[y]
    BY <1>7 DEF QueryReading, StateTypeOK
  <2>4. PolAge(val[x].v, loadAge[x])
    BY <1>7, Zenon DEF QueryReading, Aged, LoadAges
  <2>5. UNCHANGED <<db, l1, l2, rdCache, sets, since, setAge, loadAge>>
    BY <1>7, Zenon DEF QueryReading
  <2> QED BY <1>2, <2>2, <2>3, <2>4, <2>5 DEF PolAge, RdAge
<1>8. ASSUME NEW x \in Reader, Fill(x) PROVE Aged'
  <2>1. val[x] \in State /\ PolAge(val[x].v, loadAge[x]) /\ RdAge(val[x].v.rd, loadAge[x])
    BY <1>8, SMTT(60) DEF Fill, Loading, StateTypeOK, Aged, LoadAges
  <2>2. /\ PolAge(val[x].v, MaxWait) /\ RdAge(val[x].v.rd, MaxWait)
        /\ RdAge(val[x].v.rd, Late(MaxWait)) /\ RdAge(val[x].v.rd, Kept(ReadingTtl))
    <3>1. PolAge(val[x].v, MaxWait) /\ RdAge(val[x].v.rd, MaxWait)
      BY <1>0, <2>1, BoundFacts, Relax, SMTT(60)
    <3> QED BY <1>0, <3>1, BoundFacts, Relax
  <2>3. rdCache'[Runs[x]].rd = val[x].v.rd /\ rdCache'[Runs[x]].ttl = ReadingTtl
    BY <1>8, ZenonT(60) DEF Fill, StateTypeOK
  <2>4. \A r \in Replica : r # Runs[x] => rdCache'[r] = rdCache[r]
    BY <1>8, ZenonT(60) DEF Fill, StateTypeOK
  <2>5. \A r \in Replica : rdCache'[r] # NoEntry =>
            RdAge(rdCache'[r].rd, Kept(rdCache'[r].ttl))
    BY <2>2, <2>3, <2>4 DEF Aged, EntryAges
  <2> QED BY <1>1, <1>8, <2>1, <2>2, <2>5, Zenon DEF Fill
<1>9. ASSUME NEW x \in Reader, Fail(x) PROVE Aged'
  BY <1>2, <1>9 DEF Fail, StateTypeOK
<1>10. ASSUME NEW r \in Replica, SetL2(r) PROVE Aged'
  <2>1. /\ sets[r] \in State
        /\ PolAge(sets[r].v, Sent(setAge[r])) /\ RdAge(sets[r].v.rd, Late(Sent(setAge[r])))
    BY <1>10 DEF SetL2, StateTypeOK, Aged, LoadAges
  <2>2. PolAge(sets[r].v, InRedis(Ttl)) /\ RdAge(sets[r].v.rd, Late(InRedis(Ttl)))
    BY <1>0, <2>1, BoundFacts, Relax
  <2>3. l2' # NoEntry => /\ PolAge(l2'.s.v, InRedis(l2'.ttl))
                         /\ RdAge(l2'.s.v.rd, Late(InRedis(l2'.ttl)))
    BY <1>10, <2>1, <2>2, ZenonT(30) DEF SetL2, Aged, EntryAges
  <2>4. EntryAges'
    BY <1>10, <2>3, Zenon DEF SetL2, Aged, EntryAges, PolAge, RdAge
  <2>5. LoadAges'
    BY <1>10, SMTT(60) DEF SetL2, Aged, LoadAges, PolAge, RdAge, StateTypeOK
  <2> QED BY <2>4, <2>5, Zenon DEF Aged
<1>11. ASSUME NEW r \in Replica, NEW path \in Path, Commit(r, path) PROVE Aged'
  <2>1. Written'
    BY <1>11 DEF Commit, Written
  <2> QED BY <2>1, JustWritten, PTL
<1>12. ASSUME UNCHANGED <<db, since>>, l2' \in {l2, NoEntry},
              \A r \in Replica : l1'[r] \in {l1[r], NoEntry},
              \A r \in Replica : rdCache'[r] \in {rdCache[r], NoEntry},
              \A r \in Replica :
                \/ sets'[r] = NoEntry
                \/ sets'[r] \in {sets[r], Raced(sets[r])} /\ setAge'[r] = setAge[r],
              \A x \in Reader :
                \/ pc'[x] = "idle"
                \/ /\ pc'[x] = pc[x] /\ val'[x] \in {val[x], Raced(val[x])}
                   /\ loadAge'[x] = loadAge[x]
       PROVE  Aged'
  <2>1. EntryAges'
    BY <1>12, Zenon DEF Aged, EntryAges, PolAge, RdAge
  <2>2. \A r \in Replica : sets'[r] # NoEntry =>
            sets[r] # NoEntry /\ sets'[r].v = sets[r].v /\ setAge'[r] = setAge[r]
    BY <1>12 DEF StateTypeOK
  <2>3. \A x \in Reader : pc'[x] # "idle" =>
            pc'[x] = pc[x] /\ val'[x].v = val[x].v /\ loadAge'[x] = loadAge[x]
    <3>1. \A s \in State : Raced(s).v = s.v
      OBVIOUS
    <3>2. \A x \in Reader : pc[x] # "idle" => val[x] \in State
      BY DEF StateTypeOK, Loading
    <3> QED BY <1>12, <3>1, <3>2
  <2>4. LoadAges'
    BY <1>12, <2>2, <2>3 DEF Aged, LoadAges, PolAge, RdAge
  <2> QED BY <2>1, <2>4, Zenon DEF Aged
<1>13. ASSUME NEW rs, DropL1(rs) PROVE \A r \in Replica : l1'[r] \in {l1[r], NoEntry}
  BY <1>13, Zenon DEF DropL1
<1>14. ASSUME NEW r \in Replica, AfterCommit(r) PROVE Aged'
  BY <1>12, <1>13, <1>14, Zenon DEF AfterCommit
<1>15. ASSUME NEW r \in Replica, Del(r) PROVE Aged'
  BY <1>12, <1>15, ZenonT(30) DEF Del
<1>16. ASSUME NEW r \in Replica, Publish(r) PROVE Aged'
  BY <1>12, <1>16, Zenon DEF Publish
<1>17. ASSUME NEW r \in Replica, Receive(r) PROVE Aged'
  <2>1. \A q \in Replica : l1'[q] \in {l1[q], NoEntry}
    BY <1>13, <1>17 DEF Receive
  <2> QED BY <1>12, <1>17, <2>1, Zenon DEF Receive
<1>18. ASSUME NEW r \in Replica, CommitReading(r) PROVE Aged'
  <2>1. Written'
    BY <1>18, Zenon DEF CommitReading, Written
  <2> QED BY <2>1, JustWritten, PTL
<1>19. ASSUME NEW r \in Replica, DropReading(r) PROVE Aged'
  <2>1. \A q \in Replica : rdCache'[q] \in {rdCache[q], NoEntry}
    BY <1>19 DEF DropReading, StateTypeOK
  <2> QED BY <1>12, <1>19, <2>1, Zenon DEF DropReading
<1>20. ASSUME NEW r \in Replica, Crash(r) PROVE Aged'
  <2>1. \A q \in Replica : l1'[q] \in {l1[q], NoEntry}
    BY <1>13, <1>20, Zenon DEF Crash
  <2> QED BY <1>12, <1>20, <2>1, SMTT(60) DEF Crash, StateTypeOK
<1>21. CASE StateTick
  <2>1. since' <= since + 1 /\ db' = db
    BY <1>0, <1>21 DEF StateTick
  <2>2. ASSUME NEW e \in Entry \cup {NoEntry}, Age(e) # NoEntry
        PROVE  e # NoEntry /\ Age(e).s = e.s /\ Age(e).ttl = e.ttl - 1 /\ e.ttl \in 1..Ttl
    BY <2>2, AgeFacts DEF Entry
  <2>3. ASSUME NEW e \in [rd : Nat, ttl : 1..ReadingTtl] \cup {NoEntry}, Age(e) # NoEntry
        PROVE  /\ e # NoEntry /\ Age(e).rd = e.rd /\ Age(e).ttl = e.ttl - 1
               /\ e.ttl \in 1..ReadingTtl
    BY <2>3, AgeFacts
  <2>4. ASSUME NEW n \in Int
        PROVE  /\ \A v, w : w = v /\ PolAge(v, n) => (w.pol # db'.pol => since' <= n + 1)
               /\ \A d, f : f = d /\ RdAge(d, n) => (f # db'.rd => since' <= n + 1)
    BY <1>0, <2>1 DEF PolAge, RdAge
  <2>5. ASSUME l2' # NoEntry
        PROVE  /\ (l2'.s.v.pol # db'.pol => since' <= InRedis(l2'.ttl))
               /\ (l2'.s.v.rd # db'.rd => since' <= Late(InRedis(l2'.ttl)))
    <3>1. l2' = Age(l2) /\ l2 \in Entry \cup {NoEntry}
      BY <1>21, Zenon DEF StateTick, StateTypeOK
    <3>2. l2 # NoEntry /\ l2'.s = l2.s /\ l2'.ttl = l2.ttl - 1 /\ l2.ttl \in 1..Ttl
      BY <2>2, <2>5, <3>1
    <3>3. PolAge(l2.s.v, InRedis(l2.ttl)) /\ RdAge(l2.s.v.rd, Late(InRedis(l2.ttl)))
      BY <3>2, Zenon DEF Aged, EntryAges
    <3> QED BY <2>4, <3>2, <3>3, BoundFacts
  <2>6. ASSUME NEW r \in Replica, l1'[r] # NoEntry
        PROVE  /\ (l1'[r].s.v.pol # db'.pol => since' <= InMemory(l1'[r].ttl))
               /\ (l1'[r].s.v.rd # db'.rd => since' <= Late(InMemory(l1'[r].ttl)))
    <3>1. l1'[r] = Age(l1[r]) /\ l1[r] \in Entry \cup {NoEntry}
      BY <1>21 DEF StateTick, StateTypeOK
    <3>2. /\ l1[r] # NoEntry /\ l1'[r].s = l1[r].s
          /\ l1'[r].ttl = l1[r].ttl - 1 /\ l1[r].ttl \in 1..Ttl
      BY <2>2, <2>6, <3>1, Zenon
    <3>3. PolAge(l1[r].s.v, InMemory(l1[r].ttl)) /\ RdAge(l1[r].s.v.rd, Late(InMemory(l1[r].ttl)))
      BY <3>2, Zenon DEF Aged, EntryAges
    <3> QED BY <2>4, <3>2, <3>3, BoundFacts
  <2>7. ASSUME NEW r \in Replica, rdCache'[r] # NoEntry
        PROVE  rdCache'[r].rd # db'.rd => since' <= Kept(rdCache'[r].ttl)
    <3>1. /\ rdCache'[r] = Age(rdCache[r])
          /\ rdCache[r] \in [rd : Nat, ttl : 1..ReadingTtl] \cup {NoEntry}
      BY <1>21, Zenon DEF StateTick, StateTypeOK
    <3>2. /\ rdCache[r] # NoEntry /\ rdCache'[r].rd = rdCache[r].rd
          /\ rdCache'[r].ttl = rdCache[r].ttl - 1 /\ rdCache[r].ttl \in 1..ReadingTtl
      BY <2>3, <2>7, <3>1, Zenon
    <3>3. RdAge(rdCache[r].rd, Kept(rdCache[r].ttl))
      BY <3>2, Zenon DEF Aged, EntryAges
    <3> QED BY <2>4, <3>2, <3>3, BoundFacts
  <2>8. EntryAges'
    BY <2>5, <2>6, <2>7, Zenon DEF EntryAges, PolAge, RdAge
  <2>9. ASSUME NEW r \in Replica, sets'[r] # NoEntry
        PROVE  /\ (sets'[r].v.pol # db'.pol => since' <= Sent(setAge'[r]))
               /\ (sets'[r].v.rd # db'.rd => since' <= Late(Sent(setAge'[r])))
    <3>1. sets'[r] = sets[r] /\ setAge'[r] = setAge[r] + 1
      BY <1>21, <2>9 DEF StateTick, StateTypeOK
    <3>2. PolAge(sets[r].v, Sent(setAge[r])) /\ RdAge(sets[r].v.rd, Late(Sent(setAge[r])))
      BY <2>9, <3>1, Zenon DEF Aged, LoadAges
    <3> QED BY <1>0, <2>4, <3>1, <3>2, BoundFacts
  <2>10. ASSUME NEW x \in Reader, pc'[x] # "idle"
         PROVE  /\ pc'[x] = "got" =>
                    /\ (val'[x].v.pol # db'.pol => since' <= Found(loadAge'[x]))
                    /\ (val'[x].v.rd # db'.rd => since' <= Late(Found(loadAge'[x])))
                /\ pc'[x] \in {"look", "fill"} =>
                    (val'[x].v.pol # db'.pol => since' <= loadAge'[x])
                /\ pc'[x] = "fill" => (val'[x].v.rd # db'.rd => since' <= loadAge'[x])
    <3>1. pc'[x] = pc[x] /\ val'[x] = val[x] /\ loadAge'[x] = loadAge[x] + 1
      BY <1>21, <2>10 DEF StateTick, StateTypeOK
    <3>2. loadAge[x] \in 0..MaxWait
      BY <1>0
    <3>3. CASE pc[x] = "got"
      <4>1. PolAge(val[x].v, Found(loadAge[x])) /\ RdAge(val[x].v.rd, Late(Found(loadAge[x])))
        BY <3>3, Zenon DEF Aged, LoadAges
      <4> QED BY <2>4, <3>1, <3>2, <3>3, <4>1, BoundFacts
    <3>4. CASE pc[x] \in {"look", "fill"}
      <4>1. /\ PolAge(val[x].v, loadAge[x])
            /\ pc[x] = "fill" => RdAge(val[x].v.rd, loadAge[x])
        BY <3>4, Zenon DEF Aged, LoadAges
      <4> QED BY <2>4, <3>1, <3>2, <3>4, <4>1
    <3> QED BY <3>1, <3>3, <3>4, Zenon
  <2>11. LoadAges'
    BY <2>9, <2>10, Zenon DEF LoadAges, PolAge, RdAge
  <2> QED BY <2>8, <2>11 DEF Aged
<1> QED BY <1>3, <1>4, <1>5, <1>6, <1>7, <1>8, <1>9, <1>10, <1>11, <1>14, <1>15, <1>16,
           <1>17, <1>18, <1>19, <1>20, <1>21 DEF StateNext

-----------------------------------------------------------------------------
(* What a write of ClaimsService leaves behind                             *)

Quiet == faults = {} /\ others = {}
Ok(s) == s.raced \/ s.v.pol = db.pol

\* A write other than ClaimsService's is on record.
Recorded == \A q \in Replica : wpc[q] \in Path \ {"claims"} => others # {}

\* A write has yet to delete the entry from Redis.
DelDue == \E q \in Replica : wpc[q] \notin {"idle", "reading", "publish"}

\* Without one, an old state outside the memories was being loaded when an
\* entry was deleted; without a write or a message on its way, one in a memory too.
FreshLoads ==
    ~DelDue =>
        /\ l2 # NoEntry => Ok(l2.s)
        /\ \A x \in Reader : val[x] # NoEntry => Ok(val[x])
        /\ \A r \in Replica : sets[r] # NoEntry => Ok(sets[r])
FreshMemory == \A r \in Replica : ~Writing(r) /\ l1[r] # NoEntry => Ok(l1[r].s)

FreshStates == Quiet => FreshLoads /\ FreshMemory

\* FreshStates says what FreshUnlessRaced says, and of the loads too.
LEMMA FreshIsRaced == FreshStates => FreshUnlessRaced
<1> SUFFICES ASSUME FreshLoads, FreshMemory
             PROVE  /\ \A r \in Replica : l1[r] # NoEntry /\ ~Writing(r) =>
                        l1[r].s.raced \/ l1[r].s.v.pol = db.pol
                    /\ l2 # NoEntry /\ (\A r \in Replica : wpc[r] \in {"idle", "reading"}) =>
                        l2.s.raced \/ l2.s.v.pol = db.pol
  BY DEF FreshStates, Quiet, FreshUnlessRaced
<1> QED BY Zenon DEF FreshLoads, FreshMemory, DelDue, Ok

\* A write of another path enters the history as it commits.
LEMMA StateRecorded == StateTypeOK /\ Recorded /\ StateNext => Recorded'
<1> SUFFICES ASSUME StateTypeOK, Recorded, StateNext PROVE Recorded'
  OBVIOUS
<1>1. CASE UNCHANGED <<wpc, others>>
  BY <1>1 DEF Recorded
<1>2. ASSUME NEW r \in Replica, NEW path \in Path, Commit(r, path) PROVE Recorded'
  BY <1>2 DEF Commit, Recorded, StateTypeOK
<1>3. ASSUME NEW r \in Replica, UNCHANGED others,
             \E to \in {"idle", "del", "publish", "reading"} : wpc' = [wpc EXCEPT ![r] = to]
      PROVE  Recorded'
  BY <1>3 DEF Recorded, StateTypeOK, Path
<1>4. ASSUME NEW r \in Replica,
             \/ AfterCommit(r) \/ Del(r) \/ Publish(r) \/ CommitReading(r)
             \/ DropReading(r) \/ Crash(r)
      PROVE  Recorded'
  <2>1. CASE AfterCommit(r)
    BY <1>3, <2>1, Zenon DEF AfterCommit
  <2>2. CASE Del(r)
    BY <1>3, <2>2 DEF Del
  <2> QED BY <1>3, <1>4, <2>1, <2>2 DEF Publish, CommitReading, DropReading, Crash
<1>5. ASSUME NEW x \in Reader,
             \/ ReadState(x) \/ Promote(x) \/ QueryPolicy(x) \/ CachedReading(x)
             \/ QueryReading(x) \/ Fill(x) \/ Fail(x)
      PROVE  UNCHANGED <<wpc, others>>
  BY <1>5 DEF ReadState, Promote, QueryPolicy, CachedReading, QueryReading, Fill, Fail
<1>6. ASSUME NEW r \in Replica, Receive(r) \/ SetL2(r) PROVE UNCHANGED <<wpc, others>>
  BY <1>6 DEF Receive, SetL2
<1>7. StateTick => UNCHANGED <<wpc, others>>
  BY Zenon DEF StateTick
<1> QED BY <1>1, <1>2, <1>4, <1>5, <1>6, <1>7 DEF StateNext

\* FreshStates, action by action: the deletion from Redis marks every load it overtakes,
\* and the message every load of its replica.
LEMMA StateFresh ==
    StateTypeOK /\ Loading /\ Recorded /\ FreshStates /\ StateTypeOK' /\ StateNext => FreshStates'
<1> SUFFICES ASSUME StateTypeOK, Loading, Recorded, FreshStates, StateTypeOK', StateNext, Quiet'
             PROVE  FreshLoads' /\ FreshMemory'
  BY DEF FreshStates
<1> USE StateAssumption, StateConstants
<1>1. faults = {} /\ others' = {}
  <2>1. faults' = faults
    BY ZenonT(30) DEF StateNext, ReadState, Promote, QueryPolicy, CachedReading, QueryReading, Fill, Fail,
           Commit, AfterCommit, Del, Publish, Receive, SetL2, CommitReading, DropReading,
           Crash, StateTick
  <2> QED BY <2>1 DEF Quiet
<1>2. others = {}
  <2>1. others \subseteq others'
    BY Zenon DEF StateNext, ReadState, Promote, QueryPolicy, CachedReading, QueryReading, Fill, Fail,
           Commit, AfterCommit, Del, Publish, Receive, SetL2, CommitReading, DropReading,
           Crash, StateTick
  <2> QED BY <1>1, <2>1
<1>3. FreshLoads /\ FreshMemory
  BY <1>1, <1>2 DEF FreshStates, Quiet
<1>4. \A q \in Replica : wpc[q] \in Path => wpc[q] = "claims"
  BY <1>2 DEF Recorded
<1>5. ASSUME NEW x \in Reader, NEW s \in State, StoreState(x, s),
             UNCHANGED <<db, l2, wpc, inbox>>, ~DelDue => Ok(s)
      PROVE  FreshLoads' /\ FreshMemory'
  <2>1. \A r \in Replica : r # Runs[x] => l1'[r] = l1[r] /\ sets'[r] = sets[r]
    BY <1>5 DEF StoreState, StateTypeOK
  <2>2. l1'[Runs[x]] = Held(s) /\ sets'[Runs[x]] = s
    BY <1>5, ZenonT(60) DEF StoreState, StateTypeOK
  <2>3. \A y \in Reader : val'[y] # NoEntry => val'[y] = val[y]
    BY <1>5 DEF StoreState, StateTypeOK
  <2>4. \A r \in Replica : ~Writing(r)' => ~Writing(r) /\ ~DelDue
    BY <1>5, Zenon DEF Writing, DelDue
  <2>5. FreshLoads'
    BY <1>3, <1>5, <2>1, <2>2, <2>3, SMTT(30) DEF FreshLoads, DelDue, Ok
  <2>6. FreshMemory'
    BY <1>3, <1>5, <2>1, <2>2, <2>4, SMTT(90) DEF FreshMemory, Ok
  <2> QED BY <2>5, <2>6, Zenon
<1>6. ASSUME NEW x \in Reader, UNCHANGED <<db, l1, l2, sets, wpc, inbox>>,
             \A y \in Reader : y # x => val'[y] = val[y],
             val'[x] # NoEntry /\ ~DelDue => Ok(val'[x])
      PROVE  FreshLoads' /\ FreshMemory'
  BY <1>3, <1>6, ZenonT(30) DEF FreshLoads, FreshMemory, DelDue, Writing, Ok
<1>7. ASSUME NEW x \in Reader, ReadState(x) PROVE FreshLoads' /\ FreshMemory'
  <2>1. l2 # NoEntry => l2.s \in State
    BY Zenon DEF StateTypeOK, Entry
  <2>2. \A y \in Reader : y # x => val'[y] = val[y]
    BY <1>7, SMTT(30) DEF ReadState, StateTypeOK
  <2>3. \/ l2 # NoEntry /\ val'[x] = l2.s
        \/ val'[x] = [v |-> db, raced |-> FALSE]
    BY <1>7 DEF ReadState, StateTypeOK
  <2>4. ~DelDue => Ok(val'[x])
    BY <1>3, <2>3 DEF FreshLoads, Ok
  <2> QED BY <1>6, <1>7, <2>2, <2>4, Zenon DEF ReadState
<1>8. ASSUME NEW x \in Reader, Promote(x) PROVE FreshLoads' /\ FreshMemory'
  <2>1. val[x] \in State /\ (~DelDue => Ok(val[x]))
    BY <1>3, <1>8, SMTT(30) DEF Promote, Loading, StateTypeOK, FreshLoads
  <2>2. \A r \in Replica : r # Runs[x] => l1'[r] = l1[r]
    BY <1>8, ZenonT(30) DEF Promote, StateTypeOK
  <2>3. l1'[Runs[x]] = Held(val[x])
    BY <1>8, Zenon DEF Promote, StateTypeOK
  <2>4. \A y \in Reader : val'[y] # NoEntry => val'[y] = val[y]
    BY <1>8, SMTT(30) DEF Promote, StateTypeOK
  <2>5. \A r \in Replica : ~Writing(r)' => ~Writing(r) /\ ~DelDue
    BY <1>8, Zenon DEF Promote, Writing, DelDue
  <2>6. FreshLoads'
    BY <1>3, <1>8, <2>4, ZenonT(30) DEF Promote, FreshLoads, DelDue, Ok
  <2>7. FreshMemory'
    BY <1>3, <1>8, <2>1, <2>2, <2>3, <2>5 DEF Promote, FreshMemory, Ok
  <2> QED BY <2>6, <2>7, Zenon
<1>9. ASSUME NEW x \in Reader, QueryPolicy(x) PROVE FreshLoads' /\ FreshMemory'
  <2>1. val[x] \in State
    BY <1>9 DEF QueryPolicy, Loading, StateTypeOK
  <2>2. val'[x].v.pol = db.pol
    BY <1>9, <2>1 DEF QueryPolicy, StateTypeOK, State, Version
  <2>3. \A y \in Reader : y # x => val'[y] = val[y]
    BY <1>9 DEF QueryPolicy, StateTypeOK
  <2> QED BY <1>6, <1>9, <2>2, <2>3 DEF QueryPolicy, Ok
<1>10. ASSUME NEW x \in Reader, CachedReading(x) PROVE FreshLoads' /\ FreshMemory'
  <2> DEFINE s == [v |-> [pol |-> val[x].v.pol, rd |-> rdCache[Runs[x]].rd],
                   raced |-> val[x].raced]
  <2>1. val[x] \in State /\ rdCache[Runs[x]] \in [rd : Nat, ttl : 1..ReadingTtl]
    BY <1>10 DEF CachedReading, Loading, StateTypeOK
  <2>2. [val[x] EXCEPT !.v.rd = rdCache[Runs[x]].rd] = s
    BY <2>1 DEF State, Version
  <2>3. s \in State
    BY <2>1, VersionFacts, Zenon DEF State
  <2>4. s.v.pol = val[x].v.pol /\ s.raced = val[x].raced
    BY <2>1, Zenon DEF State
  <2>5. ~DelDue => Ok(s)
    BY <1>3, <2>1, <2>4 DEF FreshLoads, Ok
  <2>6. StoreState(x, s)
    BY <1>10, <2>2 DEF CachedReading
  <2> HIDE DEF s
  <2> QED BY <1>5, <1>10, <2>3, <2>5, <2>6 DEF CachedReading
<1>11. ASSUME NEW x \in Reader, QueryReading(x) PROVE FreshLoads' /\ FreshMemory'
  <2>1. val[x] \in State
    BY <1>11 DEF QueryReading, Loading, StateTypeOK
  <2>2. val'[x] = [v |-> [pol |-> val[x].v.pol, rd |-> db.rd], raced |-> val[x].raced]
    BY <1>11, <2>1 DEF QueryReading, StateTypeOK, State, Version
  <2>3. val'[x].v.pol = val[x].v.pol /\ val'[x].raced = val[x].raced
    BY <2>1, <2>2 DEF State
  <2>4. \A y \in Reader : y # x => val'[y] = val[y]
    BY <1>11 DEF QueryReading, StateTypeOK
  <2>5. ~DelDue => Ok(val'[x])
    BY <1>3, <2>1, <2>3, Zenon DEF FreshLoads, Ok
  <2> QED BY <1>6, <1>11, <2>4, <2>5 DEF QueryReading
<1>12. ASSUME NEW x \in Reader, Fill(x) PROVE FreshLoads' /\ FreshMemory'
  <2>1. val[x] \in State /\ (~DelDue => Ok(val[x]))
    BY <1>3, <1>12, ZenonT(30) DEF Fill, Loading, StateTypeOK, FreshLoads
  <2> QED BY <1>5, <1>12, <2>1, Zenon DEF Fill
<1>13. ASSUME NEW x \in Reader, Fail(x) PROVE FreshLoads' /\ FreshMemory'
  BY <1>1, <1>13, Zenon DEF Fail
<1>14. ASSUME NEW r \in Replica, SetL2(r) PROVE FreshLoads' /\ FreshMemory'
  <2>1. sets[r] \in State /\ (~DelDue => Ok(sets[r]))
    BY <1>3, <1>14, SMTT(30) DEF SetL2, StateTypeOK, FreshLoads
  <2>2. l2' = Held(sets[r])
    BY <1>1, <1>14, ZenonT(30) DEF SetL2
  <2>3. \A q \in Replica : sets'[q] # NoEntry => sets'[q] = sets[q]
    BY <1>14, ZenonT(30) DEF SetL2, StateTypeOK
  <2> QED BY <1>3, <1>14, <2>1, <2>2, <2>3, ZenonT(30)
          DEF SetL2, FreshLoads, FreshMemory, DelDue, Writing, Ok
<1>15. ASSUME NEW r \in Replica, NEW path \in Path, Commit(r, path)
       PROVE  FreshLoads' /\ FreshMemory'
  <2>1. wpc'[r] \notin {"idle", "reading", "publish"}
    BY <1>15 DEF Commit, StateTypeOK, Path
  <2> QED BY <2>1 DEF FreshLoads, FreshMemory, DelDue, Writing
<1>16. ASSUME NEW r \in Replica, AfterCommit(r) PROVE FreshLoads' /\ FreshMemory'
  <2>1. wpc'[r] = "del"
    BY <1>4, <1>16 DEF AfterCommit, StateTypeOK
  <2> QED BY <2>1, Zenon DEF FreshLoads, FreshMemory, DelDue, Writing
<1>17. ASSUME NEW r \in Replica, Del(r) PROVE FreshLoads' /\ FreshMemory'
  <2>1. /\ l2' = NoEntry /\ wpc' = [wpc EXCEPT ![r] = "publish"]
        /\ val' = [x \in Reader |-> Raced(val[x])]
        /\ sets' = [q \in Replica |-> Raced(sets[q])]
    BY <1>1, <1>17 DEF Del
  <2>2. \A s \in State \cup {NoEntry} : Raced(s) # NoEntry => Raced(s).raced
    BY Zenon
  <2>3. FreshLoads'
    BY <2>1, <2>2, Zenon DEF FreshLoads, Ok, StateTypeOK
  <2>4. FreshMemory'
    BY <2>1, SMTT(30) DEF FreshMemory, Writing, StateTypeOK
  <2> QED BY <2>3, <2>4, Zenon
<1>18. ASSUME NEW r \in Replica, Publish(r) PROVE FreshLoads' /\ FreshMemory'
  <2>1. inbox' = [q \in Replica |-> TRUE]
    BY <1>1, <1>18, Zenon DEF Publish
  <2>2. DelDue => DelDue'
    BY <1>18 DEF Publish, DelDue, StateTypeOK
  <2> QED BY <1>3, <1>18, <2>1, <2>2, Zenon DEF Publish, FreshLoads, FreshMemory, Writing, Ok
<1>19. ASSUME NEW r \in Replica, Receive(r) PROVE FreshLoads' /\ FreshMemory'
  <2>1. DropL1({r})
    BY <1>1, <1>19, Zenon DEF Receive
  <2>2. \A s \in State \cup {NoEntry} : Raced(s) # NoEntry => Raced(s).raced
    OBVIOUS
  <2>3. \A x \in Reader : val'[x] # NoEntry => val'[x] = val[x] \/ val'[x].raced
    BY <1>19, <2>2, Zenon DEF Receive, StateTypeOK
  <2>4. FreshLoads'
    BY <1>3, <1>19, <2>3, SMTT(30) DEF Receive, FreshLoads, DelDue, Ok
  <2>5. \A q \in Replica : l1'[q] # NoEntry =>
            q # r /\ l1'[q] = l1[q] /\ inbox'[q] = inbox[q]
    BY <1>19, <2>1, Zenon DEF Receive, DropL1, StateTypeOK
  <2>6. FreshMemory'
    BY <1>3, <1>19, <2>5, ZenonT(30) DEF Receive, FreshMemory, Writing, Ok
  <2> QED BY <2>4, <2>6
<1>20. ASSUME NEW r \in Replica, CommitReading(r) \/ DropReading(r)
       PROVE  FreshLoads' /\ FreshMemory'
  <2>1. db'.pol = db.pol
    BY <1>20 DEF CommitReading, DropReading, StateTypeOK, Version
  <2>2. /\ wpc[r] \in {"idle", "reading"} /\ wpc'[r] \in {"idle", "reading"}
        /\ \A q \in Replica : q # r => wpc'[q] = wpc[q]
    BY <1>20 DEF CommitReading, DropReading, StateTypeOK
  <2>3. DelDue => DelDue'
    BY <2>2 DEF DelDue
  <2>4. UNCHANGED <<l1, l2, sets, val, inbox>>
    BY <1>20, Zenon DEF CommitReading, DropReading
  <2>5. \A q \in Replica : Writing(q) => Writing(q)'
    BY <2>2, <2>4, Zenon DEF Writing
  <2> QED BY <1>3, <2>1, <2>3, <2>4, <2>5 DEF FreshLoads, FreshMemory, Ok
<1>21. ASSUME NEW r \in Replica, Crash(r) PROVE FreshLoads' /\ FreshMemory'
  BY <1>1, <1>21, Zenon DEF Crash
<1>22. CASE StateTick
  <2>1. \A e \in Entry \cup {NoEntry} : Age(e) # NoEntry => e # NoEntry /\ Age(e).s = e.s
    BY AgeFacts, Zenon
  <2>2. l2' # NoEntry => l2 # NoEntry /\ l2'.s = l2.s
    BY <1>22, <2>1, Zenon DEF StateTick, StateTypeOK
  <2>3. \A r \in Replica : l1'[r] # NoEntry => l1[r] # NoEntry /\ l1'[r].s = l1[r].s
    BY <1>22, <2>1 DEF StateTick, StateTypeOK
  <2> QED BY <1>3, <1>22, <2>2, <2>3
          DEF StateTick, FreshLoads, FreshMemory, DelDue, Writing, Ok
<1> QED BY <1>7, <1>8, <1>9, <1>10, <1>11, <1>12, <1>13, <1>14, <1>15, <1>16, <1>17, <1>18,
           <1>19, <1>20, <1>21, <1>22 DEF StateNext

-----------------------------------------------------------------------------

StateInv == StateTypeOK /\ Loading /\ Aged /\ Recorded /\ FreshStates

\* StateInv is inductive: the readers, the writers, the messages, crashes and time.
THEOREM StateInvariance == StateSpec => []StateInv
<1>1. StateInit => StateInv
  <2> SUFFICES ASSUME StateInit PROVE StateInv
    BY Zenon
  <2>1. StateTypeOK
    BY StateAssumption, StateConstants, VersionFacts DEF StateInit, StateTypeOK
  <2>2. Loading /\ Recorded
    BY Zenon DEF StateInit, Loading, Recorded, Path
  <2>3. Aged
    BY Zenon DEF StateInit, Aged, EntryAges, LoadAges
  <2>4. FreshStates
    BY DEF StateInit, FreshStates, FreshLoads, FreshMemory
  <2> QED BY <2>1, <2>2, <2>3, <2>4 DEF StateInv
<1>2. StateInv /\ [StateNext]_stateVars => StateInv'
  <2> SUFFICES ASSUME StateInv, [StateNext]_stateVars PROVE StateInv'
    OBVIOUS
  <2>1. CASE StateNext
    BY <2>1, StateTypes, StateAged, StateRecorded, StateFresh, SMTT(30) DEF StateInv
  <2>2. CASE UNCHANGED stateVars
    BY <2>2, Zenon DEF stateVars, StateInv, StateTypeOK, Loading, Aged, EntryAges, LoadAges, PolAge,
                RdAge, Recorded, FreshStates, Quiet, FreshLoads, FreshMemory, DelDue, Writing, Ok
  <2> QED BY <2>1, <2>2
<1> QED BY <1>1, <1>2, PTL DEF StateSpec

\* With Redis and the replicas up, claim writes leave no old state in Redis or in a
\* memory, unless its load spanned an invalidation: for any number of replicas, one
\* reader on each.
THEOREM NoOldStateAfterClaim == StateSpec => []FreshUnlessRaced
<1>1. StateInv => FreshUnlessRaced
  BY FreshIsRaced DEF StateInv
<1> QED BY <1>1, StateInvariance, PTL

\* Whatever fails, no cached state is old for more than two TTLs and three waits, nor
\* its reading for the TTL of the reading cache beyond that: for any replicas and TTLs,
\* however long a load may take.
THEOREM OldStateExpires == StateSpec => []StaleStateExpires
<1>1. StateInv => StaleStateExpires
  BY AgedExpires DEF StateInv, Aged
<1> QED BY <1>1, StateInvariance, PTL
=============================================================================
