--------------------------- MODULE PurchaseProofs ---------------------------
(***************************************************************************)
(* Paying for a policy, what it may cover and the arithmetic of quotes,    *)
(* refunds and payout thresholds, for any number of requests, orders and   *)
(* updates, any calendar and any amounts.                                  *)
(*                                                                         *)
(* The powers of ten are a recursive function; what it computes is proved  *)
(* by induction over a set of naturals, from the well-foundedness of <.    *)
(***************************************************************************)
EXTENDS PolicyPurchase, Underwriting, MoneyMath, FiniteSetTheorems, WellFoundedInduction, TLAPS

-----------------------------------------------------------------------------
\* PolicyPurchase.

\* What a request has in hand when it is at a place, and that what it would
\* store has succeeded.
Sent == \A r \in Requests:
  /\ pc[r] = "simulate" => tx[r] \in Xdrs \X {"none"}
  /\ pc[r] \in {"send", "wait", "product", "insert"} => tx[r] \in Hashes
  /\ pc[r] \in {"product", "insert"} => chain[tx[r]] = "SUCCESS"

\* The inductive invariant: a handler that goes on to createPolicy has seen its
\* transaction succeed, and a success is final.
BuyInv ==
  /\ pc \in [Requests -> {"idle", "simulate", "send", "wait", "product", "insert", "created",
                          "conflict", "unrecorded", "refused", "failed", "timedOut", "lost"}]
  /\ DOMAIN tx = Requests
  /\ chain \in [Hashes -> {"none", "pending", "SUCCESS", "FAILED"}]
  /\ policies \subseteq Hashes
  /\ Sent /\ PolicyBacked

\* A success stays one, and every other step of the chain starts from none or pending.
LEMMA SuccessIsKept ==
  ASSUME BuyInv, [BuyNext]_buyVars
  PROVE  /\ chain' \in [Hashes -> {"none", "pending", "SUCCESS", "FAILED"}]
         /\ \A h \in Hashes: chain[h] = "SUCCESS" => chain'[h] = "SUCCESS"
<1>1. CASE UNCHANGED chain
  BY <1>1 DEF BuyInv
<1>2. ASSUME NEW h \in Hashes, NEW s \in {"pending", "SUCCESS", "FAILED"},
             chain[h] # "SUCCESS", chain' = [chain EXCEPT ![h] = s]
      PROVE  /\ chain' \in [Hashes -> {"none", "pending", "SUCCESS", "FAILED"}]
             /\ \A g \in Hashes: chain[g] = "SUCCESS" => chain'[g] = "SUCCESS"
  BY <1>2 DEF BuyInv
<1>3. ASSUME NEW r \in Requests, Send(r) \/ SendFails(r) 
      PROVE  UNCHANGED chain \/ \E h \in Hashes: chain[h] # "SUCCESS" /\ chain' = [chain EXCEPT ![h] = "pending"]
  BY <1>3 DEF Send, SendFails, BuyInv, Sent
<1>4. ASSUME NEW h \in Hashes, Include(h)
      PROVE  \E s \in {"SUCCESS", "FAILED"}: chain[h] # "SUCCESS" /\ chain' = [chain EXCEPT ![h] = s]
  BY <1>4, Zenon DEF Include
<1>5. ASSUME NEW r \in Requests, Accept(r) \/ Refuse(r) \/ Simulate(r) \/ TryAgainLater(r) \/ Poll(r)
                                   \/ Check(r) \/ Insert(r)
      PROVE  UNCHANGED chain
  BY <1>5 DEF Accept, Refuse, Simulate, TryAgainLater, Poll, Check, Insert
<1>6. CASE Crash \/ UNCHANGED buyVars
  BY <1>1, <1>6 DEF Crash, buyVars
<1> QED
  BY <1>1, <1>2, <1>3, <1>4, <1>5, <1>6 DEF BuyNext, Step

\* The initial state satisfies the invariant.
LEMMA BuyInitInv == ASSUME BuyInit PROVE BuyInv
  BY DEF BuyInit, BuyInv, Sent, PolicyBacked

\* Every step of the specification keeps the invariant.
LEMMA BuyNextInv == ASSUME BuyInv, [BuyNext]_buyVars PROVE BuyInv'
<1>0. /\ chain' \in [Hashes -> {"none", "pending", "SUCCESS", "FAILED"}]
      /\ \A h \in Hashes: chain[h] = "SUCCESS" => chain'[h] = "SUCCESS"
  BY SuccessIsKept
<1>1. CASE UNCHANGED <<pc, tx, policies>>
  BY <1>0, <1>1 DEF BuyInv, Sent, PolicyBacked
<1>2. ASSUME NEW r \in Requests, Accept(r) \/ Refuse(r) PROVE BuyInv'
  BY <1>0, <1>2 DEF BuyInv, Sent, PolicyBacked, Accept, Refuse, Goto, Unassembled
<1>3. ASSUME NEW r \in Requests, Simulate(r) PROVE BuyInv'
  BY <1>0, <1>3 DEF BuyInv, Sent, PolicyBacked, Simulate, Goto, Hashes
<1>4. ASSUME NEW r \in Requests, Send(r) \/ TryAgainLater(r) \/ SendFails(r) PROVE BuyInv'
  <2>1. UNCHANGED <<tx, policies>> /\ pc[r] = "send"
    BY <1>4 DEF Send, TryAgainLater, SendFails
  <2>2. PICK s \in {"send", "wait", "failed"}: pc' = [pc EXCEPT ![r] = s]
    BY <1>4 DEF Send, TryAgainLater, SendFails, Goto, Awaited
  <2> QED
    BY <1>0, <2>1, <2>2 DEF BuyInv, Sent, PolicyBacked
<1>5. ASSUME NEW r \in Requests, Poll(r) PROVE BuyInv'
  <2>1. UNCHANGED <<tx, policies, chain>> /\ pc[r] = "wait"
    BY <1>5 DEF Poll
  <2>2. PICK s \in {"wait", "product", "failed", "timedOut"}:
          pc' = [pc EXCEPT ![r] = s] /\ (s = "product" => chain[tx[r]] = "SUCCESS")
    BY <1>5 DEF Poll, Goto, NextPoll, AfterPollError
  <2> QED
    BY <1>0, <2>1, <2>2 DEF BuyInv, Sent, PolicyBacked
<1>6. ASSUME NEW r \in Requests, Check(r) PROVE BuyInv'
  BY <1>0, <1>6 DEF BuyInv, Sent, PolicyBacked, Check, Goto
<1>7. ASSUME NEW r \in Requests, Insert(r) PROVE BuyInv'
  BY <1>0, <1>7 DEF BuyInv, Sent, PolicyBacked, Insert, Goto
<1>8. ASSUME NEW h \in Hashes, Include(h) PROVE BuyInv'
  BY <1>1, <1>8 DEF Include
<1>9. CASE Crash
  BY <1>0, <1>9 DEF BuyInv, Sent, PolicyBacked, Crash
<1>10. CASE UNCHANGED buyVars
  BY <1>1, <1>10 DEF buyVars
<1> QED
  BY <1>2, <1>3, <1>4, <1>5, <1>6, <1>7, <1>8, <1>9, <1>10 DEF BuyNext, Step

\* Every row policy.create inserts names a transaction that succeeded on chain, for
\* any number of requests, XDRs and fees, whatever fails: PENDING and DUPLICATE are
\* both awaited, and a success is final.
THEOREM RowsArePaid == BuySpec => []PolicyBacked
<1>1. BuyInit => BuyInv
  BY BuyInitInv
<1>2. BuyInv /\ [BuyNext]_buyVars => BuyInv'
  BY BuyNextInv
<1>3. BuyInv => PolicyBacked
  BY DEF BuyInv
<1> QED
  BY <1>1, <1>2, <1>3, PTL DEF BuySpec

-----------------------------------------------------------------------------
\* Underwriting.

Rows == [key: Keys, coverage: Coverages, start: Int, end: Int]

Places == {"idle", "quoted", "creating", "active", "refused", "over"}

UpdateStates == [pc: {"idle", "read", "written"}, of: Orders \cup {"none"},
                 existing: Rows \cup {None}, key: Keys \cup {None}]

\* The part of the types that the argument needs.
CoverTypes ==
  /\ now \in Int
  /\ policy \in [Orders -> Rows \cup {None}]
  /\ order \in [Orders -> [pc: Places, key: Keys \cup {None}, coverage: Coverages \cup {0},
                           duration: Durations \cup {0}, start: Int]]
  /\ update \in [Updates -> UpdateStates]

\* What buyPolicy has checked when createPolicy runs, and that it runs once.
Bought == \A o \in Orders:
  /\ order[o].pc \in {"quoted", "creating"} =>
       order[o].key \in Keys /\ order[o].coverage \in Coverages /\ order[o].duration \in Durations
  /\ policy[o] # None => order[o].pc \in {"active", "over"}

\* An update that has read a row and is alone with it holds the row as it is.
ReadIsCurrent == \A u \in Updates: update[u].pc = "read" =>
  /\ update[u].of \in Orders /\ update[u].existing \in Rows
  /\ policy[update[u].of] \in Rows
  /\ update[u].of \notin overlapped => update[u].existing = policy[update[u].of]

\* Two updates at work on one policy have been noted.
Noted == \A u, v \in Updates:
  u # v /\ update[u].pc # "idle" /\ update[v].pc # "idle" /\ update[u].of = update[v].of
    => update[u].of \in overlapped

\* The key of a row meets its window.
Fits(p) ==
  /\ p.start < p.end
  /\ product.category = "crop" => p.start < p.key.at + Month /\ p.key.at < p.end
  /\ product.category = "flight" => p.start <= p.key.at /\ p.key.at <= p.end

AllFit == \A o \in Orders: policy[o] # None /\ o \notin overlapped => Fits(policy[o])

\* The inductive invariant. UpdatePolicy writes what fits the row that was read,
\* so that row must still be the one it is written to.
CoverInv == CoverTypes /\ Bought /\ ReadIsCurrent /\ Noted /\ AllFit

-----------------------------------------------------------------------------
\* A row is not the absent row.
LEMMA RowIsNotNone == ASSUME NEW r \in Rows PROVE r # None
<1>1. "key" \in DOMAIN r
  BY DEF Rows
<1>2. "key" \notin DOMAIN None
  BY DEF None
<1> QED
  BY <1>1, <1>2

Merge(cur, old, new) == [f \in DOMAIN cur |-> IF new[f] # old[f] THEN new[f] ELSE cur[f]]

\* Writing the changed columns of a row gives a row ...
LEMMA MergeIsRow ==
  ASSUME NEW cur \in Rows, NEW old \in Rows, NEW new \in Rows
  PROVE  Merge(cur, old, new) \in Rows
<1>1. DOMAIN cur = {"key", "coverage", "start", "end"}
  BY DEF Rows
<1> QED
  BY <1>1 DEF Rows, Merge

\* ... and written to the row that was read, the one that was asked for.
LEMMA MergeCurrent ==
  ASSUME NEW old \in Rows, NEW new \in Rows
  PROVE  Merge(old, old, new) = new
<1>1. DOMAIN old = {"key", "coverage", "start", "end"} /\ DOMAIN new = DOMAIN old
  BY DEF Rows
<1>2. new = [f \in DOMAIN new |-> new[f]]
  BY DEF Rows
<1> QED
  BY <1>1, <1>2 DEF Merge

\* What a request asks for is a row.
LEMMA WantedIsRow ==
  ASSUME NEW old \in Rows, NEW new \in Wanted(old)
  PROVE  new \in Rows
  BY CoverAssumption DEF Wanted, Rows, Times

\* validateOracleKey, of a window that is not empty, is what AllFit asks for.
LEMMA ValidFits ==
  ASSUME NEW p \in Rows, p.start < p.end,
         ValidateOracleKey(p.key, p.start, p.end)
  PROVE  Fits(p)
<1>1. p.key \in Keys /\ p.start \in Int /\ p.end \in Int /\ p.key.at \in Int /\ Month \in Int
  BY CoverAssumption DEF Rows
<1> QED
  BY <1>1 DEF ValidateOracleKey, Fits

-----------------------------------------------------------------------------
\* The initial state satisfies the invariant: there is no policy.
LEMMA CoverInitInv == ASSUME CoverInit PROVE CoverInv
  BY DEF CoverInit, CoverInv, CoverTypes, UpdateStates, Places, Bought, ReadIsCurrent, Noted, AllFit, NoOrder, IdleUpdate

\* Every step of the specification keeps the invariant.
LEMMA CoverNextInv == ASSUME CoverInv, [CoverNext]_coverVars PROVE CoverInv'
<1>0. CoverTypes /\ Bought /\ ReadIsCurrent /\ Noted /\ AllFit
  BY Zenon DEF CoverInv
<1>1. CASE UNCHANGED coverVars
  BY <1>1, Zenon DEF coverVars, CoverInv, CoverTypes, Bought, ReadIsCurrent, Noted, AllFit, Fits
<1>2. ASSUME NEW o \in Orders, Quote(o) PROVE CoverInv'
  <2>1. PICK key \in Keys, coverage \in Coverages, duration \in Durations:
          /\ order[o].pc = "idle"
          /\ order' = [order EXCEPT ![o] = [pc |-> "quoted", key |-> key, coverage |-> coverage,
                                            duration |-> duration, start |-> 0]]
    BY <1>2, Zenon DEF Quote
  <2>2. UNCHANGED <<product, now, policy, update, overlapped>>
    BY <1>2 DEF Quote
  <2>3. CoverTypes'
    BY <1>0, <2>1, <2>2 DEF CoverTypes, Places
  <2>4. Bought'
    BY <1>0, <2>1, <2>2, Zenon DEF CoverTypes, Bought
  <2> QED
    BY <1>0, <2>2, <2>3, <2>4 DEF CoverInv, ReadIsCurrent, Noted, AllFit, Fits
<1>3. ASSUME NEW o \in Orders, BeginCreate(o) \/ Leave(o) PROVE CoverInv'
  <2>1. UNCHANGED <<product, now, policy, update, overlapped>>
    BY <1>3 DEF BeginCreate, Leave
  <2>2. CoverTypes' /\ Bought'
    BY <1>0, <1>3 DEF CoverTypes, Places, Bought, BeginCreate, Leave
  <2> QED
    BY <1>0, <2>1, <2>2 DEF CoverInv, ReadIsCurrent, Noted, AllFit, Fits
<1>4. ASSUME NEW o \in Orders, CreatePolicy(o) PROVE CoverInv'
  <2> DEFINE row == [key |-> order[o].key, coverage |-> order[o].coverage,
                     start |-> order[o].start, end |-> order[o].start + order[o].duration]
  <2>1. UNCHANGED <<product, now, update, overlapped>> /\ order[o].pc = "creating"
    BY <1>4 DEF CreatePolicy
  <2>2. policy[o] = None
    BY <1>0, <2>1, Zenon DEF Bought
  <2>3. CASE ~Accepted(o)
    <3>1. policy' = policy /\ order' = [order EXCEPT ![o].pc = "refused"]
      BY <1>4, <2>3 DEF CreatePolicy
    <3>2. CoverTypes' /\ Bought'
      BY <1>0, <2>1, <2>2, <3>1 DEF CoverTypes, Places, Bought
    <3> QED
      BY <1>0, <2>1, <3>1, <3>2 DEF CoverInv, ReadIsCurrent, Noted, AllFit, Fits
  <2>4. CASE Accepted(o)
    <3>1. policy' = [policy EXCEPT ![o] = row] /\ order' = [order EXCEPT ![o].pc = "active"]
      BY <1>4, <2>4 DEF CreatePolicy
    <3>2. /\ order[o].key \in Keys /\ order[o].coverage \in Coverages
          /\ order[o].duration \in Nat \ {0} /\ order[o].start \in Int
      BY <1>0, <2>1, CoverAssumption, Zenon DEF CoverTypes, Bought
    <3>3. row \in Rows /\ row.start < row.end
      BY <3>2 DEF Rows
    <3>4. Fits(row)
      <4>1. ValidateOracleKey(row.key, row.start, row.end)
        BY <2>4 DEF Accepted
      <4> QED BY <4>1, <3>3, ValidFits, Zenon
    <3> HIDE DEF row
    <3>5. CoverTypes' /\ Bought'
      BY <1>0, <2>1, <3>1, <3>3, Zenon DEF CoverTypes, Places, Bought
    <3>6. AllFit'
      BY <1>0, <2>1, <3>1, <3>4, Zenon DEF CoverTypes, AllFit, Fits
    <3>7. \A u \in Updates: update[u].pc = "read" => update[u].of # o
      BY <1>0, <2>2, RowIsNotNone DEF ReadIsCurrent
    <3>8. ReadIsCurrent' /\ Noted'
      BY <1>0, <2>1, <3>1, <3>7 DEF CoverTypes, ReadIsCurrent, Noted
    <3> QED
      BY <3>5, <3>6, <3>8 DEF CoverInv
  <2> QED
    BY <2>3, <2>4
<1>5. ASSUME NEW u \in Updates, FindPolicy(u) PROVE CoverInv'
  <2>1. PICK o \in Orders:
          /\ update[u].pc = "idle" /\ policy[o] # None
          /\ update' = [update EXCEPT ![u] =
               [pc |-> "read", of |-> o, existing |-> policy[o], key |-> policy[o].key]]
          /\ overlapped' = overlapped \cup ({update[v].of: v \in Updates} \cap {o})
    BY <1>5, Zenon DEF FindPolicy
  <2>2. UNCHANGED <<product, now, order, policy>>
    BY <1>5 DEF FindPolicy
  <2>3. policy[o] \in Rows /\ policy[o].key \in Keys
    BY <1>0, <2>1, Zenon DEF CoverTypes, Rows
  <2>4. CoverTypes'
    BY <1>0, <2>1, <2>2, <2>3, Zenon DEF CoverTypes, UpdateStates
  <2>5. \A v \in Updates: update[v].of = o => o \in overlapped'
    BY <2>1
  <2>6. overlapped \subseteq overlapped'
    BY <2>1, Zenon
  <2>7. Bought' /\ AllFit'
    BY <1>0, <2>2, <2>6, Zenon DEF Bought, AllFit, Fits
  <2>8. ReadIsCurrent'
    BY <1>0, <2>1, <2>2, <2>3, <2>6, Zenon DEF CoverTypes, ReadIsCurrent
  <2>9. Noted'
    BY <1>0, <2>1, <2>5, <2>6 DEF CoverTypes, Noted
  <2> QED
    BY <2>4, <2>7, <2>8, <2>9 DEF CoverInv
<1>6. ASSUME NEW u \in Updates, LeaveAlone(u) \/ Announce(u) PROVE CoverInv'
  <2>1. /\ update' = [update EXCEPT ![u] = IdleUpdate]
        /\ UNCHANGED <<product, now, order, policy, overlapped>>
    BY <1>6, Zenon DEF LeaveAlone, Announce
  <2>2. CoverTypes' /\ Bought' /\ AllFit'
    BY <1>0, <2>1, Zenon DEF CoverTypes, UpdateStates, IdleUpdate, Bought, AllFit, Fits
  <2>3. ReadIsCurrent' /\ Noted'
    BY <1>0, <2>1 DEF CoverTypes, IdleUpdate, ReadIsCurrent, Noted
  <2> QED
    BY <2>2, <2>3, Zenon DEF CoverInv
<1>7. ASSUME NEW u \in Updates, UpdatePolicy(u) PROVE CoverInv'
  <2> DEFINE o == update[u].of
             old == update[u].existing
  <2>1. PICK new \in Wanted(old):
          /\ UpdateValid(old, new)
          /\ policy' = [policy EXCEPT ![o] = Merge(policy[o], old, new)]
          /\ update' = [update EXCEPT ![u].pc = "written", ![u].key = new.key]
    BY <1>7, Zenon DEF UpdatePolicy, Merge
  <2>2. update[u].pc = "read" /\ UNCHANGED <<product, now, order, overlapped>>
    BY <1>7, Zenon DEF UpdatePolicy
  <2>3. o \in Orders /\ old \in Rows /\ policy[o] \in Rows /\ (o \notin overlapped => policy[o] = old)
    BY <1>0, <2>2 DEF ReadIsCurrent
  <2>4. new \in Rows /\ new.key \in Keys
    BY <2>1, <2>3, WantedIsRow, Zenon DEF Rows
  <2>5. Merge(policy[o], old, new) \in Rows
    BY <2>3, <2>4, MergeIsRow
  <2>6. Fits(new)
    BY <2>1, <2>4, ValidFits, Zenon DEF UpdateValid, Rows
  <2>7. o \notin overlapped => Merge(policy[o], old, new) = new
    BY <2>3, <2>4, MergeCurrent, Zenon
  <2> HIDE DEF o, old
  <2>8. CoverTypes'
    <3>1. policy' \in [Orders -> Rows \cup {None}]
      BY <1>0, <2>1, <2>3, <2>5 DEF CoverTypes
    <3>2. update' \in [Updates -> UpdateStates]
      <4> DEFINE next == [update[u] EXCEPT !.pc = "written", !.key = new.key]
      <4>1. update \in [Updates -> UpdateStates] /\ update[u] \in UpdateStates
        BY <1>0 DEF CoverTypes
      <4>2. next \in UpdateStates
        BY <4>1, <2>4, Zenon DEF UpdateStates
      <4>3. update' = [update EXCEPT ![u] = next]
        BY <2>1, Zenon
      <4> QED
        BY <4>1, <4>2, <4>3
    <3> QED
      BY <1>0, <2>2, <3>1, <3>2 DEF CoverTypes
  <2>9. Bought'
    BY <1>0, <2>1, <2>2, <2>3, RowIsNotNone, Zenon DEF CoverTypes, Bought
  <2>10. AllFit'
    BY <1>0, <2>1, <2>2, <2>3, <2>6, <2>7, Zenon DEF CoverTypes, AllFit, Fits
  <2>11. \A v \in Updates: v # u /\ update[v].pc = "read" /\ update[v].of = o => o \in overlapped
    BY <1>0, <2>2, Zenon DEF Noted, o
  <2>12. ReadIsCurrent'
    BY <1>0, <2>1, <2>2, <2>3, <2>5, <2>11 DEF CoverTypes, ReadIsCurrent
  <2>13. Noted'
    BY <1>0, <2>1, <2>2, SMTT(30) DEF CoverTypes, Noted
  <2> QED
    BY <2>8, <2>9, <2>10, <2>12, <2>13, Zenon DEF CoverInv
<1>8. CASE Tick
  BY <1>0, <1>8, SMTT(60) DEF Tick, CoverInv, CoverTypes, Bought, ReadIsCurrent, Noted, AllFit, Fits
<1> QED
  BY <1>1, <1>2, <1>3, <1>4, <1>5, <1>6, <1>7, <1>8, Zenon DEF CoverNext

-----------------------------------------------------------------------------
\* However late createPolicy follows buyPolicy, and however often updatePolicy
\* changes key and window, the key meets the window of every policy on which no
\* two updates overlapped.
THEOREM KeyMeetsWindow == CoverSpec => []KeyInWindow
<1>1. CoverInit => CoverInv
  BY CoverInitInv
<1>2. CoverInv /\ [CoverNext]_coverVars => CoverInv'
  BY CoverNextInv
<1>3. CoverInv => KeyInWindow
  BY Zenon DEF CoverInv, AllFit, Fits, KeyInWindow
<1> QED
  BY <1>1, <1>2, <1>3, PTL DEF CoverSpec

-----------------------------------------------------------------------------
\* MoneyMath.

\* Induction over the naturals, for a set in place of a predicate.
LEMMA SetInduction ==
  ASSUME NEW S, 0 \in S, \A n \in Nat : n \in S => n + 1 \in S
  PROVE  \A n \in Nat : n \in S
<1> DEFINE R == OpToRel(<, Nat)
           T == Nat \ S
<1> SUFFICES ASSUME T # {} PROVE FALSE
  OBVIOUS
<1>1. \A y, x \in Nat : y < x => <<y, x>> \in R
  BY DEF OpToRel
<1>2. IsWellFoundedOn(R, Nat)
  BY NatLessThanWellFounded, Zenon
<1>3. T \subseteq Nat
  OBVIOUS
<1> HIDE DEF R, T
<1>4. PICK x \in T : \A y \in T : ~(<<y, x>> \in R)
  BY <1>2, <1>3, WFMin, Zenon
<1>5. x \in Nat /\ x \notin S /\ x # 0
  BY DEF T
<1>6. x - 1 \in Nat /\ x - 1 < x /\ x = (x - 1) + 1
  BY <1>5
<1>7. x - 1 \in T
  BY <1>5, <1>6 DEF T
<1> QED
  BY <1>1, <1>3, <1>4, <1>5, <1>6, <1>7, Zenon

\* h holds the powers of ten up to n.
Powers(h, n) ==
  /\ h \in [0..n -> Nat] /\ h[0] = 1
  /\ \A i \in 1..n : h[i] = 10 * h[i - 1]

\* Such a table exists for every n ...
LEMMA PowersExist == \A n \in Nat : \E h : Powers(h, n)
<1> DEFINE S == {n \in Nat : \E h : Powers(h, n)}
<1>1. 0 \in S
  <2>1. Powers([i \in 0..0 |-> 1], 0)
    BY DEF Powers
  <2> QED
    BY <2>1
<1>2. ASSUME NEW n \in Nat, n \in S PROVE n + 1 \in S
  <2>1. PICK h : Powers(h, n)
    BY <1>2
  <2> DEFINE g == [i \in 0..(n + 1) |-> IF i = n + 1 THEN 10 * h[n] ELSE h[i]]
  <2>2. \A i \in 0..n : h[i] \in Nat /\ g[i] = h[i]
    BY <2>1 DEF Powers
  <2>3. g \in [0..(n + 1) -> Nat] /\ g[0] = 1 /\ g[n + 1] = 10 * h[n]
    BY <2>1, <2>2 DEF Powers
  <2> HIDE DEF g
  <2>4. ASSUME NEW i \in 1..(n + 1) PROVE g[i] = 10 * g[i - 1]
    <3>1. CASE i = n + 1
      BY <2>2, <2>3, <3>1
    <3>2. CASE i \in 1..n
      BY <2>1, <2>2, <3>2 DEF Powers
    <3> QED
      BY <3>1, <3>2
  <2>5. Powers(g, n + 1)
    BY <2>3, <2>4 DEF Powers
  <2> QED
    BY <2>5
<1> HIDE DEF S
<1>3. \A n \in Nat : n \in S
  BY <1>1, <1>2, SetInduction, Zenon
<1> QED
  BY <1>3 DEF S

\* ... and two of them agree.
LEMMA PowersAgree ==
  ASSUME NEW m \in Nat, NEW n \in Nat, NEW g, NEW h, Powers(g, m), Powers(h, n)
  PROVE  \A i \in Nat : i <= m /\ i <= n => g[i] = h[i]
<1> DEFINE S == {i \in Nat : i <= m /\ i <= n => g[i] = h[i]}
<1>1. 0 \in S
  BY DEF Powers
<1>2. ASSUME NEW i \in Nat, i \in S PROVE i + 1 \in S
  <2> SUFFICES ASSUME i + 1 <= m, i + 1 <= n PROVE g[i + 1] = h[i + 1]
    OBVIOUS
  <2>1. g[i] = h[i] /\ i + 1 \in 1..m /\ i + 1 \in 1..n /\ (i + 1) - 1 = i
    BY <1>2
  <2> QED
    BY <2>1 DEF Powers
<1> HIDE DEF S
<1>3. \A i \in Nat : i \in S
  BY <1>1, <1>2, SetInduction, Zenon
<1> QED
  BY <1>3 DEF S

\* So the recursive definition of Pow10 defines a function.
LEMMA Pow10Unfolds == \A n \in Nat : Pow10[n] = IF n = 0 THEN 1 ELSE 10 * Pow10[n - 1]
<1> DEFINE H(n) == CHOOSE h : Powers(h, n)
           F == [n \in Nat |-> H(n)[n]]
<1>1. \A n \in Nat : Powers(H(n), n)
  BY PowersExist
<1> HIDE DEF H
<1>2. F[0] = 1
  BY <1>1, Zenon DEF Powers
<1>3. ASSUME NEW n \in Nat, n # 0 PROVE F[n] = 10 * F[n - 1]
  <2>1. n - 1 \in Nat /\ n \in 1..n
    BY <1>3
  <2>2. H(n)[n] = 10 * H(n)[n - 1]
    BY <1>1, <2>1, Zenon DEF Powers
  <2>3. H(n)[n - 1] = H(n - 1)[n - 1]
    <3>1. Powers(H(n), n) /\ Powers(H(n - 1), n - 1)
      BY <1>1, <2>1, Zenon
    <3>2. \A i \in Nat : i <= n /\ i <= n - 1 => H(n)[i] = H(n - 1)[i]
      BY <2>1, <3>1, PowersAgree
    <3> QED
      BY <2>1, <3>2
  <2> QED
    BY <2>1, <2>2, <2>3
<1>4. F = [n \in Nat |-> IF n = 0 THEN 1 ELSE 10 * F[n - 1]]
  BY <1>2, <1>3
<1> HIDE DEF F
<1>5. \E f : f = [n \in Nat |-> IF n = 0 THEN 1 ELSE 10 * f[n - 1]]
  BY <1>4
<1>6. Pow10 = [n \in Nat |-> IF n = 0 THEN 1 ELSE 10 * Pow10[n - 1]]
  BY <1>5 DEF Pow10
<1> QED
  BY <1>6

\* The powers of ten are positive.
LEMMA Pow10Positive == \A n \in Nat : Pow10[n] \in Nat \ {0}
<1> DEFINE S == {n \in Nat : Pow10[n] \in Nat \ {0}}
<1>1. 0 \in S
  BY Pow10Unfolds
<1>2. ASSUME NEW n \in Nat, n \in S PROVE n + 1 \in S
  BY <1>2, Pow10Unfolds
<1> HIDE DEF S
<1>3. \A n \in Nat : n \in S
  BY <1>1, <1>2, SetInduction
<1> QED
  BY <1>3 DEF S

\* The power of a sum is the product of the powers.
LEMMA Pow10Adds == \A m, n \in Nat : Pow10[m + n] = Pow10[m] * Pow10[n]
<1> SUFFICES ASSUME NEW m \in Nat PROVE \A n \in Nat : Pow10[m + n] = Pow10[m] * Pow10[n]
  OBVIOUS
<1> DEFINE S == {n \in Nat : Pow10[m + n] = Pow10[m] * Pow10[n]}
<1>1. 0 \in S
  <2>1. Pow10[m] \in Nat /\ Pow10[0] = 1
    BY Pow10Unfolds, Pow10Positive, Zenon
  <2> QED
    BY <2>1
<1>2. ASSUME NEW n \in Nat, n \in S PROVE n + 1 \in S
  <2>1. m + n \in Nat /\ (m + (n + 1)) - 1 = m + n /\ m + (n + 1) \in Nat /\ m + (n + 1) # 0
    OBVIOUS
  <2>2. Pow10[m + (n + 1)] = 10 * Pow10[m + n] /\ Pow10[n + 1] = 10 * Pow10[n]
    BY <2>1, Pow10Unfolds
  <2>3. Pow10[m] \in Nat /\ Pow10[n] \in Nat /\ Pow10[m + n] \in Nat
    BY <2>1, Pow10Positive
  <2>4. Pow10[m + n] = Pow10[m] * Pow10[n]
    BY <1>2
  <2>5. \A a, b \in Nat : 10 * (a * b) = a * (10 * b)
    OBVIOUS
  <2> QED
    BY <2>2, <2>3, <2>4, <2>5
<1> HIDE DEF S
<1>3. \A n \in Nat : n \in S
  BY <1>1, <1>2, SetInduction
<1> QED
  BY <1>3 DEF S
-----------------------------------------------------------------------------
\* Quotient and remainder.
LEMMA DivMod ==
  ASSUME NEW n \in Int, NEW d \in Nat \ {0}
  PROVE  /\ n \div d \in Int /\ n % d \in Nat /\ n % d < d
         /\ n = d * (n \div d) + (n % d)
  OBVIOUS

\* Scaling by a positive number keeps the order.
LEMMA Scaled ==
  ASSUME NEW a \in Int, NEW b \in Int, NEW d \in Nat \ {0}
  PROVE  (a <= b <=> a * d <= b * d) /\ (a < b <=> a * d < b * d)
  OBVIOUS

\* Division rounded up is at least the quotient and less than one above it.
LEMMA CeilDivBounds ==
  ASSUME NEW n \in Int, NEW d \in Nat \ {0}
  PROVE  /\ CeilDiv(n, d) \in Int
         /\ CeilDiv(n, d) * d >= n /\ (CeilDiv(n, d) - 1) * d < n
<1> DEFINE k == n \div d
           m == n % d
<1>1. k \in Int /\ m \in Nat /\ m < d /\ n = d * k + m
  BY DivMod
<1>2. CeilDiv(n, d) = IF m > 0 THEN k + 1 ELSE k
  BY DEF CeilDiv
<1> HIDE DEF k, m
<1>3. (k + 1) * d = d * k + d /\ (k - 1) * d = d * k - d /\ k * d = d * k /\ ((k + 1) - 1) * d = d * k
  BY <1>1
<1>4. d * k \in Int
  BY <1>1
<1> QED
  BY <1>1, <1>2, <1>3, <1>4

\* It is the least integer that is at least the quotient.
LEMMA CeilDivLeast ==
  ASSUME NEW n \in Int, NEW d \in Nat \ {0}, NEW k \in Int, k * d >= n
  PROVE  CeilDiv(n, d) <= k
<1> DEFINE p == CeilDiv(n, d)
<1>1. p \in Int /\ (p - 1) * d < n
  BY CeilDivBounds
<1> HIDE DEF p
<1>2. (p - 1) * d < k * d
  BY <1>1
<1>3. p - 1 < k
  BY <1>1, <1>2, Scaled
<1> QED
  BY <1>1, <1>3 DEF p
-----------------------------------------------------------------------------
\* calculatePremium is the least number of XLM that covers the cost.
LEMMA PremiumBounds ==
  ASSUME NEW q \in [coverage: Int, rate: Int, days: Int], InRange(q)
  PROVE  /\ CalculatePremium(q) \in Int /\ q.coverage * q.rate * q.days \in Int
         /\ RateBase * Period \in Nat \ {0}
         /\ CalculatePremium(q) * (RateBase * Period) >= q.coverage * q.rate * q.days
         /\ (CalculatePremium(q) - 1) * (RateBase * Period) < q.coverage * q.rate * q.days
         /\ \A k \in Int: k * (RateBase * Period) >= q.coverage * q.rate * q.days =>
              CalculatePremium(q) <= k
<1>1. q.coverage * q.rate * q.days \in Int
  OBVIOUS
<1>2. RateBase * Period \in Nat \ {0}
  BY MoneyAssumption
<1>3. CalculatePremium(q) = CeilDiv(q.coverage * q.rate * q.days, RateBase * Period)
  BY DEF CalculatePremium
<1> QED
  BY <1>1, <1>2, <1>3, CeilDivBounds, CeilDivLeast

\* Two policies for parts of a coverage cost at least what one for all of it does.
LEMMA SplitNotCheaper ==
  ASSUME NEW q \in [coverage: Int, rate: Int, days: Int], InRange(q),
         NEW part \in 1..(q.coverage - 1)
  PROVE  CalculatePremium([q EXCEPT !.coverage = part])
           + CalculatePremium([q EXCEPT !.coverage = @ - part]) >= CalculatePremium(q)
<1> DEFINE a == [q EXCEPT !.coverage = part]
           b == [q EXCEPT !.coverage = @ - part]
           unit == RateBase * Period
           pa == CalculatePremium(a)
           pb == CalculatePremium(b)
<1>1. /\ a \in [coverage: Int, rate: Int, days: Int] /\ b \in [coverage: Int, rate: Int, days: Int]
      /\ a.coverage = part /\ a.rate = q.rate /\ a.days = q.days
      /\ b.coverage = q.coverage - part /\ b.rate = q.rate /\ b.days = q.days
  OBVIOUS
<1> HIDE DEF a, b
<1>2. InRange(a) /\ InRange(b)
  BY <1>1, MoneyAssumption DEF InRange
<1>3. pa \in Int /\ pb \in Int /\ unit \in Nat \ {0}
  BY <1>1, <1>2, PremiumBounds, Zenon
<1>4. pa * unit >= part * q.rate * q.days /\ pb * unit >= (q.coverage - part) * q.rate * q.days
  BY <1>1, <1>2, PremiumBounds, Zenon
<1>5. part * q.rate * q.days + (q.coverage - part) * q.rate * q.days = q.coverage * q.rate * q.days
  OBVIOUS
<1>6. /\ part * q.rate * q.days \in Int /\ (q.coverage - part) * q.rate * q.days \in Int
      /\ pa * unit \in Int /\ pb * unit \in Int
  BY <1>3
<1>7. (pa + pb) * unit = pa * unit + pb * unit
  BY <1>3
<1>8. (pa + pb) * unit >= q.coverage * q.rate * q.days
  BY <1>4, <1>5, <1>6, <1>7
<1>9. pa + pb \in Int
  BY <1>3
<1> HIDE DEF pa, pb, unit
<1>10. CalculatePremium(q) <= pa + pb
  BY <1>8, <1>9, PremiumBounds, Zenon DEF unit
<1>11. CalculatePremium(q) \in Int
  BY PremiumBounds, Zenon
<1> QED
  BY <1>3, <1>10, <1>11 DEF pa, pb, a, b

-----------------------------------------------------------------------------
\* A decimal without its exponent.
LEMMA Expanded ==
  ASSUME NEW v \in Decimals
  PROVE  /\ ExpandExponent(v) \in Decimals
         /\ v.exp = 0 => ExpandExponent(v).digits = v.digits /\ ExpandExponent(v).places = v.places
         /\ ExpandExponent(v).negative = v.negative
<1>1. /\ v.negative \in BOOLEAN /\ v.digits \in Nat /\ v.places \in Nat /\ v.exp \in Int
      /\ v = [negative |-> v.negative, digits |-> v.digits, places |-> v.places, exp |-> v.exp]
  BY Zenon DEF Decimals
<1>2. CASE v.exp >= v.places
  <2>1. v.exp - v.places \in Nat /\ Pow10[v.exp - v.places] \in Nat
    BY <1>1, <1>2, Pow10Positive
  <2>2. v.digits * Pow10[v.exp - v.places] \in Nat
    BY <1>1, <2>1
  <2>3. ExpandExponent(v) = [negative |-> v.negative, digits |-> v.digits * Pow10[v.exp - v.places],
                             places |-> 0, exp |-> 0]
    BY <1>1, <1>2, Zenon DEF ExpandExponent
  <2>4. v.exp = 0 => v.places = 0 /\ v.exp - v.places = 0
    BY <1>1, <1>2
  <2>5. Pow10[0] = 1
    BY Pow10Unfolds, Zenon
  <2>6. v.exp = 0 => v.digits * Pow10[v.exp - v.places] = v.digits
    BY <1>1, <2>4, <2>5
  <2> QED
    BY <1>1, <2>2, <2>3, <2>4, <2>6 DEF Decimals
<1>3. CASE ~(v.exp >= v.places)
  <2>1. ExpandExponent(v) = [negative |-> v.negative, digits |-> v.digits,
                             places |-> v.places - v.exp, exp |-> 0]
    BY <1>1, <1>3, Zenon DEF ExpandExponent
  <2>2. v.places - v.exp \in Nat
    BY <1>1, <1>3
  <2> QED
    BY <1>1, <2>1, <2>2 DEF Decimals
<1> QED
  BY <1>2, <1>3, Zenon

\* Half away from zero moves a number by at most half a unit.
LEMMA RoundAwayBounds ==
  ASSUME NEW n \in Nat, NEW d \in Nat \ {0}
  PROVE  /\ RoundAway(n, d) \in Int
         /\ 2 * (RoundAway(n, d) * d) - 2 * n <= d /\ 2 * n - 2 * (RoundAway(n, d) * d) <= d
<1> DEFINE k == n \div d
           m == n % d
<1>1. k \in Int /\ m \in Nat /\ m < d /\ n = d * k + m
  BY DivMod
<1>2. RoundAway(n, d) = IF m * 2 >= d THEN k + 1 ELSE k
  BY DEF RoundAway
<1> HIDE DEF k, m
<1>3. (k + 1) * d = d * k + d /\ k * d = d * k /\ d * k \in Int
  BY <1>1
<1> QED
  BY <1>1, <1>2, <1>3

\* What parseDecimalScaled makes of a decimal that fits the scale, and how far it
\* moves one that does not.
LEMMA ParsedFits ==
  ASSUME NEW v \in Decimals, NEW d, d = ExpandExponent(v), d.places <= Scale
  PROVE  /\ Scale - d.places \in Nat
         /\ ParseDecimalScaled(v) = Signed(d, d.digits) * Pow10[Scale - d.places]
<1>1. d.negative \in BOOLEAN /\ d.digits \in Nat /\ d.places \in Nat /\ Scale \in Nat
  BY Expanded, MoneyAssumption, Zenon DEF Decimals
<1>2. ~(d.places - Scale > 0) /\ 0 - (d.places - Scale) = Scale - d.places /\ Scale - d.places \in Nat
  BY <1>1
<1>3. ParseDecimalScaled(v) = Signed(d, d.digits * Pow10[Scale - d.places])
  BY <1>2, Zenon DEF ParseDecimalScaled
<1>4. Pow10[Scale - d.places] \in Nat
  BY <1>2, Pow10Positive, Zenon
<1> QED
  BY <1>1, <1>2, <1>3, <1>4 DEF Signed

\* parseDecimalScaled moves a number longer than the scale by half a unit at most.
LEMMA ParsedMoves ==
  ASSUME NEW v \in Decimals, NEW d, d = ExpandExponent(v), d.places > Scale
  PROVE  /\ ParseDecimalScaled(v) \in Int /\ Pow10[d.places - Scale] \in Nat \ {0}
         /\ LET unit == Pow10[d.places - Scale]
                moved == ParseDecimalScaled(v) * unit - Signed(d, d.digits)
            IN  2 * moved <= unit /\ 0 - unit <= 2 * moved
<1>1. d.negative \in BOOLEAN /\ d.digits \in Nat /\ d.places \in Nat /\ Scale \in Nat
  BY Expanded, MoneyAssumption DEF Decimals
<1>2. d.places - Scale \in Nat /\ d.places - Scale > 0
  BY <1>1
<1> DEFINE unit == Pow10[d.places - Scale]
           n == RoundAway(d.digits, unit)
<1>3. unit \in Nat \ {0}
  BY <1>2, Pow10Positive, Zenon
<1>4. ParseDecimalScaled(v) = Signed(d, n)
  BY <1>2 DEF ParseDecimalScaled
<1>5. n \in Int /\ 2 * (n * unit) - 2 * d.digits <= unit /\ 2 * d.digits - 2 * (n * unit) <= unit
  BY <1>1, <1>3, RoundAwayBounds, Zenon
<1> HIDE DEF unit, n
<1>6. n * unit \in Int /\ (0 - n) * unit = 0 - n * unit
  BY <1>3, <1>5
<1>7. CASE d.negative
  <2>1. ParseDecimalScaled(v) = 0 - n /\ Signed(d, d.digits) = 0 - d.digits
    BY <1>4, <1>7 DEF Signed
  <2>2. (0 - n) * unit - (0 - d.digits) = d.digits - n * unit
    BY <1>1, <1>6
  <2> QED
    BY <1>1, <1>3, <1>5, <1>6, <2>1, <2>2 DEF unit
<1>8. CASE ~d.negative
  <2>1. ParseDecimalScaled(v) = n /\ Signed(d, d.digits) = d.digits
    BY <1>4, <1>8 DEF Signed
  <2> QED
    BY <1>1, <1>3, <1>5, <1>6, <2>1 DEF unit
<1> QED
  BY <1>1, <1>7, <1>8, Zenon

\* parseDecimalScaled and parseFixedPointBigInt give integers.
LEMMA ParsedIsInt ==
  ASSUME NEW v \in Decimals
  PROVE  ParseDecimalScaled(v) \in Int /\ ParseFixedPointBigInt(v) \in Int
<1> DEFINE d == ExpandExponent(v)
<1>1. d.negative \in BOOLEAN /\ d.digits \in Nat /\ d.places \in Nat /\ Scale \in Nat
  BY Expanded, MoneyAssumption, Zenon DEF Decimals
<1> HIDE DEF d
<1>2. Signed(d, d.digits) \in Int
  BY <1>1 DEF Signed
<1>3. ParseDecimalScaled(v) \in Int
  <2>1. CASE d.places <= Scale
    <3>1. Scale - d.places \in Nat /\ ParseDecimalScaled(v) = Signed(d, d.digits) * Pow10[Scale - d.places]
      BY <2>1, ParsedFits, Zenon DEF d
    <3>2. Pow10[Scale - d.places] \in Nat
      BY <3>1, Pow10Positive, Zenon
    <3> QED
      BY <1>2, <3>1, <3>2
  <2>2. CASE d.places > Scale
    BY <2>2, ParsedMoves DEF d
  <2> QED
    BY <1>1, <2>1, <2>2
<1>4. v.digits \in Nat
  BY Zenon DEF Decimals
<1> QED
  BY <1>3, <1>4 DEF ParseFixedPointBigInt, Signed
-----------------------------------------------------------------------------
\* A threshold that fits the scale is compared as it is written.
LEMMA ComparedExactly ==
  ASSUME NEW v \in Decimals, NEW reading \in Int,
         NEW d, d = ExpandExponent(v), d.places <= Scale
  PROVE  /\ reading < ParseDecimalScaled(v) <=> Below(reading, Scale, Signed(d, d.digits), d.places)
         /\ reading > ParseDecimalScaled(v) <=> Below(Signed(d, d.digits), d.places, reading, Scale)
         /\ ParseDecimalScaled(v) * Pow10[d.places] = Signed(d, d.digits) * Pow10[Scale]
<1>1. d.negative \in BOOLEAN /\ d.digits \in Nat /\ d.places \in Nat /\ Scale \in Nat
  BY Expanded, MoneyAssumption DEF Decimals
<1> DEFINE exact == Signed(d, d.digits)
           up == Pow10[Scale - d.places]
           down == Pow10[d.places]
           parsed == ParseDecimalScaled(v)
<1>2. exact \in Int
  BY <1>1 DEF Signed
<1>3. Scale - d.places \in Nat /\ parsed = exact * up
  BY ParsedFits, Zenon
<1>4. up \in Nat \ {0} /\ down \in Nat \ {0}
  BY <1>1, <1>3, Pow10Positive
<1>5. Pow10[Scale] = up * down
  <2>1. Scale = (Scale - d.places) + d.places
    BY <1>1
  <2> QED
    BY <1>1, <1>3, <2>1, Pow10Adds, ZenonT(30)
<1> HIDE DEF exact, up, down, parsed
<1>6. parsed * down = exact * Pow10[Scale]
  BY <1>2, <1>3, <1>4, <1>5
<1>7. parsed \in Int
  BY <1>2, <1>3, <1>4
<1>8. (reading < parsed <=> reading * down < parsed * down) /\ (parsed < reading <=> parsed * down < reading * down)
  BY <1>4, <1>7, Scaled, Zenon
<1>9. reading > parsed <=> parsed < reading
  BY <1>7, Zenon
<1> QED
  BY <1>6, <1>8, <1>9, Zenon DEF Below, exact, down, parsed

\* A longer one is compared rightly with a reading that is further from it than
\* half a unit.
LEMMA ComparedNearly ==
  ASSUME NEW v \in Decimals, NEW reading \in Int,
         NEW d, d = ExpandExponent(v), d.places > Scale,
         NEW gap, gap = reading * Pow10[d.places - Scale] - Signed(d, d.digits),
         2 * (IF gap < 0 THEN 0 - gap ELSE gap) > Pow10[d.places - Scale]
  PROVE  /\ reading < ParseDecimalScaled(v) <=> gap < 0
         /\ reading > ParseDecimalScaled(v) <=> gap > 0
<1>1. d.negative \in BOOLEAN /\ d.digits \in Nat
  BY Expanded, Zenon DEF Decimals
<1> DEFINE exact == Signed(d, d.digits)
           unit == Pow10[d.places - Scale]
           parsed == ParseDecimalScaled(v)
<1>2. exact \in Int
  BY <1>1 DEF Signed
<1>3. /\ parsed \in Int /\ unit \in Nat \ {0}
      /\ 2 * (parsed * unit - exact) <= unit /\ 0 - unit <= 2 * (parsed * unit - exact)
  BY ParsedMoves, Zenon
<1> HIDE DEF exact, unit, parsed
<1>4. gap = reading * unit - exact /\ 2 * (IF gap < 0 THEN 0 - gap ELSE gap) > unit
  BY DEF exact, unit
<1>5. reading * unit \in Int /\ parsed * unit \in Int
  BY <1>3
<1>6. (reading < parsed <=> reading * unit < parsed * unit) /\ (parsed < reading <=> parsed * unit < reading * unit)
  BY <1>3, Scaled, Zenon
<1>7. (reading * unit < parsed * unit <=> gap < 0) /\ (parsed * unit < reading * unit <=> gap > 0)
  BY <1>2, <1>3, <1>4, <1>5, SMTT(30)
<1> QED
  BY <1>3, <1>6, <1>7, Zenon DEF parsed

\* What evaluateThreshold decides, for every comparison.
LEMMA ThresholdExact ==
  ASSUME NEW c \in [reading: Decimals, threshold: Decimals, comparison: {"LessThan", "GreaterThan"}],
         asked = [kind |-> "compare", in |-> c]
  PROVE  DecimalsExact
<1> DEFINE v == c.threshold
           d == ExpandExponent(v)
           exact == Signed(d, d.digits)
           reading == ParseFixedPointBigInt(c.reading)
<1>1. /\ c.reading \in Decimals /\ v \in Decimals /\ c.comparison \in {"LessThan", "GreaterThan"}
      /\ asked.in = c
  BY Zenon
<1>2. reading \in Int /\ ParseDecimalScaled(v) \in Int
  BY <1>1, ParsedIsInt, Zenon
<1>3. /\ c.comparison = "LessThan" => (EvaluateThreshold(c) <=> reading < ParseDecimalScaled(v))
      /\ c.comparison # "LessThan" => (EvaluateThreshold(c) <=> reading > ParseDecimalScaled(v))
  BY ZenonT(30) DEF EvaluateThreshold, CompareScaledToThreshold
<1> HIDE DEF reading
<1>4. ASSUME d.places <= Scale
      PROVE  EvaluateThreshold(c) = IF c.comparison = "LessThan" THEN Below(reading, Scale, exact, d.places)
                                    ELSE Below(exact, d.places, reading, Scale)
  <2>1. /\ reading < ParseDecimalScaled(v) <=> Below(reading, Scale, exact, d.places)
        /\ reading > ParseDecimalScaled(v) <=> Below(exact, d.places, reading, Scale)
    BY <1>1, <1>2, <1>4, ComparedExactly, Zenon
  <2> QED
    BY <1>3, <2>1, SMTT(30) DEF EvaluateThreshold, CompareScaledToThreshold, Below
<1>5. ASSUME d.places > Scale,
             2 * (IF reading * Pow10[d.places - Scale] - exact < 0
                  THEN 0 - (reading * Pow10[d.places - Scale] - exact)
                  ELSE reading * Pow10[d.places - Scale] - exact) > Pow10[d.places - Scale]
      PROVE  EvaluateThreshold(c) = IF c.comparison = "LessThan"
                                    THEN reading * Pow10[d.places - Scale] - exact < 0
                                    ELSE reading * Pow10[d.places - Scale] - exact > 0
  <2>1. /\ reading < ParseDecimalScaled(v) <=> reading * Pow10[d.places - Scale] - exact < 0
        /\ reading > ParseDecimalScaled(v) <=> reading * Pow10[d.places - Scale] - exact > 0
    BY <1>1, <1>2, <1>5, ComparedNearly, SMTT(30)
  <2> QED
    BY <1>3, <2>1, SMTT(30) DEF EvaluateThreshold, CompareScaledToThreshold
<1>6. ASSUME ValidateAmount(v)
      PROVE  ParseDecimalScaled(v) * Pow10[v.places] = Signed(v, v.digits) * Pow10[Scale]
  <2>1. d.digits = v.digits /\ d.places = v.places /\ d.negative = v.negative /\ d.places <= Scale
    BY <1>1, <1>6, Expanded, Zenon DEF ValidateAmount
  <2>2. ParseDecimalScaled(v) * Pow10[d.places] = Signed(d, d.digits) * Pow10[Scale]
    BY <1>1, <1>2, <2>1, ComparedExactly, Zenon
  <2> QED
    BY <2>1, <2>2, Zenon DEF Signed
<1> QED
  BY <1>1, <1>4, <1>5, <1>6, Zenon DEF DecimalsExact, reading

-----------------------------------------------------------------------------
\* What formatStroops writes is read back as it was.
LEMMA FormatParses == ASSUME NEW n \in Int PROVE ParseDecimalScaled(FormatStroops(n)) = n
<1> DEFINE abs == IF n < 0 THEN 0 - n ELSE n
           ten == Pow10[Scale]
           v == FormatStroops(n)
           d == ExpandExponent(v)
<1>1. Scale \in Nat /\ ten \in Nat \ {0} /\ abs \in Nat
  BY Pow10Positive, MoneyAssumption
<1>2. (abs \div ten) * ten + (abs % ten) = abs
  <2> HIDE DEF abs, ten
  <2>1. abs \div ten \in Int /\ abs = ten * (abs \div ten) + (abs % ten)
    BY <1>1, DivMod
  <2>2. (abs \div ten) * ten = ten * (abs \div ten)
    BY <1>1, <2>1, SMTT(30)
  <2> QED
    BY <2>1, <2>2, Zenon
<1>3. v = [negative |-> n < 0, digits |-> (abs \div ten) * ten + (abs % ten), places |-> Scale, exp |-> 0]
  BY Zenon DEF FormatStroops
<1> HIDE DEF ten
<1>4. v.negative = (n < 0) /\ v.digits = abs /\ v.places = Scale /\ v.exp = 0 /\ v \in Decimals
  BY <1>1, <1>2, <1>3 DEF Decimals
<1> HIDE DEF v
<1>5. d.digits = abs /\ d.places = Scale /\ d.negative = (n < 0)
  BY <1>4, Expanded, Zenon
<1> HIDE DEF d
<1>6. ParseDecimalScaled(v) = Signed(d, d.digits) * Pow10[Scale - d.places]
  BY <1>1, <1>4, <1>5, ParsedFits DEF d
<1>7. Pow10[Scale - d.places] = 1
  BY <1>1, <1>5, Pow10Unfolds
<1>8. Signed(d, d.digits) = n
  <2>1. CASE n < 0
    <3>1. d.negative
      BY <1>5, <2>1, Zenon
    <3> QED
      BY <1>5, <2>1, <3>1 DEF Signed
  <2>2. CASE ~(n < 0)
    <3>1. ~d.negative
      BY <1>5, <2>2, Zenon
    <3> QED
      BY <1>5, <2>2, <3>1, Zenon DEF Signed
  <2> QED
    BY <2>1, <2>2, Zenon
<1> QED
  BY <1>6, <1>7, <1>8 DEF v

\* The time left is the number of moments of the term that are still to come.
LEMMA RemainingCounts ==
  ASSUME NEW start \in Int, NEW end \in Int, NEW moment \in Int, start < end,
         NEW r, r.start = start, r.end = end, r.now = moment
  PROVE  /\ Remaining(r) \in 0..(end - start)
         /\ Cardinality({t \in start..(end - 1): moment <= t}) = Remaining(r)
<1> DEFINE from == IF moment <= start THEN start ELSE moment
<1>1. {t \in start..(end - 1): moment <= t} = from..(end - 1)
  OBVIOUS
<1>2. from \in Int /\ end - 1 \in Int
  OBVIOUS
<1>3. Cardinality(from..(end - 1)) = IF from > end - 1 THEN 0 ELSE (end - 1) - from + 1
  BY <1>2, FS_Interval, ZenonT(30)
<1>4. Remaining(r) = IF end < moment THEN 0 ELSE IF end - moment > end - start THEN end - start ELSE end - moment
  BY Zenon DEF Remaining
<1>5. Remaining(r) = IF from > end - 1 THEN 0 ELSE (end - 1) - from + 1
  BY <1>4
<1>6. Remaining(r) \in 0..(end - start)
  BY <1>4
<1> HIDE DEF from
<1> QED
  BY <1>1, <1>3, <1>5, <1>6, Zenon

\* What cancelPolicy returns, for every refund.
LEMMA RefundExact ==
  ASSUME NEW r \in [premium: Decimals, start: Int, end: Int, now: Int],
         asked = [kind |-> "refund", in |-> r]
  PROVE  RefundProRata
<1> SUFFICES ASSUME r.start < r.end PROVE RefundProRata
  BY Zenon DEF RefundProRata
<1> DEFINE total == r.end - r.start
           left == Cardinality({t \in r.start..(r.end - 1): r.now <= t})
           paid == Stroops(r.premium)
           refund == ParseDecimalScaled(CalculateProRatedRefund(r))
<1>1. total \in Nat \ {0} /\ left = Remaining(r) /\ left \in 0..total
  BY RemainingCounts
<1>2. paid \in Nat
  <2>1. r.premium.places \in Nat /\ r.premium.digits \in Nat /\ Scale \in Nat
    BY MoneyAssumption, Zenon DEF Decimals
  <2>2. CASE r.premium.places > Scale
    <3>1. Pow10[r.premium.places - Scale] \in Nat \ {0}
      BY <2>1, <2>2, Pow10Positive
    <3> QED
      BY <2>1, <2>2, <3>1 DEF Stroops
  <2>3. CASE ~(r.premium.places > Scale)
    <3>1. Pow10[Scale - r.premium.places] \in Nat
      BY <2>1, <2>3, Pow10Positive
    <3> QED
      BY <2>1, <2>3, <3>1 DEF Stroops
  <2> QED
    BY <2>2, <2>3, Zenon
<1> HIDE DEF left, paid
<1>3. paid * left \in Int
  BY <1>1, <1>2
<1>4. refund = (paid * left) \div total
  <2>1. CalculateProRatedRefund(r) = FormatStroops((paid * left) \div total)
    BY <1>1 DEF CalculateProRatedRefund, paid
  <2>2. (paid * left) \div total \in Int
    BY <1>1, <1>3, DivMod
  <2> QED
    BY <2>1, <2>2, FormatParses, Zenon
<1> HIDE DEF refund, total
<1>5. /\ refund \in Int /\ (paid * left) % total \in Nat /\ (paid * left) % total < total
      /\ paid * left = total * refund + ((paid * left) % total)
  BY <1>1, <1>3, <1>4, DivMod, Zenon
<1>6. refund * total = total * refund /\ (refund + 1) * total = total * refund + total /\ total * refund \in Int
  BY <1>1, <1>5
<1>7. refund * total <= paid * left /\ paid * left < (refund + 1) * total
  BY <1>1, <1>5, <1>6
<1>8. paid * left <= paid * total
  BY <1>1, <1>2
<1>9. refund <= paid
  <2>1. refund * total <= paid * total
    BY <1>1, <1>2, <1>3, <1>5, <1>6, <1>7, <1>8
  <2> QED
    BY <1>1, <1>2, <1>5, <2>1, Scaled, SMTT(30)
<1> QED
  BY <1>7, <1>9, Zenon DEF RefundProRata, total, left, paid, refund

\* calculatePremium, for every quote.
LEMMA PremiumExact ==
  ASSUME NEW q \in [coverage: Int, rate: Int, days: Int], asked = [kind |-> "quote", in |-> q]
  PROVE  PremiumNeverShort
  BY PremiumBounds, SplitNotCheaper, Zenon DEF PremiumNeverShort

\* A calculation was asked for, or none.
Asked ==
  \/ asked = Nothing
  \/ \E q \in Quotes: asked = [kind |-> "quote", in |-> q]
  \/ \E r \in Refunds: asked = [kind |-> "refund", in |-> r]
  \/ \E c \in Comparisons: asked = [kind |-> "compare", in |-> c]

\* A behaviour performs one of the calculations in range.
LEMMA AskedStays == (MoneyInit => Asked) /\ (Asked /\ [MoneyNext]_asked => Asked')
  BY DEF MoneyInit, MoneyNext, Calculate, Asked

\* For every quote calculatePremium collects the cost and less than one XLM more,
\* and parts of a coverage are never cheaper than the whole; for every refund what
\* cancelPolicy writes reads back as the premium's share of the time left, floored
\* to the stroop and never more than was paid.
THEOREM AmountsAreExact == MoneySpec => []AmountsExact
<1>1. Asked => AmountsExact
  <2>1. ASSUME NEW q \in Quotes, asked = [kind |-> "quote", in |-> q] PROVE AmountsExact
    BY <2>1, PremiumExact, MoneyAssumption DEF AmountsExact, RefundProRata
  <2>2. ASSUME NEW r \in Refunds, asked = [kind |-> "refund", in |-> r] PROVE AmountsExact
    BY <2>2, RefundExact, MoneyAssumption DEF AmountsExact, PremiumNeverShort
  <2>3. ASSUME asked.kind \notin {"quote", "refund"} PROVE AmountsExact
    BY <2>3, Zenon DEF AmountsExact, PremiumNeverShort, RefundProRata
  <2> QED
    BY <2>1, <2>2, <2>3, SMTT(30) DEF Asked, Nothing
<1> QED
  BY <1>1, AskedStays, PTL DEF MoneySpec

\* evaluateThreshold compares the exact numbers, in any notation and of any length,
\* but for readings within half a unit of a threshold that is longer than the
\* scale; an amount the precision check accepts is stored without rounding.
THEOREM DecimalsAreExact == MoneySpec => []DecimalsExact
<1>1. Asked => DecimalsExact
  <2>1. ASSUME NEW c \in Comparisons, asked = [kind |-> "compare", in |-> c] PROVE DecimalsExact
    BY <2>1, ThresholdExact, MoneyAssumption, SMTT(30)
  <2>2. ASSUME asked.kind # "compare" PROVE DecimalsExact
    BY <2>2, Zenon DEF DecimalsExact
  <2> QED
    BY <2>1, <2>2 DEF Asked, Nothing
<1> QED
  BY <1>1, AskedStays, PTL DEF MoneySpec
=============================================================================
