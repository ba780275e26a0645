---------------------------- MODULE Underwriting ----------------------------
(***************************************************************************)
(* What a policy may cover: the quote of buyPolicy, the checks that        *)
(* createPolicy repeats once the premium is paid, and updatePolicy         *)
(* (policy/policy.service.ts, policy/policy.controller.ts).                *)
(*                                                                         *)
(* One product. A key of a crop product names a month, a key of a flight   *)
(* product a day; a policy covers a window of time. Between the quote and  *)
(* the confirmation, and between the two queries of an update, time passes *)
(* and other calls run. Payment is PolicyPurchase's.                       *)
(***************************************************************************)
EXTENDS Integers, FiniteSets, FiniteSetsExt

CONSTANTS
  Orders,      \* purchases, one policy each
  Updates,     \* calls of updatePolicy
  Products,    \* [category, min, max, maxDuration], amounts in 1/Unit XLM
  Unit,        \* parts of an XLM
  Keys,        \* [format, at]: what the key is written as, and its period
  Month,       \* length of a month
  Coverages, Durations,
  Balances,    \* balances of the pool, in the token's 1/Unit parts;
               \* 0 stands for a failed read too: both refuse
  Capacity,    \* POOL_CAPACITY_XLM, 0 when it is not set
  MaxClock      \* bound: the clock

\* Every day of the code is a number, and a duration is at least 1.
ASSUME CoverAssumption ==
  /\ Month \in Nat /\ MaxClock \in Nat
  /\ Durations \subseteq Nat \ {0}
  /\ \A key \in Keys: key.at \in Int

VARIABLES
  product,     \* the product of this behaviour
  now,
  balance,     \* what a read of the pool's balance gives
  readings,    \* keys the oracle has a reading of
  order,       \* per order: [pc, key, coverage, duration, start]
  policy,      \* per order: its row, or None
  update,      \* per update: [pc, of, existing, key]
  announced,   \* per order: the key of the last oracle-key event, or None
  overlapped   \* orders two updates were at work on at once

coverVars == <<product, now, balance, readings, order, policy, update, announced, overlapped>>

None == [none |-> TRUE]
Times == 0..MaxClock
IdleUpdate == [pc |-> "idle", of |-> "none", existing |-> None, key |-> None]
NoOrder == [pc |-> "idle", key |-> None, coverage |-> 0, duration |-> 0, start |-> 0]

CoverInit ==
  /\ product \in Products
  /\ now = 0
  /\ balance \in Balances
  /\ readings \in SUBSET Keys
  /\ order = [o \in Orders |-> NoOrder]
  /\ policy = [o \in Orders |-> None]
  /\ update = [u \in Updates |-> IdleUpdate]
  /\ announced = [o \in Orders |-> None]
  /\ overlapped = {}

-----------------------------------------------------------------------------
\* The checks

\* The format of the key fits the product's category.
KeyFormat(key) ==
  /\ product.category = "crop" => key.format = "rainfall"
  /\ product.category = "flight" => key.format = "flight"

\* validateOracleKey with a window: a month must overlap it, a day lie in it.
ValidateOracleKey(key, start, end) ==
  /\ KeyFormat(key)
  /\ product.category = "crop" => ~(end <= key.at \/ start >= key.at + Month)
  /\ product.category = "flight" => ~(key.at < start \/ key.at > end)

\* validateCoverage: the limits are cut to whole XLM, a coverage that is not
\* whole throws, and so does a failed read of the pool. The number of XLM is
\* compared with the number of parts the pool holds.
ValidateCoverage(coverage, key) ==
  /\ coverage % Unit = 0
  /\ coverage \div Unit >= product.min \div Unit
  /\ coverage \div Unit <= product.max \div Unit
  /\ coverage \div Unit <= balance
  /\ KeyFormat(key)

\* The coverage of the active policies.
Committed == MapThenSumSet(LAMBDA o: policy[o].coverage,
                             {o \in Orders: policy[o] # None /\ order[o].pc = "active"})

ValidatePoolCapacity(coverage) == Capacity > 0 => coverage <= Capacity - Committed

-----------------------------------------------------------------------------
\* Buying

\* buyPolicy: the quote, which reserves nothing and does not know the window.
Quote(o) == \E key \in Keys, coverage \in Coverages, duration \in Durations:
  /\ order[o].pc = "idle"
  /\ ValidateCoverage(coverage, key)
  /\ ValidatePoolCapacity(coverage)
  /\ order' = [order EXCEPT ![o] = [pc |-> "quoted", key |-> key, coverage |-> coverage,
                                    duration |-> duration, start |-> 0]]
  /\ UNCHANGED <<product, now, balance, readings, policy, update, announced, overlapped>>

\* createPolicy, once the payment has landed: the window starts now.
BeginCreate(o) ==
  /\ order[o].pc = "quoted"
  /\ order' = [order EXCEPT ![o].pc = "creating", ![o].start = now]
  /\ UNCHANGED <<product, now, balance, readings, policy, update, announced, overlapped>>

\* The checks run again, with the window, and a reading of the key must exist.
Accepted(o) ==
  /\ order[o].duration <= product.maxDuration
  /\ ValidateCoverage(order[o].coverage, order[o].key)
  /\ ValidateOracleKey(order[o].key, order[o].start, order[o].start + order[o].duration)
  /\ order[o].key \in readings

CreatePolicy(o) ==
  /\ order[o].pc = "creating"
  /\ order' = [order EXCEPT ![o].pc = IF Accepted(o) THEN "active" ELSE "refused"]
  /\ policy' = IF ~Accepted(o) THEN policy ELSE [policy EXCEPT ![o] =
       [key |-> order[o].key, coverage |-> order[o].coverage,
        start |-> order[o].start, end |-> order[o].start + order[o].duration]]
  /\ UNCHANGED <<product, now, balance, readings, update, announced, overlapped>>

\* The policy is cancelled, claimed or expires: ClaimsLifecycle says when.
Leave(o) ==
  /\ order[o].pc = "active"
  /\ order' = [order EXCEPT ![o].pc = "over"]
  /\ UNCHANGED <<product, now, balance, readings, policy, update, announced, overlapped>>

-----------------------------------------------------------------------------
\* updatePolicy

\* The controller finds the policy and the service reads the row. What the
\* request asks for is chosen where it is first looked at.
FindPolicy(u) == \E o \in Orders:
  /\ update[u].pc = "idle" /\ policy[o] # None
  /\ update' = [update EXCEPT ![u] =
       [pc |-> "read", of |-> o, existing |-> policy[o], key |-> policy[o].key]]
  /\ overlapped' = overlapped \cup ({update[v].of: v \in Updates} \cap {o})
  /\ UNCHANGED <<product, now, balance, readings, order, policy, announced>>

\* The rows a request may ask for: new key, start or end, or those it had.
Wanted(old) == [key: Keys \cup {old.key}, coverage: {old.coverage},
                start: Times \cup {old.start}, end: Times \cup {old.end}]

\* The mutant: a new key is checked against the window the policy had.
UpdateValid_OldWindow(old, new) ==
  /\ new.end > new.start
  /\ new # old
  /\ ValidateOracleKey(new.key, old.start, old.end)

\* The window is not empty, something changes, and the key fits the window.
UpdateValid(old, new) ==
  /\ new.end > new.start
  /\ new # old
  /\ ValidateOracleKey(new.key, new.start, new.end)

\* The request is refused, or asks for nothing new: nothing is written.
LeaveAlone(u) ==
  /\ update[u].pc = "read"
  /\ \E new \in Wanted(update[u].existing): ~UpdateValid(update[u].existing, new)
  /\ update' = [update EXCEPT ![u] = IdleUpdate]
  /\ UNCHANGED <<product, now, balance, readings, order, policy, announced, overlapped>>

\* Only the columns that change are written, to the row as it is by now.
UpdatePolicy(u) ==
  /\ update[u].pc = "read"
  /\ \E new \in Wanted(update[u].existing):
       /\ UpdateValid(update[u].existing, new)
       /\ policy' = [policy EXCEPT ![update[u].of] = [f \in DOMAIN @ |->
            IF new[f] # update[u].existing[f] THEN new[f] ELSE @[f]]]
       /\ update' = [update EXCEPT ![u].pc = "written", ![u].key = new.key]
  /\ UNCHANGED <<product, now, balance, readings, order, announced, overlapped>>

\* After the write a new key is announced to streams and webhooks.
Announce(u) ==
  /\ update[u].pc = "written"
  /\ announced' = [announced EXCEPT ![update[u].of] =
       IF update[u].key # update[u].existing.key THEN update[u].key ELSE @]
  /\ update' = [update EXCEPT ![u] = IdleUpdate]
  /\ UNCHANGED <<product, now, balance, readings, order, policy, overlapped>>

-----------------------------------------------------------------------------
\* Time passes, the oracle reads and the pool's balance changes with the chain.
Tick ==
  /\ now < MaxClock
  /\ now' = now + 1
  /\ balance' \in Balances
  /\ readings' = Keys
  /\ UNCHANGED <<product, order, policy, update, announced, overlapped>>

CoverNext ==
  \/ \E o \in Orders: Quote(o) \/ BeginCreate(o) \/ CreatePolicy(o) \/ Leave(o)
  \/ \E u \in Updates: FindPolicy(u) \/ LeaveAlone(u) \/ UpdatePolicy(u) \/ Announce(u)
  \/ Tick

CoverSpec == CoverInit /\ [][CoverNext]_coverVars

-----------------------------------------------------------------------------
\* A policy is about something that happens while it runs: the month or day of
\* its oracle key meets its window, however late after the quote it was created
\* and however often key and window were changed, unless two updates of it
\* overlapped.
KeyInWindow == \A o \in Orders: policy[o] # None /\ o \notin overlapped =>
  LET p == policy[o] IN
  /\ p.start < p.end
  /\ product.category = "crop" => p.start < p.key.at + Month /\ p.key.at < p.end
  /\ product.category = "flight" => p.start <= p.key.at /\ p.key.at <= p.end

\* The last oracle-key event of a policy names the key its row holds, once no
\* update of it is under way. Not so when two updates of it overlap: their events
\* may be sent in the other order than their writes.
LastEventIsCurrent == \A o \in Orders:
  announced[o] # None /\ (\A u \in Updates: update[u].of # o) => announced[o] = policy[o].key

\* A policy's coverage is one the product allows.
CoverageInRange == \A o \in Orders: policy[o] # None =>
  product.min <= policy[o].coverage /\ policy[o].coverage <= product.max

\* The policies together stay within the pool's capacity.
WithinCapacity == Capacity > 0 => Committed <= Capacity
=============================================================================
