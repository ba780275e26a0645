---------------------------- MODULE MCPurchase ----------------------------
(***************************************************************************)
(* Instances of paying for a policy (PolicyPurchase), of what it may cover *)
(* (Underwriting) and of the arithmetic of quotes, refunds and payout      *)
(* thresholds (MoneyMath). They share no state, so a behaviour runs one.   *)
(***************************************************************************)
EXTENDS PolicyPurchase, Underwriting, MoneyMath

VARIABLE part

vars == <<part, buyVars, coverVars, asked>>

-----------------------------------------------------------------------------
\* The values TLC gives the constants

\* No fault, or all of them.
AllOrNoFaults == {{}, {"refuse", "rpc", "crash"}}

\* Quotes inside the bounds and one step outside each.
SmallQuotes == [coverage: 0..(MaxCoverage + 1), rate: 0..(MaxRate + 1), days: 0..(MaxDuration + 1)]

\* Decimals with up to two places more than the scale, and an exponent.
SmallDecimals == [negative: BOOLEAN, digits: 0..25, places: 0..(Scale + 2), exp: {0 - 2, 0, 2}]
Written == {d \in SmallDecimals: d.exp = 0}

SmallRefunds == [premium: {d \in Written: ~d.negative}, start: {1}, end: 1..4, now: 0..5]
Readings == {d \in Written: d.places \in {0, Scale + 1} /\ d.digits % 3 # 1}
SmallComparisons ==
  [reading: Readings, threshold: SmallDecimals, comparison: {"LessThan", "GreaterThan"}]

\* Keys of two formats for two periods; products that judge a key by its month
\* and by its day, with limits that are no whole number of XLM.
SmallKeys == [format: {"rainfall", "flight"}, at: {0, 2}]
SmallProducts ==
  {[category |-> c, min |-> 3, max |-> 4, maxDuration |-> 1]: c \in {"crop", "flight"}}

-----------------------------------------------------------------------------
Init ==
  /\ part \in {"buy", "cover", "money"}
  /\ BuyInit /\ CoverInit /\ MoneyInit
  /\ part # "buy" => faults = {}
  /\ part # "cover" => readings = {} /\ balance = 0 /\ product.category = "crop"

Buying(A) == part = "buy" /\ A /\ UNCHANGED <<part, coverVars, asked>>
Covering(A) == part = "cover" /\ A /\ UNCHANGED <<part, buyVars, asked>>
Counting(A) == part = "money" /\ A /\ UNCHANGED <<part, buyVars, coverVars>>

Next == Buying(BuyNext) \/ Covering(CoverNext) \/ Counting(MoneyNext)

Spec ==
  /\ Init /\ [][Next]_vars
  /\ \A r \in Requests: WF_vars(Buying(Step(r)))
  /\ \A h \in Hashes: WF_vars(Buying(Include(h)))
=============================================================================
