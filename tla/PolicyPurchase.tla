-------------------------- MODULE PolicyPurchase --------------------------
(***************************************************************************)
(* Buying a policy: confirmAndCreatePolicy and createPolicy                *)
(* (policy/policy.service.ts) over simulateAssembleAndSend and             *)
(* waitForTransaction (stellar/stellar.service.ts).                        *)
(*                                                                         *)
(* One wallet buys one product for one oracle key. Its client signs an XDR *)
(* (each with a sequence number of its own) and may send it in several     *)
(* requests: the request timeout is shorter than the wait for the          *)
(* transaction, so a client that was told to retry overlaps a handler that *)
(* still runs. A transaction's hash is its XDR with the fee the simulation *)
(* put in; the chain takes one transaction per sequence number. The chain  *)
(* and the RPC node are external: a node may refuse, lose, answer late or  *)
(* answer wrongly with an error, never report a success that is none.      *)
(***************************************************************************)
EXTENDS Naturals, FiniteSets

CONSTANTS
  Requests,          \* calls of POST policies/confirm
  Xdrs,              \* signed transactions of the client
  Fees,              \* outcomes of a simulation
  MAX_SEND_ATTEMPTS,
  MaxPolls,          \* bound: polls that fit into the timeout of a wait
  FaultSets          \* which of "refuse" (a check fails after the payment),
                     \* "rpc" (a send fails) and "crash" may happen

Hashes == Xdrs \X Fees

VARIABLES
  faults,            \* the faults of this behaviour
  pc,                \* per request: where its handler is
  tx,                \* per request: the hash it sent, or its XDR with no fee yet
  tries,             \* per request: sends so far
  polls,             \* per request: polls so far
  chain,             \* per hash: none, pending, SUCCESS, FAILED
  policies           \* the rows: the hash each was created with

buyVars == <<faults, pc, tx, tries, polls, chain, policies>>

NoTx == <<"none", "none">>
Unassembled(x) == <<x, "none">>

BuyInit ==
  /\ faults \in FaultSets
  /\ pc = [r \in Requests |-> "idle"]
  /\ tx = [r \in Requests |-> NoTx]
  /\ tries = [r \in Requests |-> 0]
  /\ polls = [r \in Requests |-> 0]
  /\ chain = [h \in Hashes |-> "none"]
  /\ policies = {}

Goto(r, label) == pc' = [pc EXCEPT ![r] = label]

-----------------------------------------------------------------------------
\* The handler up to the send

\* The XDR parses, has not expired, comes from the caller's wallet and calls
\* buy_policy with the request's own arguments.
Accept(r) == \E x \in Xdrs:
  /\ pc[r] = "idle"
  /\ Goto(r, "simulate")
  /\ tx' = [tx EXCEPT ![r] = Unassembled(x)]
  /\ UNCHANGED <<faults, tries, polls, chain, policies>>

\* One of those checks fails: 400, 403 or 410, and nothing was sent.
Refuse(r) ==
  /\ pc[r] = "idle"
  /\ Goto(r, "refused")
  /\ UNCHANGED <<faults, tx, tries, polls, chain, policies>>

\* simulateTransaction and assembleTransaction: the simulation fixes the fee;
\* it may also fail or time out.
Simulate(r) ==
  /\ pc[r] = "simulate"
  /\ \/ \E f \in Fees:
          /\ tx' = [tx EXCEPT ![r] = <<@[1], f>>]
          /\ Goto(r, "send")
     \/ /\ "rpc" \in faults
        /\ Goto(r, "failed")
        /\ UNCHANGED tx
  /\ UNCHANGED <<faults, tries, polls, chain, policies>>

\* Another transaction with this one's sequence number is known.
SequenceUsed(h) == \E g \in Hashes: g # h /\ g[1] = h[1] /\ chain[g] # "none"

\* The mutant: only a transaction this very call made pending is awaited.
Awaited_PendingOnly(r, status) == Goto(r, IF status = "PENDING" THEN "wait" ELSE "product")

\* PENDING and DUPLICATE are both awaited before anything is stored.
Awaited(r, status) == Goto(r, IF status \in {"PENDING", "DUPLICATE"} THEN "wait" ELSE "product")

\* sendTransaction answers. A transaction the node has already taken is a
\* DUPLICATE, one whose sequence number is used an ERROR.
Send(r) ==
  LET h == tx[r] IN
  /\ pc[r] = "send"
  /\ tries' = [tries EXCEPT ![r] = @ + 1]
  /\ \/ /\ chain[h] = "none" /\ ~SequenceUsed(h)
        /\ chain' = [chain EXCEPT ![h] = "pending"]
        /\ Awaited(r, "PENDING")
     \/ /\ chain[h] # "none"
        /\ Awaited(r, "DUPLICATE")
        /\ UNCHANGED chain
     \/ /\ chain[h] = "none" /\ SequenceUsed(h)
        /\ Goto(r, "failed")
        /\ UNCHANGED chain
  /\ UNCHANGED <<faults, tx, polls, policies>>

\* TRY_AGAIN_LATER: the node did not take it; it is sent again, and after
\* MAX_SEND_ATTEMPTS the call fails.
TryAgainLater(r) ==
  /\ pc[r] = "send"
  /\ "rpc" \in faults
  /\ tries' = [tries EXCEPT ![r] = @ + 1]
  /\ Goto(r, IF tries[r] + 1 < MAX_SEND_ATTEMPTS THEN "send" ELSE "failed")
  /\ UNCHANGED <<faults, tx, polls, chain, policies>>

\* An ERROR, or withTimeout cuts the send: the handler fails, the transaction
\* may be on its way.
SendFails(r) ==
  LET h == tx[r] IN
  /\ pc[r] = "send"
  /\ "rpc" \in faults
  /\ Goto(r, "failed")
  /\ \/ UNCHANGED chain
     \/ chain[h] = "none" /\ ~SequenceUsed(h) /\ chain' = [chain EXCEPT ![h] = "pending"]
  /\ UNCHANGED <<faults, tx, tries, polls, policies>>

-----------------------------------------------------------------------------
\* The wait

\* What a poll that got no final answer leads to: the next one, or the timeout.
NextPoll(r) == Goto(r, IF polls[r] + 1 < MaxPolls THEN "wait" ELSE "timedOut")

\* The mutant: a poll that fails ends the wait.
AfterPollError_Fails(r) == Goto(r, "failed")

\* A poll that fails for a transient reason is retried within the timeout.
AfterPollError(r) == NextPoll(r)

Poll(r) ==
  /\ pc[r] = "wait"
  /\ polls' = [polls EXCEPT ![r] = @ + 1]
  /\ \/ chain[tx[r]] = "SUCCESS" /\ Goto(r, "product")
     \/ chain[tx[r]] = "FAILED" /\ Goto(r, "failed")
     \/ chain[tx[r]] = "pending" /\ NextPoll(r)
     \/ AfterPollError(r)
  /\ UNCHANGED <<faults, tx, tries, chain, policies>>

\* The network includes a transaction, or drops it as failed.
Include(h) ==
  /\ chain[h] = "pending"
  /\ \E s \in {"SUCCESS", "FAILED"}: chain' = [chain EXCEPT ![h] = s]
  /\ UNCHANGED <<faults, pc, tx, tries, polls, policies>>

-----------------------------------------------------------------------------
\* createPolicy

\* getProductById, the duration, the pool balance, the oracle key and its
\* first reading: any of them may have changed since the quote.
Check(r) ==
  /\ pc[r] = "product"
  /\ \/ Goto(r, "insert")
     \/ "refuse" \in faults /\ Goto(r, "unrecorded")
  /\ UNCHANGED <<faults, tx, tries, polls, chain, policies>>

\* policy.create: the unique keys (holder, product, oracle key) and txHash let
\* one row in; any other insert is a 409.
Insert(r) ==
  /\ pc[r] = "insert"
  /\ IF policies = {}
     THEN policies' = {tx[r]} /\ Goto(r, "created")
     ELSE UNCHANGED policies /\ Goto(r, "conflict")
  /\ UNCHANGED <<faults, tx, tries, polls, chain>>

\* The process dies: its handlers are gone.
Crash ==
  /\ "crash" \in faults
  /\ pc' = [r \in Requests |->
       IF pc[r] \in {"simulate", "send", "wait", "product", "insert"} THEN "lost" ELSE pc[r]]
  /\ UNCHANGED <<faults, tx, tries, polls, chain, policies>>

Step(r) ==
  \/ Simulate(r) \/ Send(r) \/ TryAgainLater(r) \/ SendFails(r)
  \/ Poll(r) \/ Check(r) \/ Insert(r)

BuyNext ==
  \/ \E r \in Requests: Accept(r) \/ Refuse(r) \/ Step(r)
  \/ \E h \in Hashes: Include(h)
  \/ Crash

BuySpec == BuyInit /\ [][BuyNext]_buyVars

-----------------------------------------------------------------------------
\* Every policy row names a transaction that succeeded on chain: also when the
\* request that stored it found its transaction already sent by another one.
PolicyBacked == \A h \in policies: chain[h] = "SUCCESS"

\* A payment whose handler is alive is not forgotten: once a transaction that
\* a request waits for has succeeded, a policy exists in the end, although
\* polls fail and other requests send the same XDR, unless the wait runs into
\* its timeout or a later check refuses.
PaidGetsPolicy ==
  \A r \in Requests:
    pc[r] = "wait" /\ chain[tx[r]] = "SUCCESS" /\ faults = {} ~>
      policies # {} \/ pc[r] = "timedOut"
=============================================================================
