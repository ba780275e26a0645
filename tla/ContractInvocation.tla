------------------------- MODULE ContractInvocation -------------------------
(***************************************************************************)
(* invokeContract of stellar/stellar.service.ts: the calls of one account  *)
(* in one process, chained by withAccountLock, each with up to             *)
(* MaxAttempts sends (doInvokeContract), against a ledger that applies a   *)
(* broadcast transaction at any time inside its time bounds.               *)
(*                                                                         *)
(* faults says which answers of the RPC node may be lost or wrong:         *)
(*   "send"   sendTransaction timed out, broadcast or not;                 *)
(*   "error"  sendTransaction answered ERROR for one that was broadcast;   *)
(*   "poll"   waitForTransaction never got an answer;                      *)
(*   "dedup"  the check before a resend failed.                            *)
(***************************************************************************)
EXTENDS Integers, Sequences, FiniteSets

CONSTANTS Call,          \* calls of invokeContract with one signer
          MaxAttempts,   \* MAX_ATTEMPTS
          TimeBound,     \* setTimeout(30), in ticks
          WaitFor,       \* the 60 s of waitForTransaction, in ticks
          FaultSets      \* the sets of faults a behaviour may have

ASSUME AttemptsAssumption == MaxAttempts \in Nat \ {0}
ASSUME TimesAssumption ==
    TimeBound \in Nat \ {0} /\ WaitFor \in Nat /\ TimeBound <= WaitFor

VARIABLES
    chain,     \* calls that hold or await the account lock, the holder first
    pc,        \* the step of each call
    attempt,   \* the attempt it is in
    last,      \* lastSentHash: the attempt that sent it, 0 for null
    wait,      \* ticks left of its waitForTransaction
    result,    \* the hash it returned: the attempt that sent it, 0 for none
    tx,        \* the transactions it built: status, sequence number, time left
    sequence,  \* the account's sequence number on the ledger
    faults     \* what the RPC node may do wrong in this behaviour

vars == <<chain, pc, attempt, last, wait, result, tx, sequence, faults>>

Attempt == 1..MaxAttempts
Unbuilt == [status |-> "none", seq |-> 0, left |-> 0]
TxStatus == {"none", "built", "sent", "success", "failed"}

TypeOK ==
    /\ chain \in Seq(Call)
    /\ pc \in [Call -> {"new", "queued", "check", "build", "send", "wait",
                        "returned", "thrown"}]
    /\ attempt \in [Call -> Attempt]
    /\ last \in [Call -> 0..MaxAttempts]
    /\ wait \in [Call -> 0..WaitFor]
    /\ result \in [Call -> 0..MaxAttempts]
    /\ tx \in [Call -> [Attempt -> [status : TxStatus, seq : Nat,
                                    left : 0..TimeBound]]]
    /\ sequence \in Nat
    /\ faults \in FaultSets

Init ==
    /\ chain = <<>>
    /\ pc = [c \in Call |-> "new"]
    /\ attempt = [c \in Call |-> 1]
    /\ last = [c \in Call |-> 0]
    /\ wait = [c \in Call |-> 0]
    /\ result = [c \in Call |-> 0]
    /\ tx = [c \in Call |-> [a \in Attempt |-> Unbuilt]]
    /\ sequence = 0
    /\ faults \in FaultSets

Goto(c, step) == pc' = [pc EXCEPT ![c] = step]
Current(c) == tx[c][attempt[c]]
SetStatus(c, s) == tx' = [tx EXCEPT ![c][attempt[c]].status = s]

-----------------------------------------------------------------------------
(* withAccountLock                                                         *)

\* A call joins the account's promise chain.
Invoke(c) ==
    /\ pc[c] = "new"
    /\ chain' = Append(chain, c)
    /\ Goto(c, "queued")
    /\ UNCHANGED <<attempt, last, wait, result, tx, sequence>>

MyTurn(c) == Head(chain) = c

\* The previous call's gate opened.
Enter(c) ==
    /\ pc[c] = "queued"
    /\ MyTurn(c)
    /\ Goto(c, "check")
    /\ UNCHANGED <<chain, attempt, last, wait, result, tx, sequence>>

\* The finally that opens the holder's gate, however the call ends.
Leave(c, step) ==
    /\ chain' = Tail(chain)
    /\ Goto(c, step)

Return(c, a) ==
    /\ Leave(c, "returned")
    /\ result' = [result EXCEPT ![c] = a]
    /\ UNCHANGED <<attempt, last, wait, tx, sequence>>

-----------------------------------------------------------------------------
(* doInvokeContract                                                        *)

Landed(c) == {a \in Attempt : tx[c][a].status = "success"}

RetryOrThrow_NoFinally(c) ==
    /\ IF attempt[c] < MaxAttempts
       THEN attempt' = [attempt EXCEPT ![c] = @ + 1] /\ Goto(c, "check")
       ELSE Goto(c, "thrown") /\ UNCHANGED attempt
    /\ UNCHANGED <<chain, result, sequence>>

\* The catch of the loop: another attempt after the backoff, or all failed.
RetryOrThrow(c) ==
    /\ IF attempt[c] < MaxAttempts
       THEN attempt' = [attempt EXCEPT ![c] = @ + 1] /\ Goto(c, "check")
                                                    /\ UNCHANGED chain
       ELSE Leave(c, "thrown") /\ UNCHANGED attempt
    /\ UNCHANGED <<result, sequence>>

MustCheck_Never(c) == FALSE
MustCheck(c) == attempt[c] > 1 /\ last[c] # 0

\* The check before a resend found the last send on the ledger.
DedupLanded(c) ==
    /\ pc[c] = "check"
    /\ MustCheck(c)
    /\ last[c] \in Landed(c)
    /\ Return(c, last[c])

\* First attempt, no hash to check, not SUCCESS, or the check itself failed.
DedupPassed(c) ==
    /\ pc[c] = "check"
    /\ MustCheck(c) /\ "dedup" \notin faults => last[c] \notin Landed(c)
    /\ Goto(c, "build")
    /\ UNCHANGED <<chain, attempt, last, wait, result, tx, sequence>>

\* getAccount, build with the next sequence number and setTimeout, simulate.
Build(c) ==
    /\ pc[c] = "build"
    /\ tx' = [tx EXCEPT ![c][attempt[c]] =
                 [status |-> "built", seq |-> sequence + 1, left |-> TimeBound]]
    /\ Goto(c, "send")
    /\ UNCHANGED <<chain, attempt, last, wait, result, sequence>>

\* SimulationFailedError: rethrown at once.
SimulationFailed(c) ==
    /\ pc[c] = "build"
    /\ Leave(c, "thrown")
    /\ UNCHANGED <<attempt, last, wait, result, tx, sequence>>

\* getAccount or simulateTransaction failed or timed out.
BuildFailed(c) ==
    /\ pc[c] = "build"
    /\ RetryOrThrow(c)
    /\ UNCHANGED <<last, wait, tx>>

Remember(c) == last' = [last EXCEPT ![c] = attempt[c]]

\* sendTransaction answered PENDING: waitForTransaction begins.
Sent(c) ==
    /\ pc[c] = "send"
    /\ Current(c).seq > sequence
    /\ SetStatus(c, "sent")
    /\ Remember(c)
    /\ wait' = [wait EXCEPT ![c] = WaitFor]
    /\ Goto(c, "wait")
    /\ UNCHANGED <<chain, attempt, result, sequence>>

\* ERROR (a bad sequence number is one) or TRY_AGAIN_LATER: the hash is kept.
SendRejected(c) ==
    /\ pc[c] = "send"
    /\ \/ UNCHANGED tx
       \/ "error" \in faults /\ SetStatus(c, "sent")
    /\ Remember(c)
    /\ RetryOrThrow(c)
    /\ UNCHANGED wait

\* withTimeout gave up on sendTransaction: there is no answer and no hash.
SendUnanswered(c) ==
    /\ "send" \in faults
    /\ pc[c] = "send"
    /\ UNCHANGED tx \/ SetStatus(c, "sent")
    /\ RetryOrThrow(c)
    /\ UNCHANGED <<last, wait>>

WaitSees_AnyStatus(c) == Current(c).status # "failed"
WaitSees(c) == Current(c).status = "success"

\* waitForTransaction polled SUCCESS.
WaitSuccess(c) ==
    /\ pc[c] = "wait"
    /\ WaitSees(c)
    /\ Return(c, attempt[c])

TimeUp(c) == wait[c] = 0

\* waitForTransaction polled FAILED, or its time is over.
WaitFailed(c) ==
    /\ pc[c] = "wait"
    /\ \/ Current(c).status = "failed"
       \/ /\ TimeUp(c)
          /\ "poll" \in faults \/ Current(c).status # "success"
    /\ RetryOrThrow(c)
    /\ UNCHANGED <<last, wait, tx>>

-----------------------------------------------------------------------------
(* The ledger (external) and time                                          *)

CanLand(c, a) ==
    /\ tx[c][a].status = "sent"
    /\ tx[c][a].left > 0
    /\ tx[c][a].seq = sequence + 1

\* A ledger closes with the transaction, which succeeds or fails.
Close(c, a) ==
    /\ CanLand(c, a)
    /\ \E s \in {"success", "failed"} : tx' = [tx EXCEPT ![c][a].status = s]
    /\ sequence' = sequence + 1
    /\ UNCHANGED <<chain, pc, attempt, last, wait, result>>

Less(n) == IF n = 0 THEN 0 ELSE n - 1

Tick ==
    /\ wait' = [c \in Call |-> Less(wait[c])]
    /\ tx' = [c \in Call |-> [a \in Attempt |->
                 [tx[c][a] EXCEPT !.left = Less(@)]]]
    /\ UNCHANGED <<chain, pc, attempt, last, result, sequence, faults>>

Step(c) ==
    /\ \/ Enter(c) \/ DedupLanded(c) \/ DedupPassed(c)
       \/ Build(c) \/ SimulationFailed(c) \/ BuildFailed(c)
       \/ Sent(c) \/ SendRejected(c) \/ SendUnanswered(c)
       \/ WaitSuccess(c) \/ WaitFailed(c)
    /\ UNCHANGED faults

Next ==
    /\ \/ \E c \in Call : Invoke(c) \/ Step(c)
       \/ \E c \in Call, a \in Attempt : Close(c, a)
       \/ Tick
    /\ UNCHANGED faults

Spec == Init /\ [][Next]_vars

\* Every RPC call ends, by its answer or by withTimeout, and time passes.
\* Nothing is assumed of the ledger.
FairSpec == Spec /\ WF_vars(Tick) /\ \A c \in Call : WF_vars(Step(c))

-----------------------------------------------------------------------------
(* Properties                                                              *)

Abstract == INSTANCE ContractCall WITH
    outcome <- [c \in Call |-> IF pc[c] \in {"returned", "thrown"}
                               THEN pc[c] ELSE "open"],
    landed <- {c \in Call : Landed(c) # {}}

\* Whatever the RPC node does, a call that returns a hash has landed
\* (waitForTransaction, "callers can trust the hash represents a finalized
\* on-chain state"), and it answers once.
RefinesContractCall == Abstract!Spec

\* "Before retrying, check if the previous send already landed to avoid
\* double-payout": while sends are answered truly, no call lands twice, even if
\* the wait for it learned nothing.
LandsOnce ==
    faults \subseteq {"poll"} => \A c \in Call : Cardinality(Landed(c)) <= 1

\* The same statement with sends that may stay unanswered.
LandsOnceUnanswered ==
    faults \subseteq {"send"} => \A c \in Call : Cardinality(Landed(c)) <= 1

\* While the RPC node answers truly, a call that threw has not landed and never
\* will: its last transaction is out of its time bounds before
\* waitForTransaction gives up.
ThrownIsOver ==
    faults = {} => \A c \in Call : pc[c] = "thrown" =>
        Landed(c) = {} /\ \A a \in Attempt : ~CanLand(c, a)

\* "A simple promise-chain mutex serializes them": while the RPC node answers
\* truly, a broadcast transaction inside its time bounds is never overtaken by
\* another one with its sequence number.
NoBadSequence ==
    faults = {} => \A c \in Call, a \in Attempt :
        tx[c][a].status = "sent" /\ tx[c][a].left > 0 => CanLand(c, a)

\* Every call is answered, also behind calls that threw (the finally of
\* withAccountLock).
CallsEnd == \A c \in Call : pc[c] = "queued" ~> pc[c] \in {"returned", "thrown"}
=============================================================================
