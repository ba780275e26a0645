---------------------- MODULE ContractInvocationProofs ----------------------
(***************************************************************************)
(* Proofs about invokeContract, for any number of calls and attempts and   *)
(* any time bounds with TimeBound <= WaitFor.                              *)
(***************************************************************************)
EXTENDS ContractInvocation, FiniteSetTheorems, TLAPS

Holding == {"check", "build", "send", "wait"}

\* The transaction of an attempt has not landed and never will.
Over(c, a) == /\ tx[c][a].status # "success"
              /\ tx[c][a].status = "sent" => tx[c][a].left = 0

\* Attempts that have not begun have no transaction, and one is sent once.
BuiltInTurn(c) ==
    /\ \A a \in Attempt : a > attempt[c] => tx[c][a].status = "none"
    /\ pc[c] \in {"new", "queued", "check", "build"} => Current(c).status = "none"
    /\ pc[c] = "send" => Current(c).status = "built"

\* At most one attempt of a call has landed or may land.  While another one is
\* prepared there is none; at the check before it, it is the last one sent, no
\* longer in its time bounds; in waitForTransaction, it is the current one, out
\* of its time bounds when the wait is.
OneSuspect(c) ==
    /\ \E b \in 0..MaxAttempts : \A a \in Attempt \ {b} : Over(c, a)
    /\ pc[c] \in {"new", "queued", "build", "send"} =>
           \A a \in Attempt : Over(c, a)
    /\ pc[c] = "check" =>
           /\ last[c] < attempt[c]
           /\ \A a \in Attempt \ {last[c]} : Over(c, a)
           /\ last[c] # 0 /\ tx[c][last[c]].status = "sent" =>
                  tx[c][last[c]].left = 0
    /\ pc[c] \in {"new", "queued", "build", "send"} => last[c] < attempt[c]
    /\ pc[c] = "wait" =>
           /\ last[c] = attempt[c]
           /\ \A a \in Attempt \ {attempt[c]} : Over(c, a)
           /\ Current(c).status = "sent" => Current(c).left <= wait[c]

\* Nothing is wrong with the RPC node: what a call left behind is over.
NothingLeft(c) ==
    /\ pc[c] \in {"check", "thrown"} => \A a \in Attempt : Over(c, a)
    /\ \A a \in Attempt : tx[c][a].status = "sent" /\ tx[c][a].left > 0 =>
           pc[c] = "wait" /\ a = attempt[c] /\ tx[c][a].seq = sequence + 1
    /\ pc[c] = "send" => Current(c).seq = sequence + 1

\* withAccountLock: the call in doInvokeContract is the first of the chain, and
\* whoever waits is in it.
Serialized ==
    \A c \in Call :
        /\ pc[c] = "queued" => \E i \in 1..Len(chain) : chain[i] = c
        /\ pc[c] \in Holding => chain # <<>> /\ Head(chain) = c

CallInv ==
    /\ TypeOK
    /\ Serialized
    /\ \A c \in Call : BuiltInTurn(c)
    /\ faults \subseteq {"poll"} => \A c \in Call : OneSuspect(c)
    /\ faults = {} => \A c \in Call : NothingLeft(c)

-----------------------------------------------------------------------------
(* What a step of one call leaves alone                                    *)

Pcs == {"new", "queued", "check", "build", "send", "wait", "returned", "thrown"}
Tx == [status : TxStatus, seq : Nat, left : 0..TimeBound]

\* Attempts are numbered from 1 without a gap.
LEMMA AttemptFacts ==
    /\ Attempt \subseteq Nat
    /\ 1 \in Attempt
    /\ Attempt \subseteq 0..MaxAttempts
    /\ \A a \in Attempt : a < MaxAttempts => a + 1 \in Attempt
BY AttemptsAssumption DEF Attempt

\* A write of a transaction's status changes that of the current attempt only.
LEMMA SetStatusType ==
    ASSUME NEW c \in Call, NEW s \in TxStatus, TypeOK, SetStatus(c, s)
    PROVE  /\ tx' \in [Call -> [Attempt -> Tx]]
           /\ tx'[c][attempt[c]] = [Current(c) EXCEPT !.status = s]
           /\ \A a \in Attempt : a # attempt[c] => tx'[c][a] = tx[c][a]
           /\ \A d \in Call : d # c => tx'[d] = tx[d]
<1>1. tx \in [Call -> [Attempt -> Tx]] /\ attempt[c] \in Attempt
  BY DEF TypeOK, Tx
<1>2. [Current(c) EXCEPT !.status = s] \in Tx
  <2>1. Current(c) \in Tx
    BY <1>1 DEF Current
  <2>2. ASSUME NEW r \in Tx
        PROVE  [r EXCEPT !.status = s] = [status |-> s, seq |-> r.seq, left |-> r.left]
    BY DEF Tx
  <2>3. ASSUME NEW r \in Tx
        PROVE  [status |-> s, seq |-> r.seq, left |-> r.left] \in Tx
    BY DEF Tx
  <2> QED BY <2>1, <2>2, <2>3, Zenon
<1> QED BY <1>1, <1>2 DEF SetStatus, Current

\* A failed attempt is followed by the next one, or by the throw that frees the lock.
LEMMA RetryType ==
    ASSUME NEW c \in Call, TypeOK, RetryOrThrow(c)
    PROVE  /\ attempt' \in [Call -> Attempt]
           /\ pc' \in [Call -> Pcs]
           /\ chain' \in Seq(Call) \/ chain = <<>>
           /\ \/ attempt'[c] = attempt[c] + 1 /\ pc'[c] = "check" /\ chain' = chain
              \/ attempt'[c] = attempt[c] /\ pc'[c] = "thrown" /\ chain' = Tail(chain)
           /\ \A d \in Call : d # c => attempt'[d] = attempt[d] /\ pc'[d] = pc[d]
           /\ UNCHANGED <<result, sequence>>
<1>1. attempt[c] \in Attempt /\ attempt[c] < MaxAttempts => attempt[c] + 1 \in Attempt
  BY AttemptFacts, Zenon DEF TypeOK
<1>2. CASE attempt[c] < MaxAttempts
  BY <1>1, <1>2, Zenon DEF RetryOrThrow, Goto, TypeOK, Pcs
<1>3. CASE ~(attempt[c] < MaxAttempts)
  <2>1. chain \in Seq(Call) /\ (chain # <<>> => Tail(chain) \in Seq(Call))
    BY DEF TypeOK
  <2> QED BY <1>1, <1>3, <2>1, Zenon DEF RetryOrThrow, Leave, Goto, TypeOK, Pcs
<1> QED BY <1>2, <1>3

Same(d) == UNCHANGED <<pc[d], attempt[d], last[d], wait[d], tx[d]>>

\* What is left to show of a step of call c.
LEMMA OthersKeep ==
    ASSUME CallInv, NEW c \in Call, \A d \in Call : d # c => Same(d),
           UNCHANGED <<sequence, faults>>, TypeOK', Serialized', BuiltInTurn(c)',
           faults \subseteq {"poll"} => OneSuspect(c)',
           faults = {} => NothingLeft(c)'
    PROVE  CallInv'
<1> SUFFICES ASSUME NEW d \in Call, d # c
             PROVE  /\ BuiltInTurn(d)'
                    /\ faults \subseteq {"poll"} => OneSuspect(d)'
                    /\ faults = {} => NothingLeft(d)'
  BY DEF CallInv
<1>1. Same(d)
  OBVIOUS
<1>2. BuiltInTurn(d)'
  BY <1>1 DEF CallInv, BuiltInTurn, Same, Current
<1>3. ASSUME faults \subseteq {"poll"} PROVE OneSuspect(d)'
  BY <1>1, <1>3, SMTT(60) DEF CallInv, OneSuspect, Same, Current, Over
<1>4. ASSUME faults = {} PROVE NothingLeft(d)'
  BY <1>1, <1>4 DEF CallInv, NothingLeft, Same, Current, Over
<1> QED BY <1>2, <1>3, <1>4

\* A step inside doInvokeContract.
LEMMA StaysSerialized ==
    ASSUME Serialized, NEW c \in Call, pc[c] \in Holding, pc'[c] \in Holding,
           \A d \in Call : d # c => pc'[d] = pc[d], chain' = chain
    PROVE  Serialized'
BY DEF Serialized, Holding

\* The finally: whoever waits behind the holder still does.
LEMMA LeavesSerialized ==
    ASSUME Serialized, NEW c \in Call, pc[c] \in Holding, chain \in Seq(Call),
           pc'[c] \in {"returned", "thrown"},
           \A d \in Call : d # c => pc'[d] = pc[d], chain' = Tail(chain)
    PROVE  Serialized' /\ chain' \in Seq(Call)
<1>1. chain # <<>> /\ Head(chain) = c
  BY DEF Serialized
<1>2. Len(Tail(chain)) = Len(chain) - 1
      /\ \A i \in 1..Len(Tail(chain)) : Tail(chain)[i] = chain[i + 1]
  BY <1>1
<1>3. \A d \in Call : d # c => pc'[d] \notin Holding
  BY <1>1 DEF Serialized
<1>4. ASSUME NEW d \in Call, pc'[d] = "queued"
      PROVE  \E i \in 1..Len(chain') : chain'[i] = d
  <2>1. d # c /\ pc[d] = "queued"
    BY <1>4
  <2>2. PICK i \in 1..Len(chain) : chain[i] = d
    BY <2>1 DEF Serialized
  <2>3. i # 1
    BY <1>1, <2>1, <2>2
  <2>4. i - 1 \in 1..Len(Tail(chain)) /\ Tail(chain)[i - 1] = d
    BY <1>2, <2>2, <2>3
  <2> QED BY <2>4, Zenon
<1>5. pc'[c] \notin Holding
  BY DEF Holding
<1>6. chain' \in Seq(Call)
  BY <1>1
<1> QED BY <1>3, <1>4, <1>5, <1>6, Zenon DEF Serialized

-----------------------------------------------------------------------------
(* The steps of a call                                                     *)

\* The catch of the loop, whatever it came from.
LEMMA RetryKeeps ==
    ASSUME CallInv, NEW c \in Call, pc[c] \in Holding, RetryOrThrow(c),
           UNCHANGED <<wait, faults>>,
           tx' \in [Call -> [Attempt -> Tx]],
           last' \in [Call -> 0..MaxAttempts],
           \A d \in Call : d # c => tx'[d] = tx[d] /\ last'[d] = last[d],
           \A a \in Attempt : a > attempt[c] => tx'[c][a].status = "none",
           faults \subseteq {"poll"} =>
               /\ last'[c] <= attempt[c]
               /\ \A a \in Attempt \ {last'[c]} : Over(c, a)'
               /\ last'[c] # 0 /\ tx'[c][last'[c]].status = "sent" =>
                      tx'[c][last'[c]].left = 0,
           faults = {} => \A a \in Attempt : Over(c, a)'
    PROVE  CallInv'
<1>1. /\ attempt' \in [Call -> Attempt]
      /\ pc' \in [Call -> Pcs]
      /\ \/ attempt'[c] = attempt[c] + 1 /\ pc'[c] = "check" /\ chain' = chain
         \/ attempt'[c] = attempt[c] /\ pc'[c] = "thrown" /\ chain' = Tail(chain)
      /\ \A d \in Call : d # c => attempt'[d] = attempt[d] /\ pc'[d] = pc[d]
      /\ UNCHANGED <<result, sequence>>
  BY RetryType DEF CallInv
<1>2. Serialized' /\ chain' \in Seq(Call)
  <2>1. chain \in Seq(Call) /\ Serialized
    BY DEF CallInv, TypeOK
  <2>2. CASE pc'[c] = "check" /\ chain' = chain
    <3>1. pc'[c] \in Holding
      BY <2>2 DEF Holding
    <3> QED BY <1>1, <2>1, <2>2, <3>1, StaysSerialized, Zenon
  <2>3. CASE pc'[c] = "thrown" /\ chain' = Tail(chain)
    BY <1>1, <2>1, <2>3, LeavesSerialized
  <2> QED BY <1>1, <2>2, <2>3
<1>3. TypeOK'
  BY <1>1, <1>2, Zenon DEF CallInv, TypeOK, Pcs, Tx
<1>4. \A d \in Call : d # c => Same(d)
  BY <1>1 DEF Same
<1>5. attempt[c] \in Nat /\ attempt'[c] \in Attempt /\ last'[c] \in 0..MaxAttempts
  BY <1>1, AttemptFacts, Zenon DEF CallInv, TypeOK
<1>6. BuiltInTurn(c)'
  BY <1>1, <1>5, AttemptFacts DEF BuiltInTurn, Current
<1>7. ASSUME faults \subseteq {"poll"} PROVE OneSuspect(c)'
  <2>1. pc'[c] \in {"check", "thrown"}
    BY <1>1
  <2>2. pc'[c] = "check" => last'[c] < attempt'[c]
    BY <1>1, <1>5, <1>7
  <2> QED BY <1>5, <1>7, <2>1, <2>2, Zenon DEF OneSuspect
<1>8. ASSUME faults = {} PROVE NothingLeft(c)'
  <2>1. pc'[c] \in {"check", "thrown"}
    BY <1>1
  <2>2. \A a \in Attempt : ~(tx'[c][a].status = "sent" /\ tx'[c][a].left > 0)
    BY <1>8 DEF Over
  <2> QED BY <1>8, <2>1, <2>2, Zenon DEF NothingLeft
<1> QED BY <1>1, <1>2, <1>3, <1>4, <1>6, <1>7, <1>8, OthersKeep, Zenon

\* A call that returns has landed.
LEMMA ReturnKeeps ==
    ASSUME CallInv, NEW c \in Call, NEW b \in Attempt, UNCHANGED faults,
           \/ DedupLanded(c) /\ b = last[c]
           \/ WaitSuccess(c) /\ b = attempt[c]
    PROVE  CallInv' /\ b \in Landed(c)
<1>1. /\ pc[c] \in {"check", "wait"} /\ b \in Landed(c)
      /\ pc[c] = "wait" => b = attempt[c]
      /\ Return(c, b)
  BY DEF DedupLanded, WaitSuccess, WaitSees, Current, Landed
<1>2. /\ pc' = [pc EXCEPT ![c] = "returned"] /\ pc'[c] = "returned"
      /\ chain' = Tail(chain)
      /\ result' = [result EXCEPT ![c] = b]
      /\ UNCHANGED <<attempt, last, wait, tx, sequence>>
      /\ \A d \in Call : d # c => pc'[d] = pc[d]
  BY <1>1 DEF Return, Leave, Goto, CallInv, TypeOK
<1>3. Serialized' /\ chain' \in Seq(Call)
  <2>1. chain \in Seq(Call) /\ Serialized /\ pc[c] \in Holding
    BY <1>1 DEF CallInv, TypeOK, Holding
  <2> QED BY <1>2, <2>1, LeavesSerialized
<1>4. TypeOK'
  BY <1>2, <1>3, AttemptFacts, Zenon DEF CallInv, TypeOK
<1>5. \A d \in Call : d # c => Same(d)
  BY <1>2 DEF Same
<1>6. BuiltInTurn(c)'
  BY <1>2, Zenon DEF CallInv, BuiltInTurn, Current
<1>7. ASSUME faults \subseteq {"poll"} PROVE OneSuspect(c)'
  BY <1>2, <1>7 DEF CallInv, OneSuspect, Over
<1>8. ASSUME faults = {} PROVE NothingLeft(c)'
  BY <1>1, <1>2, <1>8 DEF CallInv, NothingLeft, Landed
<1> QED BY <1>1, <1>2, <1>3, <1>4, <1>5, <1>6, <1>7, <1>8, OthersKeep, Zenon

\* A call that queues, enters the lock or passes the check keeps the invariant.
LEMMA EnterKeeps ==
    ASSUME CallInv, NEW c \in Call, Invoke(c) \/ Enter(c) \/ DedupPassed(c),
           UNCHANGED faults
    PROVE  CallInv'
<1> DEFINE to == IF pc[c] = "new" THEN "queued"
                 ELSE IF pc[c] = "queued" THEN "check" ELSE "build"
<1>1. /\ pc' = [pc EXCEPT ![c] = to] /\ pc'[c] = to
      /\ pc[c] \in {"new", "queued", "check"}
      /\ chain' = IF pc[c] = "new" THEN Append(chain, c) ELSE chain
      /\ pc[c] = "queued" => Head(chain) = c
      /\ UNCHANGED <<attempt, last, wait, result, tx, sequence>>
      /\ \A d \in Call : d # c => pc'[d] = pc[d]
  BY Zenon DEF Invoke, Enter, MyTurn, DedupPassed, Goto, CallInv, TypeOK
<1>2. chain \in Seq(Call) /\ Serialized
  BY DEF CallInv, TypeOK
<1>3. chain' \in Seq(Call) /\ Len(chain') >= Len(chain)
      /\ (chain # <<>> => Head(chain') = Head(chain))
      /\ \A i \in 1..Len(chain) : chain'[i] = chain[i]
  BY <1>1, <1>2
<1>4. pc[c] = "new" => \E i \in 1..Len(chain') : chain'[i] = c
  <2> SUFFICES ASSUME pc[c] = "new" PROVE Len(chain') \in 1..Len(chain')
                                          /\ chain'[Len(chain')] = c
    OBVIOUS
  <2> QED BY <1>1, <1>2
<1>5. pc[c] = "queued" => chain # <<>>
  BY <1>2 DEF Serialized
<1>6. Serialized'
  <2>1. ASSUME NEW d \in Call, pc'[d] = "queued"
        PROVE  \E i \in 1..Len(chain') : chain'[i] = d
    <3>1. CASE d = c
      BY <1>1, <1>4, <2>1, <3>1
    <3>2. CASE d # c
      <4>1. PICK i \in 1..Len(chain) : chain[i] = d
        BY <1>1, <1>2, <2>1, <3>2 DEF Serialized
      <4>2. i \in 1..Len(chain') /\ chain'[i] = d
        BY <1>2, <1>3, <4>1
      <4> QED BY <4>2
    <3> QED BY <3>1, <3>2
  <2>2. ASSUME NEW d \in Call, pc'[d] \in Holding
        PROVE  chain' # <<>> /\ Head(chain') = d
    <3>1. chain # <<>> /\ Head(chain) = d
      BY <1>1, <1>2, <1>5, <2>2 DEF Serialized, Holding
    <3> QED BY <1>2, <1>3, <3>1
  <2> QED BY <2>1, <2>2 DEF Serialized
<1>7. TypeOK'
  BY <1>1, <1>3, Zenon DEF CallInv, TypeOK
<1>8. \A d \in Call : d # c => Same(d)
  BY <1>1, Zenon DEF Same
<1>9. BuiltInTurn(c)'
  BY <1>1, SMTT(30) DEF CallInv, BuiltInTurn, Current
<1>10. ASSUME faults \subseteq {"poll"} PROVE OneSuspect(c)'
  <2>0. OneSuspect(c)
    BY <1>10 DEF CallInv
  <2>1. pc[c] = "check" => \A a \in Attempt : Over(c, a)
    <3> SUFFICES ASSUME pc[c] = "check" PROVE \A a \in Attempt : Over(c, a)
      OBVIOUS
    <3>1. last[c] < attempt[c] /\ attempt[c] \in Nat /\ last[c] \in 0..MaxAttempts
      BY <2>0, AttemptFacts, ZenonT(30) DEF CallInv, OneSuspect, TypeOK
    <3>2. last[c] # 0 => MustCheck(c) /\ "dedup" \notin faults
      BY <1>10, <3>1 DEF MustCheck
    <3>3. last[c] # 0 => last[c] \notin Landed(c)
      BY <3>2, Zenon DEF DedupPassed, Invoke, Enter
    <3>4. ASSUME NEW a \in Attempt, a = last[c] PROVE Over(c, a)
      <4>1. a # 0
        BY AttemptFacts, <3>4 DEF Attempt
      <4> QED BY <2>0, <3>3, <3>4, <4>1 DEF OneSuspect, Over, Landed
    <3> QED BY <2>0, <3>4 DEF OneSuspect
  <2>2. \E b \in 0..MaxAttempts : \A a \in Attempt \ {b} : Over(c, a)'
    BY <1>1, <2>0, Zenon DEF OneSuspect, Over
  <2>3. pc'[c] \in {"queued", "check", "build"} /\ \A a \in Attempt : Over(c, a)'
    BY <1>1, <2>0, <2>1, Zenon DEF OneSuspect, Over
  <2>4. last'[c] < attempt'[c]
    BY <1>1, <2>0 DEF OneSuspect
  <2>5. pc'[c] = "check" /\ last[c] # 0 => last[c] \in Attempt
    BY DEF CallInv, TypeOK, Attempt
  <2> QED BY <1>1, <2>2, <2>3, <2>4, <2>5 DEF OneSuspect, Over
<1>11. ASSUME faults = {} PROVE NothingLeft(c)'
  <2>1. pc'[c] \in {"queued", "check", "build"}
    BY <1>1
  <2>2. pc[c] = "queued" => \A a \in Attempt : Over(c, a)
    BY <1>11 DEF CallInv, OneSuspect
  <2> QED BY <1>1, <1>11, <2>1, <2>2 DEF CallInv, NothingLeft, Over
<1> QED BY <1>1, <1>6, <1>7, <1>8, <1>9, <1>10, <1>11, OthersKeep, Zenon

\* A built transaction takes the next sequence number.
LEMMA BuildKeeps ==
    ASSUME CallInv, NEW c \in Call, Build(c), UNCHANGED faults
    PROVE  CallInv'
<1> DEFINE new == [status |-> "built", seq |-> sequence + 1, left |-> TimeBound]
<1>1. /\ tx \in [Call -> [Attempt -> Tx]] /\ attempt[c] \in Attempt
      /\ sequence \in Nat /\ pc \in [Call -> Pcs] /\ chain \in Seq(Call)
      /\ Serialized
  BY DEF CallInv, TypeOK, Tx, Pcs
<1>2. new \in Tx
  BY <1>1, TimesAssumption DEF Tx, TxStatus
<1>3. /\ tx' \in [Call -> [Attempt -> Tx]]
      /\ tx'[c][attempt[c]] = new
      /\ \A a \in Attempt : a # attempt[c] => tx'[c][a] = tx[c][a]
      /\ \A d \in Call : d # c => tx'[d] = tx[d]
  BY <1>1, <1>2 DEF Build
<1>4. /\ pc[c] = "build" /\ pc'[c] = "send" /\ pc' \in [Call -> Pcs]
      /\ \A d \in Call : d # c => pc'[d] = pc[d]
      /\ UNCHANGED <<chain, attempt, last, wait, result, sequence>>
  BY <1>1 DEF Build, Goto, Pcs
<1>5. Serialized'
  <2>1. pc[c] \in Holding /\ pc'[c] \in Holding
    BY <1>4, Zenon DEF Holding
  <2> QED BY <1>1, <1>4, <2>1, StaysSerialized
<1>6. TypeOK'
  BY <1>3, <1>4, Zenon DEF CallInv, TypeOK, Tx, Pcs
<1>7. \A d \in Call : d # c => Same(d)
  BY <1>3, <1>4, Zenon DEF Same
<1>8. BuiltInTurn(c)'
  <2>1. BuiltInTurn(c) /\ attempt[c] \in Nat
    BY <1>1, AttemptFacts, Zenon DEF CallInv
  <2>2. tx'[c][attempt'[c]].status = "built"
    BY <1>3, <1>4
  <2>3. ASSUME NEW a \in Attempt, a > attempt'[c] PROVE tx'[c][a].status = "none"
    <3>1. attempt'[c] = attempt[c]
      BY <1>4
    <3>2. a \in Nat /\ attempt[c] \in Nat
      BY <1>1, AttemptFacts, Zenon
    <3>3. a # attempt[c] /\ a > attempt[c]
      BY <2>3, <3>1, <3>2
    <3>4. tx[c][a].status = "none"
      BY <2>1, <3>3, Zenon DEF BuiltInTurn
    <3> QED BY <1>3, <3>3, <3>4
  <2> QED BY <1>4, <2>2, <2>3 DEF BuiltInTurn, Current
<1>9. ASSUME faults \subseteq {"poll"} PROVE OneSuspect(c)'
  <2>1. OneSuspect(c)
    BY <1>9, Zenon DEF CallInv
  <2>2. \A a \in Attempt : Over(c, a)'
    BY <1>1, <1>3, <1>4, <2>1, SMTT(60) DEF OneSuspect, Over
  <2>3. last'[c] < attempt'[c] /\ 0 \in 0..MaxAttempts
    BY <1>4, <2>1, AttemptsAssumption DEF OneSuspect
  <2> QED BY <1>4, <2>2, <2>3 DEF OneSuspect
<1>10. ASSUME faults = {} PROVE NothingLeft(c)'
  <2>1. NothingLeft(c)
    BY <1>10 DEF CallInv
  <2>2. \A a \in Attempt : ~(tx'[c][a].status = "sent" /\ tx'[c][a].left > 0)
    BY <1>1, <1>3, <1>4, <2>1, SMTT(30) DEF NothingLeft
  <2>3. tx'[c][attempt'[c]].seq = sequence' + 1
    BY <1>3, <1>4, SMTT(30)
  <2> QED BY <1>4, <2>2, <2>3 DEF NothingLeft, Current
<1> QED BY <1>4, <1>5, <1>6, <1>7, <1>8, <1>9, <1>10, OthersKeep, Zenon

\* A transaction that was sent is waited for longer than it can land.
LEMMA SentKeeps ==
    ASSUME CallInv, NEW c \in Call, Sent(c), UNCHANGED faults
    PROVE  CallInv'
<1>1. /\ TypeOK /\ attempt[c] \in Attempt /\ pc \in [Call -> Pcs]
      /\ last \in [Call -> 0..MaxAttempts] /\ wait \in [Call -> 0..WaitFor]
      /\ tx[c] \in [Attempt -> Tx] /\ Serialized
  BY Zenon DEF CallInv, TypeOK, Tx, Pcs
<1>2. "sent" \in TxStatus
  BY DEF TxStatus
<1>3. /\ tx' \in [Call -> [Attempt -> Tx]]
      /\ tx'[c][attempt[c]] = [Current(c) EXCEPT !.status = "sent"]
      /\ \A a \in Attempt : a # attempt[c] => tx'[c][a] = tx[c][a]
      /\ \A d \in Call : d # c => tx'[d] = tx[d]
  BY <1>1, <1>2, SetStatusType DEF Sent
<1>4. /\ pc[c] = "send" /\ pc'[c] = "wait" /\ pc' \in [Call -> Pcs]
      /\ last'[c] = attempt[c] /\ last' \in [Call -> 0..MaxAttempts]
      /\ wait'[c] = WaitFor /\ wait' \in [Call -> 0..WaitFor]
      /\ \A d \in Call : d # c => /\ pc'[d] = pc[d] /\ last'[d] = last[d]
                                  /\ wait'[d] = wait[d]
      /\ UNCHANGED <<chain, attempt, result, sequence>>
  <2>1. WaitFor \in 0..WaitFor
    BY TimesAssumption
  <2>2. attempt[c] \in 0..MaxAttempts
    BY <1>1, AttemptsAssumption DEF Attempt
  <2> QED BY <1>1, <2>1, <2>2 DEF Sent, Goto, Remember, Pcs
<1>5. Serialized'
  <2>1. pc[c] \in Holding /\ pc'[c] \in Holding
    BY <1>4 DEF Holding
  <2> QED BY <1>1, <1>4, <2>1, StaysSerialized, Zenon
<1>6. TypeOK'
  BY <1>3, <1>4, Zenon DEF CallInv, TypeOK, Tx, Pcs
<1>7. \A d \in Call : d # c => Same(d)
  BY <1>3, <1>4 DEF Same
<1>8. /\ tx'[c][attempt[c]].status = "sent"
      /\ tx'[c][attempt[c]].seq = Current(c).seq
      /\ tx'[c][attempt[c]].left \in 0..TimeBound
  BY <1>1, <1>3 DEF Current, Tx
<1>9. BuiltInTurn(c)'
  BY <1>1, <1>3, <1>4, <1>8, AttemptFacts, SMTT(30) DEF CallInv, BuiltInTurn, Current
<1>10. ASSUME faults \subseteq {"poll"} PROVE OneSuspect(c)'
  <2>1. OneSuspect(c)
    BY <1>10 DEF CallInv
  <2>2. \A a \in Attempt \ {attempt[c]} : Over(c, a)'
    BY <1>1, <1>3, <1>4, <2>1, ZenonT(30) DEF OneSuspect, Over
  <2>3. tx'[c][attempt[c]].left <= wait'[c]
    BY <1>4, <1>8, TimesAssumption
  <2> QED BY <1>1, <1>4, <2>2, <2>3, AttemptFacts DEF OneSuspect, Current
<1>11. ASSUME faults = {} PROVE NothingLeft(c)'
  BY <1>1, <1>3, <1>4, <1>8, <1>11, Zenon DEF CallInv, NothingLeft, Current
<1> QED BY <1>4, <1>5, <1>6, <1>7, <1>9, <1>10, <1>11, OthersKeep, Zenon

\* A failed simulation throws with nothing sent.
LEMMA SimulationFailedKeeps ==
    ASSUME CallInv, NEW c \in Call, SimulationFailed(c), UNCHANGED faults
    PROVE  CallInv'
<1>1. /\ pc' = [pc EXCEPT ![c] = "thrown"] /\ pc[c] = "build" /\ pc'[c] = "thrown"
      /\ chain' = Tail(chain)
      /\ UNCHANGED <<attempt, last, wait, result, tx, sequence>>
      /\ \A d \in Call : d # c => pc'[d] = pc[d]
  BY DEF SimulationFailed, Leave, Goto, CallInv, TypeOK
<1>2. Serialized' /\ chain' \in Seq(Call)
  <2>1. chain \in Seq(Call) /\ Serialized /\ pc[c] \in Holding
    BY <1>1 DEF CallInv, TypeOK, Holding
  <2> QED BY <1>1, <2>1, LeavesSerialized, Zenon
<1>3. TypeOK'
  BY <1>1, <1>2, Zenon DEF CallInv, TypeOK
<1>4. \A d \in Call : d # c => Same(d)
  BY <1>1, Zenon DEF Same
<1>5. BuiltInTurn(c)'
  BY <1>1, Zenon DEF CallInv, BuiltInTurn, Current
<1>6. ASSUME faults \subseteq {"poll"} PROVE OneSuspect(c)'
  <2>1. OneSuspect(c)
    BY <1>6 DEF CallInv
  <2>2. \A a \in Attempt : Over(c, a) = Over(c, a)'
    BY <1>1, Zenon DEF Over
  <2> QED BY <1>1, <2>1, <2>2, Zenon DEF OneSuspect
<1>7. ASSUME faults = {} PROVE NothingLeft(c)'
  <2>1. \A a \in Attempt : Over(c, a)'
    BY <1>1, <1>7, Zenon DEF CallInv, OneSuspect, Over
  <2> QED BY <1>1, <2>1, SMTT(30) DEF NothingLeft, Over
<1> QED BY <1>1, <1>2, <1>3, <1>4, <1>5, <1>6, <1>7, OthersKeep

\* A failure of build, send or wait leaves at most one attempt that may land.
LEMMA RetriesKeep ==
    ASSUME CallInv, NEW c \in Call, UNCHANGED faults,
           BuildFailed(c) \/ SendRejected(c) \/ SendUnanswered(c) \/ WaitFailed(c)
    PROVE  CallInv'
<1>1. /\ pc[c] \in {"build", "send", "wait"} /\ pc[c] \in Holding
      /\ RetryOrThrow(c) /\ UNCHANGED wait
  BY DEF BuildFailed, SendRejected, SendUnanswered, WaitFailed, Holding
<1>2. /\ TypeOK /\ tx \in [Call -> [Attempt -> Tx]] /\ attempt[c] \in Attempt
      /\ last \in [Call -> 0..MaxAttempts] /\ attempt[c] \in 0..MaxAttempts
      /\ BuiltInTurn(c)
  <2>1. attempt[c] \in Attempt
    BY DEF CallInv, TypeOK
  <2>2. attempt[c] \in 0..MaxAttempts
    BY <2>1, AttemptsAssumption DEF Attempt
  <2> QED BY <2>1, <2>2 DEF CallInv, TypeOK, Tx
<1>3. "sent" \in TxStatus
  BY Zenon DEF TxStatus
<1>4. /\ tx' \in [Call -> [Attempt -> Tx]]
      /\ \A d \in Call : d # c => tx'[d] = tx[d]
      /\ \A a \in Attempt : a > attempt[c] => tx'[c][a].status = "none"
  <2>1. CASE UNCHANGED tx
    BY <1>2, <2>1 DEF BuiltInTurn
  <2>2. CASE SetStatus(c, "sent")
    <3>1. \A a \in Attempt : a > attempt[c] => a # attempt[c]
      BY <1>2, AttemptFacts
    <3> QED BY <1>2, <1>3, <2>2, <3>1, SetStatusType, Zenon DEF BuiltInTurn
  <2> QED BY <2>1, <2>2, Zenon DEF BuildFailed, SendRejected, SendUnanswered, WaitFailed
<1>5. /\ last' \in [Call -> 0..MaxAttempts]
      /\ \A d \in Call : d # c => last'[d] = last[d]
      /\ last'[c] = IF SendRejected(c) THEN attempt[c] ELSE last[c]
  BY <1>2, Zenon DEF BuildFailed, SendRejected, SendUnanswered, WaitFailed, Remember
<1>6. ASSUME faults \subseteq {"poll"}
      PROVE  /\ UNCHANGED tx
             /\ last'[c] <= attempt[c]
             /\ \A a \in Attempt \ {last'[c]} : Over(c, a)
             /\ last'[c] # 0 /\ tx[c][last'[c]].status = "sent" =>
                    tx[c][last'[c]].left = 0
             /\ faults = {} => \A a \in Attempt : Over(c, a)
  <2>1. UNCHANGED tx /\ ~SendUnanswered(c)
    BY <1>6 DEF BuildFailed, SendRejected, SendUnanswered, WaitFailed
  <2>2. OneSuspect(c) /\ attempt[c] \in Nat /\ last[c] \in Nat
    BY <1>2, <1>6, AttemptFacts, AttemptsAssumption, SMTT(30) DEF CallInv
  <2>3. CASE pc[c] \in {"build", "send"}
    <3>1. \A a \in Attempt : Over(c, a)
      BY <2>2, <2>3, Zenon DEF OneSuspect
    <3>2. last'[c] <= attempt[c] /\ (last'[c] # 0 => last'[c] \in Attempt)
      BY <1>5, <2>2, <2>3, SMTT(30) DEF OneSuspect, Attempt
    <3> QED BY <2>1, <3>1, <3>2, Zenon DEF Over
  <2>4. CASE pc[c] = "wait"
    <3>1. WaitFailed(c) /\ last'[c] = attempt[c] /\ last'[c] \in Attempt
      BY <1>2, <1>5, <2>2, <2>4
         DEF OneSuspect, BuildFailed, SendRejected, SendUnanswered
    <3>2. tx[c][attempt[c]].left \in Nat
      BY <1>2, SMTT(30) DEF Tx
    <3>3. Current(c).status = "sent" => Current(c).left = 0
      BY <1>2, <2>2, <2>4, <3>1, <3>2 DEF OneSuspect, WaitFailed, TimeUp, Current
    <3>4. faults = {} => Current(c).status # "success"
      BY <3>1, Zenon DEF WaitFailed
    <3> QED BY <2>1, <2>2, <2>4, <3>1, <3>3, <3>4, SMTT(30) DEF OneSuspect, Current, Over
  <2> QED BY <1>1, <2>3, <2>4
<1>7. faults \subseteq {"poll"} =>
          /\ last'[c] <= attempt[c]
          /\ \A a \in Attempt \ {last'[c]} : Over(c, a)'
          /\ last'[c] # 0 /\ tx'[c][last'[c]].status = "sent" =>
                 tx'[c][last'[c]].left = 0
  BY <1>6, Zenon DEF Over
<1>8. faults = {} => \A a \in Attempt : Over(c, a)'
  BY <1>6 DEF Over
<1> QED BY <1>1, <1>4, <1>5, <1>7, <1>8, RetryKeeps, Zenon

-----------------------------------------------------------------------------
(* The ledger and time                                                     *)

\* A ledger that closes decides a transaction within its time bounds.
LEMMA CloseKeeps ==
    ASSUME CallInv, NEW c \in Call, NEW a \in Attempt, Close(c, a), UNCHANGED faults
    PROVE  CallInv'
<1>1. PICK s \in {"success", "failed"} : tx' = [tx EXCEPT ![c][a].status = s]
  BY Zenon DEF Close
<1>2. /\ tx \in [Call -> [Attempt -> Tx]] /\ attempt[c] \in Attempt
      /\ sequence \in Nat /\ last[c] \in 0..MaxAttempts /\ Serialized
  BY DEF CallInv, TypeOK, Tx
<1>3. [tx[c][a] EXCEPT !.status = s] \in Tx
  <2>1. tx[c][a] \in Tx
    BY <1>2
  <2>2. ASSUME NEW r \in Tx
        PROVE  [r EXCEPT !.status = s] = [status |-> s, seq |-> r.seq, left |-> r.left]
    BY DEF Tx
  <2>3. ASSUME NEW r \in Tx
        PROVE  [status |-> s, seq |-> r.seq, left |-> r.left] \in Tx
    BY DEF Tx, TxStatus
  <2> QED BY <2>1, <2>2, <2>3, Zenon
<1>4. /\ tx' \in [Call -> [Attempt -> Tx]]
      /\ tx'[c][a] = [tx[c][a] EXCEPT !.status = s]
      /\ tx'[c][a].status = s
      /\ \A b \in Attempt : b # a => tx'[c][b] = tx[c][b]
      /\ \A d \in Call : d # c => tx'[d] = tx[d]
  BY <1>1, <1>2, <1>3, Zenon DEF Tx
<1>5. /\ tx[c][a].status = "sent" /\ tx[c][a].left > 0 /\ sequence' = sequence + 1
      /\ UNCHANGED <<chain, pc, attempt, last, wait, result>>
  BY DEF Close, CanLand
<1>6. TypeOK'
  BY <1>2, <1>4, <1>5, SMTT(30) DEF CallInv, TypeOK, Tx
<1>7. Serialized'
  BY <1>5 DEF CallInv, Serialized
<1>8. ASSUME NEW d \in Call PROVE BuiltInTurn(d)'
  <2>1. BuiltInTurn(d) /\ BuiltInTurn(c)
    BY DEF CallInv
  <2>2. CASE d # c
    BY <1>4, <1>5, <2>1, <2>2 DEF BuiltInTurn, Current
  <2>3. CASE d = c
    <3>1. ~(a > attempt[c])
      BY <1>5, <2>1, Zenon DEF BuiltInTurn
    <3>2. a = attempt[c] =>
              pc[c] \notin {"new", "queued", "check", "build", "send"}
      BY <1>5, <2>1 DEF BuiltInTurn, Current
    <3> QED BY <1>2, <1>4, <1>5, <2>1, <2>3, <3>1, <3>2, SMTT(30) DEF BuiltInTurn, Current
  <2> QED BY <2>2, <2>3
<1>9. ASSUME faults \subseteq {"poll"}, NEW d \in Call PROVE OneSuspect(d)'
  <2>1. OneSuspect(d) /\ OneSuspect(c)
    BY <1>9, Zenon DEF CallInv
  <2>2. CASE d # c
    BY <1>4, <1>5, <2>1, <2>2, SMTT(30) DEF OneSuspect, Over, Current
  <2>3. CASE d = c
    <3>1. ~Over(c, a)
      BY <1>2, <1>5 DEF Over, Tx
    <3>2. \A b \in Attempt : b # a /\ Over(c, b) => Over(c, b)'
      BY <1>4 DEF Over
    <3>3. \A b : (\A e \in Attempt \ {b} : Over(c, e)) =>
                     a = b /\ \A e \in Attempt \ {b} : Over(c, e)'
      BY <3>1, <3>2, Zenon
    <3>4. pc'[c] \notin {"new", "queued", "build", "send"}
      BY <1>5, <2>1, <3>1, Zenon DEF OneSuspect
    <3>5. pc'[c] # "check"
      BY <1>2, <1>5, <2>1, <3>1 DEF OneSuspect, Attempt
    <3>6. pc'[c] = "wait" => /\ last'[c] = attempt'[c]
                             /\ \A b \in Attempt \ {attempt'[c]} : Over(c, b)'
                             /\ tx'[c][attempt'[c]].status # "sent"
      BY <1>4, <1>5, <2>1, <3>3, Zenon DEF OneSuspect
    <3>7. \E b \in 0..MaxAttempts : \A e \in Attempt \ {b} : Over(c, e)'
      BY <2>1, <3>3, Zenon DEF OneSuspect
    <3> QED BY <2>3, <3>4, <3>5, <3>6, <3>7, Zenon DEF OneSuspect, Current
  <2> QED BY <2>2, <2>3
<1>10. ASSUME faults = {}, NEW d \in Call PROVE NothingLeft(d)'
  <2>1. NothingLeft(d) /\ NothingLeft(c)
    BY <1>10, Zenon DEF CallInv
  <2>2. pc[c] = "wait" /\ a = attempt[c]
    BY <1>5, <2>1 DEF NothingLeft
  <2>3. CASE d # c
    <3>1. pc[d] \notin Holding
      BY <1>2, <2>2, <2>3, Zenon DEF Serialized, Holding
    <3> QED BY <1>4, <1>5, <2>1, <2>3, <3>1 DEF NothingLeft, Over, Holding
  <2>4. CASE d = c
    <3>1. \A b \in Attempt : ~(tx'[c][b].status = "sent" /\ tx'[c][b].left > 0)
      BY <1>4, <2>1, <2>2, ZenonT(30) DEF NothingLeft
    <3> QED BY <1>5, <2>2, <2>4, <3>1 DEF NothingLeft
  <2> QED BY <2>3, <2>4
<1> QED BY <1>6, <1>7, <1>8, <1>9, <1>10 DEF CallInv

\* Time takes as much from a transaction's bounds as from its wait.
LEMMA TickKeeps ==
    ASSUME CallInv, Tick
    PROVE  CallInv'
<1>1. /\ tx \in [Call -> [Attempt -> Tx]] /\ wait \in [Call -> 0..WaitFor]
      /\ attempt \in [Call -> Attempt] /\ last \in [Call -> 0..MaxAttempts]
  BY DEF CallInv, TypeOK, Tx
<1>2. ASSUME NEW r \in Tx
      PROVE  /\ [r EXCEPT !.left = Less(@)] \in Tx
             /\ [r EXCEPT !.left = Less(@)].status = r.status
             /\ [r EXCEPT !.left = Less(@)].seq = r.seq
             /\ [r EXCEPT !.left = Less(@)].left = Less(r.left)
             /\ r.left \in Nat
  <2>1. [r EXCEPT !.left = Less(@)] =
            [status |-> r.status, seq |-> r.seq, left |-> Less(r.left)]
    BY DEF Tx
  <2>2. Less(r.left) \in 0..TimeBound /\ r.left \in Nat
    BY TimesAssumption DEF Less, Tx
  <2> QED BY <2>1, <2>2 DEF Tx
<1>3. ASSUME NEW c \in Call, NEW a \in Attempt
      PROVE  /\ tx'[c][a] \in Tx
             /\ tx'[c][a].status = tx[c][a].status
             /\ tx'[c][a].seq = tx[c][a].seq
             /\ tx'[c][a].left = Less(tx[c][a].left)
             /\ tx[c][a].left \in Nat
  <2>1. tx[c][a] \in Tx /\ tx'[c][a] = [tx[c][a] EXCEPT !.left = Less(@)]
    BY <1>1 DEF Tick
  <2> QED BY <1>2, <2>1
<1>4. tx' \in [Call -> [Attempt -> Tx]]
  BY <1>3 DEF Tick
<1>5. /\ wait' \in [Call -> 0..WaitFor]
      /\ \A c \in Call : wait'[c] = Less(wait[c]) /\ wait[c] \in Nat
  BY <1>1, TimesAssumption DEF Tick, Less
<1>6. UNCHANGED <<chain, pc, attempt, last, result, sequence, faults>>
  BY Zenon DEF Tick
<1>7. TypeOK'
  BY <1>4, <1>5, <1>6, Zenon DEF CallInv, TypeOK, Tx
<1>8. Serialized'
  BY <1>6, Zenon DEF CallInv, Serialized
<1>9. ASSUME NEW c \in Call PROVE BuiltInTurn(c)'
  <2>1. BuiltInTurn(c) /\ attempt[c] \in Attempt
    BY <1>1, Zenon DEF CallInv
  <2> QED BY <1>3, <1>6, <2>1 DEF BuiltInTurn, Current
<1>10. ASSUME NEW c \in Call, NEW a \in Attempt, Over(c, a) PROVE Over(c, a)'
  BY <1>3, <1>10, Zenon DEF Over, Less
<1>11. ASSUME faults \subseteq {"poll"}, NEW c \in Call PROVE OneSuspect(c)'
  <2>1. OneSuspect(c)
    BY <1>11, Zenon DEF CallInv
  <2>2. \E b \in 0..MaxAttempts : \A a \in Attempt \ {b} : Over(c, a)'
    BY <1>10, <2>1, Zenon DEF OneSuspect
  <2>3. pc[c] = "check" /\ last[c] # 0 /\ tx'[c][last[c]].status = "sent" =>
            tx'[c][last[c]].left = 0
    <3>1. last[c] # 0 => last[c] \in Attempt
      BY <1>1, SMTT(30) DEF Attempt
    <3> QED BY <1>3, <2>1, <3>1 DEF OneSuspect, Less
  <2>4. pc[c] = "wait" /\ tx'[c][attempt[c]].status = "sent" =>
            tx'[c][attempt[c]].left <= wait'[c]
    <3>1. attempt[c] \in Attempt
      BY <1>1, Zenon
    <3>2. pc[c] = "wait" /\ tx[c][attempt[c]].status = "sent" =>
              tx[c][attempt[c]].left <= wait[c]
      BY <2>1 DEF OneSuspect, Current
    <3>3. \A m, n \in Nat : m <= n => Less(m) <= Less(n)
      BY SMTT(30) DEF Less
    <3> QED BY <1>3, <1>5, <3>1, <3>2, <3>3
  <2> QED BY <1>6, <1>10, <2>1, <2>2, <2>3, <2>4, Zenon DEF OneSuspect, Current
<1>12. ASSUME faults = {}, NEW c \in Call PROVE NothingLeft(c)'
  <2>1. NothingLeft(c)
    BY <1>12, Zenon DEF CallInv
  <2>2. \A a \in Attempt : tx'[c][a].left > 0 => tx[c][a].left > 0
    BY <1>3 DEF Less
  <2> QED BY <1>1, <1>3, <1>6, <1>10, <2>1, <2>2 DEF NothingLeft, Current
<1> QED BY <1>6, <1>7, <1>8, <1>9, <1>11, <1>12 DEF CallInv

-----------------------------------------------------------------------------
(* The theorems                                                            *)

\* The initial state satisfies the invariant.
LEMMA CallInvInit == Init => CallInv
<1> SUFFICES ASSUME Init PROVE CallInv
  OBVIOUS
<1>1. 1 \in Attempt /\ 0 \in 0..MaxAttempts /\ 0 \in 0..WaitFor
  BY AttemptsAssumption, TimesAssumption DEF Attempt
<1>2. Unbuilt \in Tx
  BY TimesAssumption DEF Unbuilt, Tx, TxStatus
<1>3. TypeOK
  BY <1>1, <1>2 DEF Init, TypeOK, Tx
<1>4. Serialized
  BY DEF Init, Serialized, Holding
<1>5. \A c \in Call, a \in Attempt : tx[c][a] = Unbuilt
  BY Zenon DEF Init
<1>6. ASSUME NEW c \in Call
      PROVE  BuiltInTurn(c) /\ OneSuspect(c) /\ NothingLeft(c)
  <2>1. pc[c] = "new" /\ attempt[c] = 1 /\ last[c] = 0
    BY DEF Init
  <2>2. \A a \in Attempt : Over(c, a) /\ tx[c][a].status = "none"
    BY <1>5 DEF Over, Unbuilt
  <2> QED BY <1>1, <2>1, <2>2 DEF BuiltInTurn, OneSuspect, NothingLeft, Current
<1> QED BY <1>3, <1>4, <1>6 DEF CallInv

\* Every step of a call, of the ledger and of the clock keeps the invariant.
LEMMA CallInvNext == CallInv /\ [Next]_vars => CallInv'
<1> SUFFICES ASSUME CallInv, [Next]_vars PROVE CallInv'
  OBVIOUS
<1>1. CASE UNCHANGED vars
  <2>1. TypeOK' /\ Serialized'
    BY <1>1, Zenon DEF vars, CallInv, TypeOK, Serialized
  <2>2. ASSUME NEW c \in Call PROVE BuiltInTurn(c)'
    BY <1>1, SMTT(30) DEF vars, CallInv, BuiltInTurn, Current
  <2>3. ASSUME NEW c \in Call, OneSuspect(c) PROVE OneSuspect(c)'
    BY <1>1, <2>3, ZenonT(30) DEF vars, OneSuspect, Over, Current
  <2>4. ASSUME NEW c \in Call, NothingLeft(c) PROVE NothingLeft(c)'
    BY <1>1, <2>4, Zenon DEF vars, NothingLeft, Over, Current
  <2> QED BY <1>1, <2>1, <2>2, <2>3, <2>4, Zenon DEF vars, CallInv
<1>2. ASSUME UNCHANGED faults, NEW c \in Call, Step(c) PROVE CallInv'
  <2>1. DedupLanded(c) => last[c] \in Attempt
    BY DEF DedupLanded, Landed
  <2>2. attempt[c] \in Attempt
    BY Zenon DEF CallInv, TypeOK
  <2>3. CASE DedupLanded(c)
    <3>1. PICK b \in Attempt : b = last[c]
      BY <2>1, <2>3
    <3> QED BY <1>2, <2>3, <3>1, ReturnKeeps
  <2>4. CASE WaitSuccess(c)
    BY <1>2, <2>2, <2>4, ReturnKeeps
  <2>5. CASE Enter(c) \/ DedupPassed(c)
    BY <1>2, <2>5, EnterKeeps
  <2>6. CASE Build(c)
    BY <1>2, <2>6, BuildKeeps
  <2>7. CASE Sent(c)
    BY <1>2, <2>7, SentKeeps
  <2>8. CASE SimulationFailed(c)
    BY <1>2, <2>8, SimulationFailedKeeps
  <2>9. CASE BuildFailed(c) \/ SendRejected(c) \/ SendUnanswered(c) \/ WaitFailed(c)
    BY <1>2, <2>9, RetriesKeep
  <2> QED BY <1>2, <2>3, <2>4, <2>5, <2>6, <2>7, <2>8, <2>9, Zenon DEF Step
<1>3. ASSUME UNCHANGED faults, NEW c \in Call, Invoke(c) PROVE CallInv'
  BY <1>3, EnterKeeps
<1>4. ASSUME UNCHANGED faults, NEW c \in Call, NEW a \in Attempt, Close(c, a)
      PROVE  CallInv'
  BY <1>4, CloseKeeps
<1>5. CASE Tick
  BY <1>5, TickKeeps
<1> QED BY <1>1, <1>2, <1>3, <1>4, <1>5 DEF Next

\* CallInv is inductive: the lock, the attempts and what may still land.
THEOREM CallInvariance == Spec => []CallInv
BY CallInvInit, CallInvNext, PTL DEF Spec

\* The dedup check before a resend, with waitForTransaction outlasting the time
\* bounds, keeps a call from landing twice, whatever the number of attempts.
THEOREM CallLandsOnce == Spec => []LandsOnce
<1>1. CallInv => LandsOnce
  <2> SUFFICES ASSUME CallInv, faults \subseteq {"poll"}, NEW c \in Call
               PROVE  Cardinality(Landed(c)) <= 1
    BY Zenon DEF LandsOnce
  <2>1. PICK b \in 0..MaxAttempts : \A a \in Attempt \ {b} : Over(c, a)
    BY DEF CallInv, OneSuspect
  <2>2. Landed(c) \subseteq {b}
    BY <2>1 DEF Landed, Over
  <2>3. IsFiniteSet({b}) /\ Cardinality({b}) = 1
    BY FS_Singleton
  <2>4. Cardinality(Landed(c)) <= Cardinality({b})
    BY <2>2, <2>3, FS_Subset, Zenon
  <2> QED BY <2>3, <2>4
<1> QED BY <1>1, CallInvariance, PTL

\* A call that threw, with an RPC node that answers truly, is over for good.
THEOREM ThrownCallIsOver == Spec => []ThrownIsOver
<1>1. CallInv => ThrownIsOver
  BY Zenon DEF CallInv, ThrownIsOver, NothingLeft, Over, Landed, CanLand
<1> QED BY <1>1, CallInvariance, PTL

\* withAccountLock: no two transactions of the account compete for a sequence
\* number while the RPC node answers truly.
THEOREM SequenceIsFree == Spec => []NoBadSequence
<1>1. CallInv => NoBadSequence
  BY SMTT(30) DEF CallInv, NoBadSequence, NothingLeft, CanLand
<1> QED BY <1>1, CallInvariance, PTL

-----------------------------------------------------------------------------
(* invokeContract implements ContractCall                                  *)

\* A step lands no call or one, and takes no landing back.
LEMMA LandedGrows ==
    ASSUME CallInv, NEW c \in Call, Step(c) \/ Invoke(c)
    PROVE  \A d \in Call : Landed(d)' = Landed(d)
<1> SUFFICES ASSUME NEW d \in Call, NEW a \in Attempt
             PROVE  tx'[d][a].status = "success" <=> tx[d][a].status = "success"
  BY DEF Landed
<1>1. /\ tx \in [Call -> [Attempt -> Tx]] /\ attempt[c] \in Attempt
      /\ BuiltInTurn(c) /\ TypeOK
  BY Zenon DEF CallInv, TypeOK, Tx
<1>2. CASE UNCHANGED tx
  BY <1>2
<1>3. CASE pc[c] = "send" /\ SetStatus(c, "sent")
  <2>1. "sent" \in TxStatus /\ Current(c).status = "built"
    BY <1>1, <1>3, Zenon DEF TxStatus, BuiltInTurn
  <2>2. /\ tx'[c][attempt[c]] = [Current(c) EXCEPT !.status = "sent"]
        /\ \A b \in Attempt : b # attempt[c] => tx'[c][b] = tx[c][b]
        /\ \A e \in Call : e # c => tx'[e] = tx[e]
    BY <1>1, <1>3, <2>1, SetStatusType
  <2>3. Current(c) \in Tx
    BY <1>1 DEF Current
  <2>4. tx'[c][attempt[c]].status = "sent"
    BY <2>2, <2>3, Zenon DEF Tx
  <2> QED BY <2>1, <2>2, <2>4, Zenon DEF Current
<1>4. CASE Build(c)
  <2>1. pc[c] = "build" /\ tx[c][attempt[c]].status = "none"
    BY <1>1, <1>4, Zenon DEF Build, BuiltInTurn, Current
  <2> QED BY <1>1, <1>4, <2>1, Zenon DEF Build
<1> QED BY <1>2, <1>3, <1>4, Zenon
      DEF Step, Invoke, Enter, DedupLanded, DedupPassed, SimulationFailed,
          BuildFailed, Sent, SendRejected, SendUnanswered, WaitSuccess, WaitFailed,
          Return

Outcome(c) == IF pc[c] \in {"returned", "thrown"} THEN pc[c] ELSE "open"

\* A step of a call is a stutter, a Return of what has landed, or a Throw.
LEMMA OutcomeMoves ==
    ASSUME CallInv, NEW c \in Call, Step(c) \/ Invoke(c)
    PROVE  /\ \A d \in Call : d # c => Outcome(d)' = Outcome(d)
           /\ \/ Outcome(c)' = Outcome(c)
              \/ Outcome(c) = "open" /\ Outcome(c)' = "returned" /\ Landed(c) # {}
              \/ Outcome(c) = "open" /\ Outcome(c)' = "thrown"
<1>1. pc \in [Call -> Pcs] /\ attempt[c] \in Attempt
  BY DEF CallInv, TypeOK, Pcs
<1>2. ASSUME NEW s, Goto(c, s)
      PROVE  pc'[c] = s /\ \A d \in Call : d # c => pc'[d] = pc[d]
  BY <1>1, <1>2, Zenon DEF Goto
<1>3. CASE RetryOrThrow(c) /\ pc[c] \in {"build", "send", "wait"}
  BY <1>2, <1>3 DEF RetryOrThrow, Leave, Outcome
<1>4. CASE DedupLanded(c) \/ WaitSuccess(c)
  <2>1. Goto(c, "returned") /\ pc[c] \in {"check", "wait"}
    BY <1>4, Zenon DEF DedupLanded, WaitSuccess, Return, Leave
  <2>2. Landed(c) # {}
    BY <1>1, <1>4, Zenon DEF DedupLanded, WaitSuccess, WaitSees, Current, Landed
  <2> QED BY <1>2, <2>1, <2>2, Zenon DEF Outcome
<1>5. CASE SimulationFailed(c)
  BY <1>2, <1>5, Zenon DEF SimulationFailed, Leave, Outcome
<1>6. CASE Invoke(c) \/ Enter(c) \/ DedupPassed(c) \/ Build(c) \/ Sent(c)
  BY <1>2, <1>6 DEF Invoke, Enter, DedupPassed, Build, Sent, Outcome
<1> QED BY <1>3, <1>4, <1>5, <1>6, Zenon
      DEF Step, BuildFailed, SendRejected, SendUnanswered, WaitFailed

\* Whatever the RPC node does, invokeContract implements ContractCall: a call
\* that returned has landed, and it answers once.
THEOREM CallsImplementContract == Spec => RefinesContractCall
<1> DEFINE out == [c \in Call |-> Outcome(c)]
           land == {c \in Call : Landed(c) # {}}
<1>1. Init => Abstract!Init
  BY DEF Init, Abstract!Init, Landed, Unbuilt
<1>2. CallInv /\ [Next]_vars => [Abstract!Next]_<<out, land>>
  <2> SUFFICES ASSUME CallInv, [Next]_vars
               PROVE  Abstract!Next \/ UNCHANGED <<out, land>>
    BY Zenon
  <2>1. ASSUME NEW c \in Call, Step(c) \/ Invoke(c)
        PROVE  Abstract!Next \/ UNCHANGED <<out, land>>
    <3>1. UNCHANGED land
      BY <2>1, LandedGrows
    <3>2. CASE Outcome(c)' = Outcome(c)
      BY <2>1, <3>1, <3>2, OutcomeMoves, SMTT(30)
    <3>3. CASE Outcome(c) = "open" /\ Outcome(c)' = "returned" /\ Landed(c) # {}
      <4>1. out' = [out EXCEPT ![c] = "returned"] /\ out[c] = "open" /\ c \in land
        BY <2>1, <3>3, OutcomeMoves, Zenon
      <4> QED BY <3>1, <4>1, Zenon DEF Abstract!Next, Abstract!Return, Outcome
    <3>4. CASE Outcome(c) = "open" /\ Outcome(c)' = "thrown"
      <4>1. out' = [out EXCEPT ![c] = "thrown"] /\ out[c] = "open"
        BY <2>1, <3>4, OutcomeMoves, Zenon
      <4> QED BY <3>1, <4>1, Zenon DEF Abstract!Next, Abstract!Throw, Outcome
    <3> QED BY <2>1, <3>2, <3>3, <3>4, OutcomeMoves
  <2>2. ASSUME NEW c \in Call, NEW a \in Attempt, Close(c, a)
        PROVE  Abstract!Next \/ UNCHANGED <<out, land>>
    <3>1. PICK s \in {"success", "failed"} : tx' = [tx EXCEPT ![c][a].status = s]
      BY <2>2, Zenon DEF Close
    <3>2. tx \in [Call -> [Attempt -> Tx]] /\ tx[c][a].status = "sent"
      BY <2>2 DEF CallInv, TypeOK, Tx, Close, CanLand
    <3>3. /\ tx'[c][a].status = s
          /\ \A b \in Attempt : b # a => tx'[c][b] = tx[c][b]
          /\ \A d \in Call : d # c => tx'[d] = tx[d]
      BY <3>1, <3>2 DEF Tx
    <3>4. UNCHANGED out
      BY <2>2 DEF Close, Outcome
    <3>5. CASE s = "failed"
      <4>1. \A d \in Call : Landed(d)' = Landed(d)
        BY <3>2, <3>3, <3>5, Zenon DEF Landed
      <4> QED BY <3>4, <4>1, Zenon
    <3>6. CASE s = "success"
      <4>1. Landed(c)' # {} /\ \A d \in Call : d # c => Landed(d)' = Landed(d)
        BY <3>3, <3>6 DEF Landed
      <4>2. land' = land \cup {c}
        BY <4>1
      <4> QED BY <3>4, <4>2, Zenon DEF Abstract!Next, Abstract!Land, Outcome
    <3> QED BY <3>5, <3>6
  <2>3. CASE Tick
    <3>1. ASSUME NEW c \in Call, NEW a \in Attempt
          PROVE  tx'[c][a].status = tx[c][a].status
      <4>1. tx[c][a] \in Tx /\ tx'[c][a] = [tx[c][a] EXCEPT !.left = Less(@)]
        BY <2>3, Zenon DEF Tick, CallInv, TypeOK, Tx
      <4> QED BY <4>1 DEF Tx
    <3>2. \A c \in Call : Landed(c)' = Landed(c)
      BY <3>1 DEF Landed
    <3>3. UNCHANGED out
      BY <2>3, Zenon DEF Tick, Outcome
    <3> QED BY <3>2, <3>3
  <2>4. CASE UNCHANGED vars
    BY <2>4 DEF vars, Outcome, Landed
  <2> QED BY <2>1, <2>2, <2>3, <2>4 DEF Next
<1> QED BY <1>1, <1>2, CallInvariance, PTL
      DEF Spec, RefinesContractCall, Abstract!Spec, Outcome
=============================================================================
