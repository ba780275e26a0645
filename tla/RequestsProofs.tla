--------------------------- MODULE RequestsProofs ---------------------------
(***************************************************************************)
(* What stands between a client and the handlers, for any number of        *)
(* requests and tokens, and any lifetimes: a lockout has an end, a marked  *)
(* token stays barred, a refusal stands for recent failures and a key has  *)
(* one live handler. The parts share no state: a step of the model is a    *)
(* step of one part and leaves the others alone.                           *)
(***************************************************************************)
EXTENDS MCRequests, Sequences, TLAPS

\* A step of the model is, for each part, a step of that part or leaves it alone.
LEMMA PartSteps ==
  ASSUME [Next]_vars
  PROVE  /\ [L!Next]_(L!vars) /\ [T!Next]_(T!vars)
         /\ [O!Next]_(O!vars) /\ [I!Next]_(I!vars)
  BY DEF Next, vars, Login, Keys, login, tokens, operator, keys, L!vars, T!vars, O!vars, I!vars

-----------------------------------------------------------------------------
\* WalletLogin.
Places == {"idle", "set", "mirror", "locked?", "consume", "find", "drop", "verify",
           "count", "expire", "clear", "headerFind", "headerDrop"}

\* The inductive invariant: LockoutHasExpiry with the types it needs.
LoginInv ==
    /\ lockout \in [count : Nat, ttl : Nat]
    /\ pc \in [Request -> Places]
    /\ L!LockoutHasExpiry

-----------------------------------------------------------------------------
\* A step that leaves the counter alone, and every request that has its EXPIRE
\* still to send unless Redis or the process fails, keeps the invariant.
LEMMA QuietStep ==
  ASSUME LoginInv, UNCHANGED <<lockout, faults>>, pc' \in [Request -> Places],
         faults \cap {"redis", "crash"} = {} =>
            \A x \in Request : pc[x] = "expire" => pc'[x] = "expire"
  PROVE  LoginInv'
  BY DEF LoginInv, L!LockoutHasExpiry

\* The next place of one request leaves the others where they are.
LEMMA OneMoves ==
  ASSUME LoginInv, NEW x \in Request, NEW step \in Places, pc' = [pc EXCEPT ![x] = step]
  PROVE  /\ pc' \in [Request -> Places] /\ pc'[x] = step
         /\ \A y \in Request : y # x => pc'[y] = pc[y]
  BY DEF LoginInv

\* Every step of the specification keeps the invariant: only the request that
\* counts from zero leaves the counter without a TTL, and it has its EXPIRE to send.
LEMMA LoginNextInv == ASSUME L!LoginAssumption, LoginInv, [L!Next]_(L!vars) PROVE LoginInv'
<1> USE DEF L!LoginAssumption
<1>1. CASE UNCHANGED L!vars
  BY <1>1, QuietStep DEF L!vars, LoginInv
<1>2. ASSUME NEW x \in Request, NEW step \in Places, pc' = [pc EXCEPT ![x] = step],
             UNCHANGED <<lockout, faults>>,
             pc[x] = "expire" => faults \cap {"redis", "crash"} # {}
      PROVE  LoginInv'
  <2>1. /\ pc' \in [Request -> Places] /\ pc'[x] = step
        /\ \A y \in Request : y # x => pc'[y] = pc[y]
    BY <1>2, OneMoves, Zenon
  <2> QED BY <1>2, <2>1, QuietStep
<1>3. ASSUME NEW x \in Request,
             L!Challenge(x) \/ L!SetNonce(x) \/ L!Mirror(x) \/ L!Login(x) \/ L!CheckLockout(x)
      PROVE  LoginInv'
  BY <1>2, <1>3
  DEF L!Challenge, L!SetNonce, L!Mirror, L!Login, L!Begin, L!CheckLockout, L!Goto, L!End, Places
<1>4. ASSUME NEW x \in Request,
             L!Consume(x) \/ L!Find(x) \/ L!Drop(x) \/ L!Verify(x)
      PROVE  LoginInv'
  BY <1>2, <1>4 DEF L!Consume, L!Find, L!Drop, L!Verify, L!Goto, L!End, Places
<1>5. ASSUME NEW x \in Request, L!Header(x) \/ L!HeaderFind(x) \/ L!HeaderDrop(x)
      PROVE  LoginInv'
  BY <1>2, <1>5 DEF L!Header, L!Begin, L!HeaderFind, L!HeaderDrop, L!Goto, L!End, Places
<1>6. ASSUME NEW x \in Request, L!RedisThrows(x) \/ L!Crash(x) PROVE LoginInv'
  BY <1>2, <1>6 DEF L!RedisThrows, L!Crash, L!End, Places
<1>7. ASSUME NEW x \in Request, L!Count(x) PROVE LoginInv'
  <2>1. /\ lockout'.count = lockout.count + 1 /\ lockout'.ttl = lockout.ttl
        /\ lockout' \in [count : Nat, ttl : Nat]
    BY <1>7 DEF L!Count, LoginInv
  <2>2. PICK step \in {"expire", "idle"} : pc' = [pc EXCEPT ![x] = step]
    BY <1>7, Zenon DEF L!Count, L!Goto, L!End
  <2>3. /\ pc' \in [Request -> Places] /\ pc'[x] = step
        /\ \A y \in Request : y # x => pc'[y] = pc[y]
    BY <2>2, OneMoves DEF Places
  <2>4. lockout.count = 0 => step = "expire"
    BY <1>7, <2>1, <2>2, <2>3 DEF L!Count, L!FirstFailure, L!Goto, L!End, LoginInv
  <2>5. faults' = faults /\ pc[x] = "count"
    BY <1>7, Zenon DEF L!Count, L!Goto, L!End
  <2>6. L!LockoutHasExpiry'
    BY <2>1, <2>3, <2>4, <2>5 DEF LoginInv, L!LockoutHasExpiry
  <2> QED BY <2>1, <2>3, <2>6 DEF LoginInv
<1>8. ASSUME NEW x \in Request, L!Expire(x) \/ L!Clear(x) PROVE LoginInv'
  <2>1. /\ lockout' \in [count : Nat, ttl : Nat]
        /\ lockout'.count > 0 => lockout'.ttl > 0
    BY <1>8 DEF L!Expire, L!Clear, LoginInv
  <2>2. pc' \in [Request -> Places]
    BY <1>8, OneMoves DEF L!Expire, L!Clear, L!End, Places
  <2> QED BY <2>1, <2>2 DEF LoginInv, L!LockoutHasExpiry
<1>9. CASE L!CleanupExpiredChallenges
  BY <1>9, QuietStep DEF L!CleanupExpiredChallenges, LoginInv
<1>10. CASE L!Tick
  <2>1. UNCHANGED <<pc, faults>>
    BY <1>10 DEF L!Tick
  <2>2. /\ lockout' \in [count : Nat, ttl : Nat]
        /\ \/ lockout' = lockout
           \/ lockout'.count = 0 \/ lockout'.ttl > 0
    <3>1. CASE lockout.ttl > 1
      BY <1>10, <3>1 DEF L!Tick, LoginInv
    <3>2. CASE lockout.ttl = 1
      BY <1>10, <3>2 DEF L!Tick, LoginInv
    <3>3. CASE lockout.ttl = 0
      BY <1>10, <3>3 DEF L!Tick, LoginInv
    <3> QED BY <3>1, <3>2, <3>3 DEF LoginInv
  <2> QED BY <2>1, <2>2 DEF LoginInv, L!LockoutHasExpiry
<1> QED
  BY <1>1, <1>3, <1>4, <1>5, <1>6, <1>7, <1>8, <1>9, <1>10, Zenon DEF L!Next, L!Step

\* "Account temporarily locked": while Redis answers and no process dies, the counter
\* of failed attempts has a TTL or a request that is about to set it, for any number of
\* requests: this is why a lockout ends.
THEOREM LockoutGetsItsExpiry == ASSUME L!LoginAssumption PROVE FairSpec => []LockoutHasExpiry
<1>1. Init => LoginInv
  BY DEF Init, L!Init, LoginInv, L!LockoutHasExpiry, Places
<1>2. LoginInv /\ [Next]_vars => LoginInv'
  BY LoginNextInv, PartSteps
<1>3. LoginInv => LockoutHasExpiry
  BY DEF LoginInv, LockoutHasExpiry
<1> QED
  BY <1>1, <1>2, <1>3, PTL DEF FairSpec

-----------------------------------------------------------------------------
\* Tokens.
\* Every token has a remaining life and a mark, and a rotation about to mark
\* holds a token.
TokensTypes ==
    /\ kind \in Seq(DOMAIN T!Life) /\ left \in Seq(Nat) /\ mark \in Seq(Nat)
    /\ Len(left) = Len(kind) /\ Len(mark) = Len(kind)
    /\ marked \subseteq 1..Len(kind)
    /\ rotation \in [Request -> {"idle", "mark", "issue", "reuse"}]
    /\ \A c \in Request : rotation[c] = "mark" => tok[c] \in 1..Len(kind)
    /\ tok \in [Request -> Nat]

\* The inductive invariant: a mark has at least the life its token has left. That
\* a marked token is refused now says nothing of the next tick.
TokensInv == TokensTypes /\ \A t \in marked : mark[t] >= left[t]

-----------------------------------------------------------------------------
\* Appending leaves the entries of a sequence alone.
LEMMA Appended ==
  ASSUME NEW s \in Seq(Nat), NEW u \in Seq(Nat)
  PROVE  /\ s \o u \in Seq(Nat) /\ Len(s \o u) = Len(s) + Len(u)
         /\ \A t \in 1..Len(s) : (s \o u)[t] = s[t]
  OBVIOUS

\* Signing tokens leaves the life and the mark of the others alone.
LEMMA SignAllKeeps ==
  ASSUME T!LivesAssumption, TokensTypes, NEW ks \in Seq(DOMAIN T!Life), T!SignAll(ks)
  PROVE  /\ kind' \in Seq(DOMAIN T!Life) /\ left' \in Seq(Nat) /\ mark' \in Seq(Nat)
         /\ Len(kind') = Len(kind) + Len(ks)
         /\ Len(left') = Len(kind') /\ Len(mark') = Len(kind')
         /\ \A t \in 1..Len(kind) : left'[t] = left[t] /\ mark'[t] = mark[t]
<1> DEFINE lives == [i \in DOMAIN ks |-> T!Life[ks[i]]]
           zeros == [i \in DOMAIN ks |-> 0]
<1>1. DOMAIN ks = 1..Len(ks) /\ Len(ks) \in Nat
  OBVIOUS
<1>2. \A k \in DOMAIN T!Life : T!Life[k] \in Nat
  BY DEF T!Life, T!LivesAssumption
<1>3. lives \in Seq(Nat) /\ Len(lives) = Len(ks)
  <2>1. \A i \in 1..Len(ks) : ks[i] \in DOMAIN T!Life
    OBVIOUS
  <2> QED BY <1>1, <1>2, <2>1
<1>4. zeros \in Seq(Nat) /\ Len(zeros) = Len(ks)
  BY <1>1
<1>5. kind' = kind \o ks /\ left' = left \o lives /\ mark' = mark \o zeros
  BY DEF T!SignAll
<1> HIDE DEF lives, zeros
<1>6. kind \in Seq(DOMAIN T!Life) /\ left \in Seq(Nat) /\ mark \in Seq(Nat)
      /\ Len(left) = Len(kind) /\ Len(mark) = Len(kind)
  BY DEF TokensTypes
<1>7. kind' \in Seq(DOMAIN T!Life) /\ Len(kind') = Len(kind) + Len(ks)
  BY <1>5, <1>6
<1>8. /\ left' \in Seq(Nat) /\ Len(left') = Len(left) + Len(lives)
      /\ \A t \in 1..Len(left) : left'[t] = left[t]
  BY <1>3, <1>5, <1>6, Appended, Zenon
<1>9. /\ mark' \in Seq(Nat) /\ Len(mark') = Len(mark) + Len(zeros)
      /\ \A t \in 1..Len(mark) : mark'[t] = mark[t]
  BY <1>4, <1>5, <1>6, Appended, Zenon
<1> QED
  BY <1>3, <1>4, <1>6, <1>7, <1>8, <1>9

\* Signing tokens keeps the invariant, whoever signs.
LEMMA AfterSigning ==
  ASSUME T!LivesAssumption, TokensInv, NEW ks \in Seq(DOMAIN T!Life), T!SignAll(ks),
         rotation' \in [Request -> {"idle", "mark", "issue", "reuse"}],
         \A d \in Request : rotation'[d] = "mark" => rotation[d] = "mark",
         tok' = tok, marked' = marked
  PROVE  TokensInv'
<1>1. /\ kind' \in Seq(DOMAIN T!Life) /\ left' \in Seq(Nat) /\ mark' \in Seq(Nat)
      /\ Len(kind') = Len(kind) + Len(ks)
      /\ Len(left') = Len(kind') /\ Len(mark') = Len(kind')
      /\ \A t \in 1..Len(kind) : left'[t] = left[t] /\ mark'[t] = mark[t]
  BY SignAllKeeps DEF TokensInv
<1>2. Len(kind) \in Nat /\ Len(ks) \in Nat
  BY DEF TokensInv, TokensTypes
<1>3. \A t \in 1..Len(kind) : t \in 1..Len(kind')
  BY <1>1, <1>2
<1>4. TokensTypes'
  BY <1>1, <1>3 DEF TokensInv, TokensTypes
<1>5. \A t \in marked : mark'[t] >= left'[t]
  BY <1>1 DEF TokensInv, TokensTypes
<1> QED
  BY <1>4, <1>5 DEF TokensInv

\* A mark is set for at least what its token has left.
LEMMA SetMarkKeeps ==
  ASSUME TokensInv, NEW t \in 1..Len(kind), T!SetMark(t), UNCHANGED <<kind, left>>
  PROVE  /\ mark' \in Seq(Nat) /\ Len(mark') = Len(kind') /\ marked' \subseteq 1..Len(kind')
         /\ \A s \in marked' : mark'[s] >= left'[s]
<1>1. left[t] \in Nat /\ T!Remaining(t) \in Nat /\ T!Remaining(t) >= left[t]
  BY DEF TokensInv, TokensTypes, T!Remaining
<1>2. mark' = [mark EXCEPT ![t] = T!Remaining(t)] /\ marked' = marked \cup {t}
  BY DEF T!SetMark
<1>3. mark' \in Seq(Nat) /\ Len(mark') = Len(mark)
  BY <1>1, <1>2 DEF TokensInv, TokensTypes
<1>4. \A s \in marked' : mark'[s] >= left[s]
  BY <1>1, <1>2, SMTT(30) DEF TokensInv, TokensTypes
<1> QED
  BY <1>2, <1>3, <1>4 DEF TokensInv, TokensTypes

\* The initial state satisfies the invariant: there are no tokens.
LEMMA TokensInitInv == ASSUME T!Init PROVE TokensInv
  BY DEF T!Init, TokensInv, TokensTypes, T!Life

\* Every step of the specification keeps the invariant.
LEMMA TokensNextInv == ASSUME T!LivesAssumption, TokensInv, [T!Next]_(T!vars) PROVE TokensInv'
<1>0. TokensTypes /\ DOMAIN kind = 1..Len(kind) /\ Len(kind) \in Nat
  BY DEF TokensInv, TokensTypes
<1>1. CASE UNCHANGED T!vars
  BY <1>1 DEF T!vars, TokensInv, TokensTypes
<1>2. ASSUME NEW k \in {"access", "refresh"}, T!Sign(k) PROVE TokensInv'
  <2>1. <<k>> \in Seq(DOMAIN T!Life) /\ Len(<<k>>) = 1
    BY DEF T!Life
  <2>2. T!SignAll(<<k>>) /\ UNCHANGED <<family, rotation, tok, marked>>
    BY <1>2 DEF T!Sign
  <2>3. rotation' = rotation /\ rotation \in [Request -> {"idle", "mark", "issue", "reuse"}] /\ tok' = tok
    BY <1>0, <2>2 DEF TokensTypes
  <2> QED BY <2>1, <2>2, <2>3, AfterSigning, Zenon
<1>3. ASSUME NEW t \in DOMAIN kind, T!Revoke(t) PROVE TokensInv'
  <2>1. T!SetMark(t) /\ UNCHANGED <<kind, left, family, rotation, tok>>
    BY <1>3 DEF T!Revoke
  <2> QED BY <1>0, <2>1, SetMarkKeeps, Zenon DEF TokensInv, TokensTypes
<1>4. ASSUME NEW t \in DOMAIN kind, NEW c \in Request, T!Rotate(c, t) PROVE TokensInv'
  BY <1>0, <1>4 DEF T!Rotate, TokensInv, TokensTypes
<1>5. ASSUME NEW c \in Request, T!InvalidateFamily(c) PROVE TokensInv'
  BY <1>5 DEF T!InvalidateFamily, TokensInv, TokensTypes
<1>6. ASSUME NEW c \in Request, T!Mark(c) PROVE TokensInv'
  <2>1. /\ tok[c] \in 1..Len(kind) /\ T!SetMark(tok[c])
        /\ rotation' = [rotation EXCEPT ![c] = "issue"] /\ UNCHANGED <<kind, left, family, tok>>
    BY <1>6 DEF T!Mark, TokensInv, TokensTypes
  <2> QED BY <2>1, SetMarkKeeps, Zenon DEF TokensInv, TokensTypes
<1>7. ASSUME NEW c \in Request, T!Issue(c) PROVE TokensInv'
  <2>1. <<"access", "refresh">> \in Seq(DOMAIN T!Life) /\ Len(<<"access", "refresh">>) = 2
    BY DEF T!Life
  <2>2. /\ T!SignAll(<<"access", "refresh">>) /\ rotation' = [rotation EXCEPT ![c] = "idle"]
        /\ UNCHANGED <<family, tok, marked>>
    BY <1>7 DEF T!Issue
  <2>3. /\ rotation' \in [Request -> {"idle", "mark", "issue", "reuse"}] /\ tok' = tok
        /\ \A d \in Request : rotation'[d] = "mark" => rotation[d] = "mark"
    BY <1>0, <2>2 DEF TokensTypes
  <2> QED BY <2>1, <2>2, <2>3, AfterSigning, Zenon
<1>8. CASE T!Tick
  <2>1. \A n \in Nat : T!Down(n) \in Nat
    BY DEF T!Down
  <2>2. \A m, n \in Nat : m >= n => T!Down(m) >= T!Down(n)
    BY DEF T!Down
  <2>3. /\ left' = [t \in 1..Len(kind) |-> T!Down(left[t])]
        /\ mark' = [t \in 1..Len(kind) |-> T!Down(mark[t])]
        /\ UNCHANGED <<kind, rotation, tok, marked>>
    BY <1>8, <1>0 DEF T!Tick
  <2>4. \A t \in 1..Len(kind) : left[t] \in Nat /\ mark[t] \in Nat
    BY <1>0 DEF TokensTypes
  <2>5. left' \in Seq(Nat) /\ mark' \in Seq(Nat) /\ Len(left') = Len(kind) /\ Len(mark') = Len(kind)
    <3>1. \A t \in 1..Len(kind) : T!Down(left[t]) \in Nat /\ T!Down(mark[t]) \in Nat
      BY <2>1, <2>4, Zenon
    <3>2. left' \in Seq(Nat) /\ Len(left') = Len(kind)
      BY <3>1, <2>3, <1>0
    <3>3. mark' \in Seq(Nat) /\ Len(mark') = Len(kind)
      BY <3>1, <2>3, <1>0
    <3> QED BY <3>2, <3>3
  <2>6. \A t \in marked : mark'[t] >= left'[t]
    BY <2>2, <2>3, <2>4, Zenon DEF TokensInv, TokensTypes
  <2> QED BY <2>3, <2>5, <2>6, Zenon DEF TokensInv, TokensTypes
<1> QED
  BY <1>1, <1>2, <1>3, <1>4, <1>5, <1>6, <1>7, <1>8 DEF T!Next

\* verifyAsync and rotateRefresh never take a token again that revoke or
\* rotateRefresh marked: the TTL of a mark is at least what its token has left.
THEOREM MarkedStaysBarred == ASSUME T!LivesAssumption PROVE FairSpec => []MarkOutlivesToken
<1>1. Init => TokensInv
  BY TokensInitInv DEF Init
<1>2. TokensInv /\ [Next]_vars => TokensInv'
  BY TokensNextInv, PartSteps
<1>3. TokensInv => MarkOutlivesToken
  BY DEF TokensInv, TokensTypes, MarkOutlivesToken, T!MarkOutlivesToken, T!Accepted
<1> QED
  BY <1>1, <1>2, <1>3, PTL DEF FairSpec

-----------------------------------------------------------------------------
\* OperatorLockout.
Records == [count : Nat, reset : 0..Window, px : Nat]

\* The part of the types that the argument needs.
LockoutTypes ==
    /\ record \in Records /\ read \in [Request -> Records]
    /\ guard \in [Request -> {"idle", "check", "clear", "decide", "load", "store", "reset"}]
    /\ recent \in [1..MaxFailures -> 0..Window]

\* The latest failure comes first.
Sorted == \A i, j \in 1..MaxFailures : i <= j => recent[i] <= recent[j]

\* As many failures as a record counts fall into its window, which ends when the
\* oldest of them is Window ticks old, or earlier.
Backed(r) == r.reset > 0 =>
    \A i \in 1..MaxFailures : i <= r.count => recent[i] + r.reset <= Window

\* The inductive invariant: also a record that was read and not yet written back
\* is backed, for no time passes until then.
LockoutInv ==
    /\ LockoutTypes /\ Sorted /\ Backed(record)
    /\ \A x \in Request : guard[x] = "store" => Backed(read[x])

-----------------------------------------------------------------------------
\* The initial state satisfies the invariant: there is no record.
LEMMA LockoutInitInv == ASSUME O!WindowAssumption, O!Init PROVE LockoutInv
  BY DEF O!WindowAssumption, O!Init, LockoutInv, LockoutTypes, Records, O!None, Sorted, Backed

\* A new failure backs one more, and whatever was backed before.
LEMMA OneMore ==
  ASSUME O!WindowAssumption, LockoutTypes, Sorted, NEW r \in Records, Backed(r),
         recent' = [i \in 1..MaxFailures |-> IF i = 1 THEN 0 ELSE recent[i - 1]]
  PROVE  /\ recent' \in [1..MaxFailures -> 0..Window] /\ Sorted'
         /\ O!Counted(r) \in Records
         /\ O!Counted(r).reset > 0 =>
              \A i \in 1..MaxFailures : i <= O!Counted(r).count =>
                recent'[i] + O!Counted(r).reset <= Window
         /\ r.reset > 0 =>
              \A i \in 1..MaxFailures : i <= r.count => recent'[i] + r.reset <= Window
<1>1. \A i \in 1..MaxFailures : i # 1 => i - 1 \in 1..MaxFailures
  BY DEF O!WindowAssumption
<1>2. recent' \in [1..MaxFailures -> 0..Window]
  BY <1>1 DEF LockoutTypes, O!WindowAssumption
<1>3. Sorted'
  BY <1>1 DEF LockoutTypes, O!WindowAssumption, Sorted
<1>4. \A i \in 1..MaxFailures : recent'[i] <= recent[i]
  BY <1>1 DEF LockoutTypes, O!WindowAssumption, Sorted
<1>5. r.reset > 0 => \A i \in 1..MaxFailures : i <= r.count => recent'[i] + r.reset <= Window
  BY <1>2, <1>4, SMTT(30) DEF Backed, LockoutTypes, Records, O!WindowAssumption
<1>6. CASE r = O!None \/ r.reset = 0
  BY <1>2, <1>3, <1>5, <1>6 DEF O!Counted, Records, O!WindowAssumption
<1>7. CASE ~(r = O!None \/ r.reset = 0)
  <2>1. O!Counted(r) = [count |-> r.count + 1, reset |-> r.reset, px |-> O!Px(r.reset)]
    BY <1>7 DEF O!Counted
  <2>2. O!Counted(r) \in Records
    BY <2>1 DEF Records, O!Px, O!WindowAssumption
  <2>3. \A i \in 1..MaxFailures : i <= r.count + 1 => recent'[i] + r.reset <= Window
    BY <1>1, <1>7, SMTT(30) DEF Backed, LockoutTypes, Records, O!WindowAssumption
  <2> QED
    BY <1>2, <1>3, <1>5, <2>1, <2>2, <2>3
<1> QED
  BY <1>6, <1>7

\* Every step of the specification keeps the invariant.
LEMMA LockoutNextInv == ASSUME O!WindowAssumption, LockoutInv, [O!Next]_(O!vars) PROVE LockoutInv'
<1>0. LockoutTypes /\ Sorted /\ Backed(record) /\ \A x \in Request : guard[x] = "store" => Backed(read[x])
  BY DEF LockoutInv
<1>1. CASE UNCHANGED O!vars
  BY <1>1, Zenon DEF O!vars, LockoutInv, LockoutTypes, Sorted, Backed
<1>2. ASSUME NEW x \in Request,
             \/ O!Start(x) \/ O!CheckRateLimit(x)
             \/ \E credential \in {"key", "previous key", "admin token",
                                   "other token", "bad token", "none"} : O!Decide(x, credential)
      PROVE  LockoutInv'
  <2>1. UNCHANGED <<record, read, recent>>
    BY <1>2, Zenon DEF O!Start, O!CheckRateLimit, O!Decide
  <2>2. PICK s \in {"idle", "check", "clear", "decide", "load", "reset"} : O!Goto(x, s)
    BY <1>2, Zenon DEF O!Start, O!CheckRateLimit, O!Decide
  <2> QED
    BY <1>0, <2>1, <2>2 DEF O!Goto, LockoutInv, LockoutTypes, Sorted, Backed
<1>3. ASSUME NEW x \in Request, O!ClearPast(x) \/ O!Reset(x) PROVE LockoutInv'
  <2>1. PICK s \in {"idle", "decide"} : guard' = [guard EXCEPT ![x] = s]
    BY <1>3 DEF O!ClearPast, O!Reset, O!Goto
  <2>2. record' = O!None /\ UNCHANGED <<read, recent>>
    BY <1>3 DEF O!ClearPast, O!Reset
  <2>3. O!None \in Records /\ ~(O!None.reset > 0)
    BY DEF O!None, Records, O!WindowAssumption
  <2> QED
    BY <1>0, <2>1, <2>2, <2>3 DEF LockoutInv, LockoutTypes, Sorted, Backed
<1>4. ASSUME NEW x \in Request, O!Load(x) PROVE LockoutInv'
  BY <1>0, <1>4, Zenon DEF O!Load, O!Goto, LockoutInv, LockoutTypes, Sorted, Backed
<1>5. ASSUME NEW x \in Request, O!Store(x) PROVE LockoutInv'
  <2>1. /\ record' = O!Counted(read[x]) /\ read' = [read EXCEPT ![x] = O!None]
        /\ recent' = [i \in 1..MaxFailures |-> IF i = 1 THEN 0 ELSE recent[i - 1]]
        /\ guard' = [guard EXCEPT ![x] = "idle"] /\ read[x] \in Records /\ Backed(read[x])
    BY <1>0, <1>5, Zenon DEF O!Store, O!Goto, LockoutTypes
  <2>2. recent' \in [1..MaxFailures -> 0..Window] /\ Sorted' /\ record' \in Records /\ Backed(record)'
    BY <1>0, <2>1, OneMore DEF Backed
  <2>3. O!None \in Records
    BY DEF O!None, Records, O!WindowAssumption
  <2>4. LockoutTypes'
    BY <1>0, <2>1, <2>2, <2>3 DEF LockoutTypes
  <2>5. ASSUME NEW y \in Request, guard'[y] = "store" PROVE Backed(read[y])'
    <3>1. y # x /\ guard[y] = "store" /\ read'[y] = read[y] /\ read[y] \in Records
      BY <1>0, <2>1, <2>5, Zenon DEF LockoutTypes
    <3> QED
      BY <1>0, <2>1, <3>1, OneMore, Zenon DEF Backed
  <2> QED
    BY <2>2, <2>4, <2>5, Zenon DEF LockoutInv
<1>6. CASE O!Tick
  <2>1. /\ \A x \in Request : guard[x] # "store"
        /\ recent' = [i \in 1..MaxFailures |-> IF recent[i] < Window THEN recent[i] + 1 ELSE Window]
        /\ UNCHANGED <<guard, read>>
    BY <1>6 DEF O!Tick
  <2>2. recent' \in [1..MaxFailures -> 0..Window] /\ Sorted'
    BY <1>0, <2>1, SMTT(30) DEF LockoutTypes, Sorted, O!WindowAssumption
  <2>3. /\ record' \in Records
        /\ record'.reset > 0 => record'.count = record.count /\ record'.reset + 1 = record.reset
    <3>1. record.px \in Nat /\ record.reset \in 0..Window /\ record.count \in Nat
      BY <1>0 DEF LockoutTypes, Records
    <3>2. CASE record.px > 1
      <4>1. record' = [count |-> record.count, reset |-> IF record.reset > 0 THEN record.reset - 1 ELSE 0,
                       px |-> record.px - 1]
        BY <1>0, <1>6, <3>2, Zenon DEF O!Tick, LockoutTypes, Records
      <4> QED
        BY <3>1, <3>2, <4>1 DEF Records, O!WindowAssumption
    <3>3. CASE ~(record.px > 1)
      BY <1>6, <3>3 DEF O!Tick, O!None, Records, O!WindowAssumption
    <3> QED
      BY <3>2, <3>3
  <2>4. Backed(record)'
    BY <1>0, <2>1, <2>3 DEF LockoutTypes, Records, Backed, O!WindowAssumption
  <2> QED
    BY <1>0, <2>1, <2>2, <2>3, <2>4 DEF LockoutInv, LockoutTypes
<1> QED
  BY <1>1, <1>2, <1>3, <1>4, <1>5, <1>6, Zenon DEF O!Next

\* checkRateLimit refuses only while MaxFailures failed attempts lie within the
\* window: no interleaving of recordFailure's read and write, of a cleared record
\* and of a late reset makes the record count failures that never were.
THEOREM RefusedOnlyForRecent == ASSUME O!WindowAssumption PROVE FairSpec => []RefusedForRecentFailures
<1>1. Init => LockoutInv
  BY LockoutInitInv DEF Init
<1>2. LockoutInv /\ [Next]_vars => LockoutInv'
  BY LockoutNextInv, PartSteps
<1>3. LockoutInv => RefusedForRecentFailures
  BY DEF LockoutInv, LockoutTypes, Records, Backed, RefusedForRecentFailures,
         O!RefusedForRecentFailures, O!WindowAssumption
<1> QED
  BY <1>1, <1>2, <1>3, PTL DEF FairSpec

-----------------------------------------------------------------------------
\* Idempotency.
\* The part of the types that the argument needs.
KeyTypes ==
    /\ lock \in [by : Keyed \cup {NoRequest}, ttl : Nat]
    /\ keyed \in [Keyed -> {"new", "get", "lock", "recheck", "poll", "done"}]
    /\ age \in [Keyed -> Nat]
    /\ answer \in [Keyed -> I!Answer]
    /\ handler \in [Keyed -> {"none", "running", "ok", "error", "dead"}]
    /\ cmds \in [Keyed -> Seq({"set", "release"})]
    /\ hold \in [Keyed -> {"no", "held", "released"}]

\* Until its handle() is done a request has no handler, command or hold.
Fresh(x) == keyed[x] # "done" => handler[x] = "none" /\ cmds[x] = <<>> /\ hold[x] = "no"

\* On its second look a request has just taken the lock.
Waiting == \A x \in Keyed :
    Fresh(x) /\ (keyed[x] = "recheck" => lock.by = x /\ lock.ttl = LockTtl)

\* Its handler runs and its client waits.
Live(x) == handler[x] = "running" /\ answer[x] = "none"

\* A live request has the lock, for longer than its timer lets it live, and no
\* command of its own is about to release it.
Owns == \A x \in Keyed : Live(x) =>
    /\ lock.by = x /\ lock.ttl + age[x] >= LockTtl
    /\ cmds[x] = <<>> /\ hold[x] = "held"

\* The inductive invariant.
KeyInv == KeyTypes /\ "redis" \notin failing /\ Waiting /\ Owns

-----------------------------------------------------------------------------
\* The initial state satisfies the invariant: no request has arrived.
LEMMA KeyInitInv == ASSUME I!TimesAssumption, I!Init, "redis" \notin failing PROVE KeyInv
  BY DEF I!TimesAssumption, I!Init, KeyInv, KeyTypes, Waiting, Fresh, Owns, Live, I!Free, I!Answer

\* An answer goes to a client that waits.
LEMMA SendKeeps ==
  ASSUME KeyTypes, NEW x \in Keyed, NEW a \in I!Answer \ {"none"}, I!Send(x, a)
  PROVE  /\ answer' \in [Keyed -> I!Answer] /\ answer'[x] # "none"
         /\ \A y \in Keyed : y # x => answer'[y] = answer[y]
  BY DEF KeyTypes, I!Send, I!Answer

\* The end of a response gives commands to its own request only.
LEMMA ReleaseKeeps ==
  ASSUME KeyTypes, NEW x \in Keyed, I!Release(x)
  PROVE  /\ cmds' \in [Keyed -> Seq({"set", "release"})]
         /\ hold' \in [Keyed -> {"no", "held", "released"}]
         /\ \A y \in Keyed : y # x => cmds'[y] = cmds[y] /\ hold'[y] = hold[y]
         /\ hold[x] # "held" => cmds' = cmds /\ hold' = hold
<1>1. CASE hold[x] = "held"
  <2>1. /\ cmds' = [cmds EXCEPT ![x] = <<"release">>]
        /\ hold' = [hold EXCEPT ![x] = "released"]
    BY <1>1 DEF I!Release
  <2>2. <<"release">> \in Seq({"set", "release"})
    OBVIOUS
  <2> QED
    BY <1>1, <2>1, <2>2 DEF KeyTypes
<1>2. CASE hold[x] # "held"
  BY <1>2 DEF I!Release, KeyTypes
<1> QED
  BY <1>1, <1>2, Zenon

\* A step changes nothing of the requests but x.
OthersKeep(x) == \A y \in Keyed : y # x =>
    /\ keyed'[y] = keyed[y] /\ answer'[y] = answer[y] /\ handler'[y] = handler[y]
    /\ cmds'[y] = cmds[y] /\ hold'[y] = hold[y]

\* A step of one request that leaves the lock alone, and after which that request
\* is not live, keeps the invariant.
LEMMA OneRequest ==
  ASSUME KeyInv, NEW x \in Keyed, UNCHANGED <<lock, age, failing>>, KeyTypes', OthersKeep(x),
         Fresh(x)', keyed'[x] # "recheck", ~Live(x)'
  PROVE  KeyInv'
<1>1. Waiting'
  BY SMTT(30) DEF KeyInv, Waiting, Fresh, OthersKeep
<1>2. Owns'
  BY Zenon DEF KeyInv, Owns, Live, OthersKeep
<1> QED
  BY <1>1, <1>2, Zenon DEF KeyInv

-----------------------------------------------------------------------------
\* Every step of the specification keeps the invariant.
LEMMA KeyNextInv ==
  ASSUME I!TimesAssumption, I!LockOutlivesRequest, KeyInv, [I!Next]_(I!vars)
  PROVE  KeyInv'
<1>0. KeyTypes /\ "redis" \notin failing /\ Waiting /\ Owns
  BY Zenon DEF KeyInv
<1>1. CASE UNCHANGED I!vars
  BY <1>1 DEF I!vars, KeyInv, KeyTypes, Waiting, Fresh, Owns, Live
<1>2. ASSUME NEW x \in Keyed, I!Arrive(x) \/ I!Poll(x) PROVE KeyInv'
  <2>1. KeyTypes'
    BY <1>0, <1>2, Zenon DEF KeyTypes, I!Arrive, I!Poll
  <2>2. /\ OthersKeep(x) /\ Fresh(x)' /\ keyed'[x] # "recheck" /\ ~Live(x)'
        /\ UNCHANGED <<lock, age, failing>>
    BY <1>0, <1>2, ZenonT(30) DEF KeyTypes, Waiting, Fresh, OthersKeep, Live, I!Arrive, I!Poll
  <2> QED
    BY <2>1, <2>2, OneRequest
<1>3. ASSUME NEW x \in Keyed, I!Get(x) PROVE KeyInv'
  <2>1. KeyTypes'
    BY <1>0, <1>3, ZenonT(30) DEF KeyTypes, I!Get, I!Send, I!Answer
  <2>2. \A y \in Keyed : y # x => answer'[y] = answer[y]
    BY <1>0, <1>3, Zenon DEF KeyTypes, I!Get, I!Send
  <2>3. /\ OthersKeep(x) /\ Fresh(x)' /\ keyed'[x] # "recheck" /\ ~Live(x)'
        /\ UNCHANGED <<lock, age, failing>>
    BY <1>0, <1>3, <2>2 DEF KeyTypes, Waiting, Fresh, OthersKeep, Live, I!Get
  <2> QED
    BY <2>1, <2>3, OneRequest
<1>4. ASSUME NEW x \in Keyed, I!Acquire(x) PROVE KeyInv'
  <2>1. CASE I!TryLock(x) /\ keyed' = [keyed EXCEPT ![x] = "recheck"] /\ UNCHANGED answer
    <3>1. /\ lock.by = NoRequest /\ lock' = [by |-> x, ttl |-> LockTtl]
          /\ UNCHANGED <<answer, age, handler, cmds, hold, failing>>
          /\ keyed[x] = "lock"
      BY <1>4, <2>1, Zenon DEF I!Acquire, I!TryLock, I!Free
    <3>2. \A y \in Keyed : lock.by # y
      BY <3>1, Zenon DEF I!TimesAssumption
    <3>3. KeyTypes'
      BY <1>0, <2>1, <3>1, Zenon DEF KeyTypes, I!TimesAssumption
    <3>4. Waiting' /\ Owns'
      BY <1>0, <2>1, <3>1, <3>2, SMTT(30) DEF KeyTypes, Waiting, Fresh, Owns, Live
    <3> QED
      BY <1>0, <3>1, <3>3, <3>4, Zenon DEF KeyInv
  <2>2. CASE lock # I!Free /\ UNCHANGED lock /\ keyed' = [keyed EXCEPT ![x] = "done"] /\ I!Send(x, "409")
    <3>1. KeyTypes'
      BY <1>0, <1>4, <2>2, Zenon DEF KeyTypes, I!Acquire, I!Send, I!Answer
    <3>2. \A y \in Keyed : y # x => answer'[y] = answer[y]
      BY <1>0, <2>2, ZenonT(30) DEF KeyTypes, I!Send
    <3>3. /\ OthersKeep(x) /\ Fresh(x)' /\ keyed'[x] # "recheck" /\ ~Live(x)'
          /\ UNCHANGED <<lock, age, failing>>
      BY <1>0, <1>4, <2>2, <3>2, SMTT(30) DEF KeyTypes, Waiting, Fresh, OthersKeep, Live, I!Acquire
    <3> QED
      BY <3>1, <3>3, OneRequest
  <2>3. CASE UNCHANGED <<lock, answer>> /\ keyed' = [keyed EXCEPT ![x] = "poll"]
    <3>1. KeyTypes'
      BY <1>0, <1>4, <2>3, Zenon DEF KeyTypes, I!Acquire
    <3>2. /\ OthersKeep(x) /\ Fresh(x)' /\ keyed'[x] # "recheck" /\ ~Live(x)'
          /\ UNCHANGED <<lock, age, failing>>
      BY <1>0, <1>4, <2>3 DEF KeyTypes, Waiting, Fresh, OthersKeep, Live, I!Acquire
    <3> QED
      BY <3>1, <3>2, OneRequest
  <2> QED
    BY <1>4, <2>1, <2>2, <2>3, Zenon DEF I!Acquire
<1>5. ASSUME NEW x \in Keyed, I!Recheck(x) PROVE KeyInv'
  <2>1. /\ keyed[x] = "recheck" /\ keyed' = [keyed EXCEPT ![x] = "done"]
        /\ UNCHANGED <<cached, lock, age, failing>>
    BY <1>5 DEF I!Recheck
  <2>2. CASE cached
    <3>1. I!Send(x, "replay") /\ cmds' = [cmds EXCEPT ![x] = <<"release">>] /\ UNCHANGED <<handler, hold>>
      BY <1>5, <2>2, Zenon DEF I!Recheck
    <3>2. KeyTypes'
      BY <1>0, <2>1, <3>1 DEF KeyTypes, I!Send, I!Answer
    <3>3. \A y \in Keyed : y # x => answer'[y] = answer[y]
      BY <1>0, <3>1, Zenon DEF KeyTypes, I!Send
    <3>4. OthersKeep(x) /\ Fresh(x)' /\ keyed'[x] # "recheck" /\ ~Live(x)'
      BY <1>0, <2>1, <3>1, <3>3 DEF KeyTypes, Waiting, Fresh, OthersKeep, Live
    <3> QED
      BY <2>1, <3>2, <3>4, OneRequest, Zenon
  <2>3. CASE ~cached
    <3>1. /\ handler' = [handler EXCEPT ![x] = "running"] /\ hold' = [hold EXCEPT ![x] = "held"]
          /\ UNCHANGED <<answer, cmds>>
      BY <1>5, <2>3, Zenon DEF I!Recheck
    <3>2. KeyTypes'
      BY <1>0, <2>1, <3>1, Zenon DEF KeyTypes
    <3>3. Waiting'
      BY <1>0, <2>1, <3>1, ZenonT(30) DEF KeyTypes, Waiting, Fresh
    <3>4. lock.by = x /\ lock.ttl + age[x] >= LockTtl /\ cmds[x] = <<>>
      BY <1>0, <2>1 DEF KeyTypes, Waiting, Fresh, I!TimesAssumption
    <3>5. Owns'
      BY <1>0, <2>1, <3>1, <3>4, Zenon DEF KeyTypes, Owns, Live
    <3> QED
      BY <1>0, <2>1, <3>2, <3>3, <3>5, Zenon DEF KeyInv
  <2> QED
    BY <2>2, <2>3, Zenon
<1>6. ASSUME NEW x \in Keyed, I!FailOpen(x) PROVE KeyInv'
  BY <1>0, <1>6 DEF I!FailOpen
<1>7. ASSUME NEW x \in Keyed, I!TimeOut(x) \/ I!Leave(x) PROVE KeyInv'
  <2>1. PICK a \in I!Answer \ {"none"} : I!Send(x, a)
    BY <1>7, Zenon DEF I!TimeOut, I!Leave, I!Answer
  <2>2. I!Release(x) /\ UNCHANGED <<cached, lock, keyed, age, handler, failing>> /\ answer[x] = "none"
    BY <1>7, Zenon DEF I!TimeOut, I!Leave
  <2>3. KeyTypes'
    BY <1>0, <2>1, <2>2, SendKeeps, ReleaseKeeps, Zenon DEF KeyTypes
  <2>4. OthersKeep(x)
    BY <1>0, <2>1, <2>2, SendKeeps, ReleaseKeeps, Zenon DEF OthersKeep
  <2>5. answer'[x] # "none" /\ Fresh(x)'
    BY <1>0, <2>1, <2>2, SendKeeps, ReleaseKeeps, Zenon DEF Waiting, Fresh
  <2>6. CASE keyed[x] # "recheck"
    BY <2>2, <2>3, <2>4, <2>5, <2>6, OneRequest, Zenon DEF Live
  <2>7. CASE keyed[x] = "recheck"
    <3>1. Waiting'
      BY <1>0, <2>2, <2>4, <2>5, ZenonT(30) DEF Waiting, Fresh, OthersKeep
    <3>2. Owns'
      BY <1>0, <2>2, <2>4, <2>5, ZenonT(30) DEF Owns, Live, OthersKeep
    <3> QED
      BY <1>0, <2>2, <2>3, <3>1, <3>2, Zenon DEF KeyInv
  <2> QED
    BY <2>6, <2>7, Zenon
<1>8. ASSUME NEW x \in Keyed, I!Command(x) PROVE KeyInv'
  <2>1. /\ cmds[x] # <<>> /\ cmds' = [cmds EXCEPT ![x] = Tail(@)]
        /\ UNCHANGED <<keyed, age, answer, handler, hold, failing>>
    BY <1>8, Zenon DEF I!Command
  <2>2. lock' = lock \/ (lock.by = x /\ lock' = I!Free)
    BY <1>0, <1>8, Zenon DEF I!Command
  <2>3. ~Live(x) /\ keyed[x] = "done"
    BY <1>0, <2>1, Zenon DEF Waiting, Fresh, Owns
  <2>4. KeyTypes'
    BY <1>0, <2>1, <2>2, SMTT(30) DEF KeyTypes, I!Free
  <2>5. Waiting' /\ Owns'
    BY <1>0, <2>1, <2>2, <2>3, SMTT(30) DEF KeyTypes, Waiting, Fresh, Owns, Live
  <2> QED
    BY <1>0, <2>1, <2>4, <2>5, Zenon DEF KeyInv
<1>9. ASSUME NEW x \in Keyed, I!Crash(x) PROVE KeyInv'
  <2>1. KeyTypes'
    BY <1>0, <1>9 DEF KeyTypes, I!Crash, I!Send, I!Answer
  <2>2. \A y \in Keyed : y # x => answer'[y] = answer[y]
    BY <1>0, <1>9, Zenon DEF KeyTypes, I!Crash, I!Send
  <2>3. /\ OthersKeep(x) /\ Fresh(x)' /\ keyed'[x] # "recheck" /\ ~Live(x)'
        /\ UNCHANGED <<lock, age, failing>>
    BY <1>0, <1>9, <2>2, Zenon DEF KeyTypes, Fresh, OthersKeep, Live, I!Crash
  <2> QED
    BY <2>1, <2>3, OneRequest
<1>10. ASSUME NEW x \in Keyed, NEW end \in {"ok", "error"}, I!Respond(x, end) PROVE KeyInv'
  <2>1. /\ handler[x] = "running" /\ handler' = [handler EXCEPT ![x] = end]
        /\ I!Send(x, end) /\ UNCHANGED <<cached, lock, keyed, age, failing>>
    BY <1>10, Zenon DEF I!Respond
  <2>2. /\ cmds' \in [Keyed -> Seq({"set", "release"})]
        /\ hold' \in [Keyed -> {"no", "held", "released"}]
        /\ \A y \in Keyed : y # x => cmds'[y] = cmds[y] /\ hold'[y] = hold[y]
    <3>1. CASE /\ cmds' = [cmds EXCEPT ![x] = <<"set", "release">>]
               /\ hold' = [hold EXCEPT ![x] = "released"]
      BY <1>0, <3>1 DEF KeyTypes
    <3>2. CASE I!Release(x)
      BY <1>0, <3>2, ReleaseKeeps, Zenon
    <3>3. CASE UNCHANGED <<cmds, hold>>
      BY <1>0, <3>3, Zenon DEF KeyTypes
    <3> QED
      BY <1>10, <3>1, <3>2, <3>3, Zenon DEF I!Respond
  <2>3. keyed[x] = "done"
    BY <1>0, <2>1 DEF Waiting, Fresh
  <2>4. end \in I!Answer \ {"none"}
    BY SMTT(30) DEF I!Answer
  <2>5. KeyTypes'
    BY <1>0, <2>1, <2>2, <2>4, SendKeeps, ZenonT(30) DEF KeyTypes
  <2>6. OthersKeep(x)
    BY <1>0, <2>1, <2>2, <2>4, SendKeeps DEF KeyTypes, OthersKeep
  <2>7. Fresh(x)' /\ keyed'[x] # "recheck" /\ ~Live(x)'
    BY <1>0, <2>1, <2>3, SMTT(90) DEF KeyTypes, Fresh, Live
  <2> QED
    BY <2>1, <2>5, <2>6, <2>7, OneRequest, Zenon
<1>11. CASE I!Tick
  <2>1. /\ \A x \in Keyed : I!Settled(x)
        /\ UNCHANGED <<cached, answer, handler, cmds, hold, failing>>
        /\ keyed' = [x \in Keyed |-> IF keyed[x] = "poll" THEN "get" ELSE keyed[x]]
        /\ age' = [x \in Keyed |->
                    IF keyed[x] = "new" \/ answer[x] # "none" THEN age[x] ELSE age[x] + 1]
    BY <1>11 DEF I!Tick
  <2>2. lock' \in [by : Keyed \cup {NoRequest}, ttl : Nat]
    <3>1. lock \in [by : Keyed \cup {NoRequest}, ttl : Nat]
      BY <1>0 DEF KeyTypes
    <3>2. lock' = I!Free \/ (lock.ttl > 1 /\ lock' = [lock EXCEPT !.ttl = @ - 1]) \/ lock' = lock
      BY <1>11, <3>1 DEF I!Tick
    <3> QED
      BY <3>1, <3>2 DEF I!Free
  <2>3. lock.ttl > 1 => lock'.by = lock.by /\ lock'.ttl = lock.ttl - 1
    BY <1>0, <1>11, SMTT(30) DEF KeyTypes, I!Tick
  <2>4. KeyTypes'
    BY <1>0, <2>1, <2>2, SMTT(30) DEF KeyTypes
  <2>5. Waiting'
    BY <1>0, <2>1, SMTT(30) DEF KeyTypes, Waiting, Fresh, I!Settled
  <2>6. ASSUME NEW x \in Keyed, Live(x)'
        PROVE  lock'.by = x /\ lock'.ttl + age'[x] >= LockTtl /\ cmds'[x] = <<>> /\ hold'[x] = "held"
    <3>1. Live(x) /\ keyed[x] # "new" /\ age[x] < RequestTimeout
      BY <1>0, <2>1, <2>6, Zenon DEF Live, Waiting, Fresh, I!Settled
    <3>2. lock.by = x /\ lock.ttl + age[x] >= LockTtl /\ cmds[x] = <<>> /\ hold[x] = "held"
      BY <1>0, <3>1, Zenon DEF Owns
    <3>3. lock.ttl \in Nat /\ age[x] \in Nat /\ RequestTimeout \in Nat /\ LockTtl \in Nat
      BY <1>0, Zenon DEF KeyTypes, I!TimesAssumption
    <3>4. lock.ttl > 1
      BY <3>1, <3>2, <3>3, SMTT(30) DEF I!LockOutlivesRequest
    <3>5. age'[x] = age[x] + 1
      BY <2>1, <3>1, Zenon DEF Live
    <3>6. lock'.ttl + age'[x] >= LockTtl
      BY <2>3, <3>2, <3>3, <3>4, <3>5, SMTT(30)
    <3> QED
      BY <2>1, <2>3, <3>2, <3>4, <3>6, ZenonT(30)
  <2> QED
    BY <1>0, <2>1, <2>4, <2>5, <2>6, Zenon DEF KeyInv, Owns
<1> QED
  BY <1>1, <1>2, <1>3, <1>4, <1>5, <1>6, <1>7, <1>8, <1>9, <1>10, <1>11, Zenon DEF I!Next

-----------------------------------------------------------------------------
\* A failure of Redis is possible in all of a behaviour or in none of it.
LEMMA FaultsStay == ASSUME [I!Next]_(I!vars) PROVE failing' = failing
  BY Zenon DEF I!vars, I!Next, I!Arrive, I!Get, I!Acquire, I!Poll, I!Recheck, I!FailOpen, I!TimeOut, I!Leave, I!Command,
         I!Crash, I!Respond, I!Tick

-----------------------------------------------------------------------------
\* Once a client got the handler's 2xx it is stored, or its store is the next
\* command of the request, which has the lock.
Kept == \A y \in Keyed : answer[y] = "ok" =>
    /\ handler[y] = "ok" /\ keyed[y] = "done"
    /\ cached \/ (lock.by = y /\ cmds[y] = <<"set", "release">>)

\* Every step keeps it, unless Redis fails or a process dies.
LEMMA NextKept ==
  ASSUME I!TimesAssumption, KeyInv, Kept, "crash" \notin failing, [I!Next]_(I!vars)
  PROVE  Kept'
<1>0. KeyTypes /\ "redis" \notin failing /\ Waiting /\ Owns
  BY Zenon DEF KeyInv
<1>1. CASE UNCHANGED I!vars
  BY <1>1, Zenon DEF I!vars, Kept
<1>2. ASSUME NEW x \in Keyed, I!Arrive(x) \/ I!Poll(x) \/ I!Get(x) PROVE Kept'
  BY <1>0, <1>2, SMTT(30) DEF KeyTypes, Kept, I!Arrive, I!Poll, I!Get, I!Send
<1>3. ASSUME NEW x \in Keyed, I!Acquire(x) PROVE Kept'
  <2>1. \A y \in Keyed : answer'[y] = "ok" => answer[y] = "ok" /\ y # x
    BY <1>0, <1>3, SMTT(30) DEF KeyTypes, Kept, I!Acquire, I!Send
  <2>2. lock' = lock \/ lock = I!Free
    BY <1>3, Zenon DEF I!Acquire, I!TryLock
  <2>3. \A y \in Keyed : I!Free.by # y
    BY Zenon DEF I!Free, I!TimesAssumption
  <2>4. UNCHANGED <<cached, handler, cmds>> /\ \A y \in Keyed : y # x => keyed'[y] = keyed[y]
    BY <1>0, <1>3, Zenon DEF KeyTypes, I!Acquire
  <2> QED
    BY <2>1, <2>2, <2>3, <2>4, ZenonT(30) DEF Kept
<1>4. ASSUME NEW x \in Keyed, I!Recheck(x) PROVE Kept'
  BY <1>0, <1>4, SMTT(30) DEF KeyTypes, Kept, I!Recheck, I!Send
<1>5. ASSUME NEW x \in Keyed, I!FailOpen(x) \/ I!Crash(x) PROVE Kept'
  BY <1>0, <1>5, SMTT(30) DEF I!FailOpen, I!Crash
<1>6. ASSUME NEW x \in Keyed, I!TimeOut(x) \/ I!Leave(x) PROVE Kept'
  <2>1. /\ answer[x] = "none" /\ answer'[x] # "ok" /\ I!Release(x)
        /\ UNCHANGED <<cached, lock, keyed, handler>>
        /\ \A y \in Keyed : y # x => answer'[y] = answer[y]
    BY <1>0, <1>6, SMTT(30) DEF KeyTypes, I!TimeOut, I!Leave, I!Send
  <2>2. \A y \in Keyed : y # x => cmds'[y] = cmds[y]
    BY <1>0, <2>1, ReleaseKeeps, ZenonT(30)
  <2> QED
    BY <2>1, <2>2, ZenonT(30) DEF Kept
<1>7. ASSUME NEW x \in Keyed, I!Command(x) PROVE Kept'
  <2>1. /\ cmds' = [cmds EXCEPT ![x] = Tail(@)]
        /\ \/ cmds[x][1] = "set" /\ cached' = TRUE /\ lock' = lock
           \/ cmds[x][1] = "release" /\ lock' = (IF lock.by = x THEN I!Free ELSE lock) /\ cached' = cached
        /\ UNCHANGED <<keyed, answer, handler>>
    BY <1>0, <1>7 DEF I!Command
  <2>2. \A y \in Keyed : y # x => cmds'[y] = cmds[y]
    BY <1>0, <2>1 DEF KeyTypes
  <2>3. cmds[x] = <<"set", "release">> => cmds[x][1] = "set"
    BY SMTT(30)
  <2> QED
    BY <2>1, <2>2, <2>3, SMTT(30) DEF Kept
<1>8. ASSUME NEW x \in Keyed, NEW end \in {"ok", "error"}, I!Respond(x, end) PROVE Kept'
  <2>1. /\ handler[x] = "running" /\ handler' = [handler EXCEPT ![x] = end]
        /\ I!Send(x, end) /\ UNCHANGED <<cached, lock, keyed>>
    BY <1>8 DEF I!Respond
  <2>2. keyed[x] = "done"
    BY <1>0, <2>1, Zenon DEF Waiting, Fresh
  <2>3. \A y \in Keyed : y # x => cmds'[y] = cmds[y] /\ answer'[y] = answer[y] /\ handler'[y] = handler[y]
    <3>1. \A y \in Keyed : y # x => cmds'[y] = cmds[y]
      <4>1. CASE cmds' = [cmds EXCEPT ![x] = <<"set", "release">>]
        BY <1>0, <4>1, Zenon DEF KeyTypes
      <4>2. CASE I!Release(x)
        BY <1>0, <4>2, ReleaseKeeps, Zenon
      <4>3. CASE UNCHANGED <<cmds, hold>>
        BY <4>3, Zenon
      <4> QED
        BY <1>8, <4>1, <4>2, <4>3, Zenon DEF I!Respond
    <3> QED
      BY <1>0, <2>1, <3>1, Zenon DEF KeyTypes, I!Send
  <2>4. ASSUME answer'[x] = "ok"
        PROVE  handler'[x] = "ok" /\ lock.by = x /\ cmds'[x] = <<"set", "release">>
    <3>1. answer[x] = "none" /\ end = "ok"
      BY <1>0, <2>1, <2>4, ZenonT(30) DEF KeyTypes, Kept, I!Send
    <3>2. Live(x) /\ lock.by = x /\ hold[x] = "held"
      BY <1>0, <2>1, <3>1, Zenon DEF Live, Owns
    <3>3. cmds' = [cmds EXCEPT ![x] = <<"set", "release">>]
      BY <1>8, <3>1, <3>2, Zenon DEF I!Respond
    <3> QED
      BY <1>0, <2>1, <3>1, <3>2, <3>3, Zenon DEF KeyTypes
  <2> QED
    BY <2>1, <2>2, <2>3, <2>4, ZenonT(30) DEF Kept
<1>9. CASE I!Tick
  <2>1. /\ \A x \in Keyed : cmds[x] = <<>>
        /\ UNCHANGED <<cached, answer, handler>>
        /\ \A x \in Keyed : keyed[x] = "done" => keyed'[x] = "done"
    BY <1>9 DEF I!Tick, I!Settled
  <2>2. <<>> # <<"set", "release">>
    BY Zenon
  <2> QED
    BY <2>1, <2>2 DEF Kept
<1> QED
  BY <1>1, <1>2, <1>3, <1>4, <1>5, <1>6, <1>7, <1>8, <1>9, Zenon DEF I!Next

\* A handler starts on the second look, by the request that has the lock.
LEMMA StartsUnderLock ==
  ASSUME KeyInv, [I!Next]_(I!vars), "crash" \notin failing,
         NEW x \in Keyed, handler[x] = "none", handler'[x] = "running"
  PROVE  keyed[x] = "recheck" /\ lock.by = x /\ ~cached
<1>0. KeyTypes /\ "redis" \notin failing /\ Waiting
  BY SMTT(30) DEF KeyInv
<1>1. \E y \in Keyed : I!Recheck(y)
  <2>1. ASSUME NEW y \in Keyed,
               I!Arrive(y) \/ I!Get(y) \/ I!Acquire(y) \/ I!Poll(y) \/ I!TimeOut(y) \/ I!Leave(y) \/ I!Command(y)
        PROVE  FALSE
    BY <2>1, ZenonT(30) DEF I!Arrive, I!Get, I!Acquire, I!Poll, I!TimeOut, I!Leave, I!Command
  <2>2. ASSUME NEW y \in Keyed, I!FailOpen(y) \/ I!Crash(y) PROVE FALSE
    BY <1>0, <2>2, ZenonT(30) DEF I!FailOpen, I!Crash
  <2>3. ASSUME NEW y \in Keyed, NEW end \in {"ok", "error"}, I!Respond(y, end) PROVE FALSE
    BY <1>0, <2>3 DEF KeyTypes, I!Respond
  <2>4. ~I!Tick /\ ~UNCHANGED I!vars
    BY Zenon DEF I!Tick, I!vars
  <2> QED
    BY <2>1, <2>2, <2>3, <2>4, ZenonT(30) DEF I!Next
<1>2. PICK y \in Keyed : I!Recheck(y)
  BY <1>1
<1>3. y = x /\ ~cached /\ keyed[x] = "recheck"
  BY <1>0, <1>2, ZenonT(30) DEF KeyTypes, I!Recheck
<1> QED
  BY <1>0, <1>3, Zenon DEF Waiting

\* While Redis answers, IdempotencyMiddleware lets no two requests that owe an
\* answer run the handler together: IDEMPOTENCY_LOCK_TTL_SECONDS is longer than
\* the request timeout, and only its holder releases the lock.
THEOREM OneHandlerPerKey ==
  ASSUME I!TimesAssumption, I!LockOutlivesRequest
  PROVE  FairSpec => []OneLiveHandler
<1> DEFINE Guarded == "redis" \notin failing => KeyInv
<1>1. Init => Guarded
  BY KeyInitInv, Zenon DEF Init
<1>2. Guarded /\ [Next]_vars => Guarded'
  BY KeyNextInv, FaultsStay, PartSteps, Zenon DEF KeyInv
<1>3. Guarded => OneLiveHandler
  BY DEF KeyInv, Owns, Live, OneLiveHandler, I!OneLiveHandler
<1> QED
  BY <1>1, <1>2, <1>3, PTL DEF FairSpec

\* After a client got the handler's 2xx no request starts the handler again, unless
\* Redis fails or a process dies: the response is stored before the lock goes, and
\* whoever gets the lock next looks a second time.
THEOREM SuccessStays ==
  ASSUME I!TimesAssumption, I!LockOutlivesRequest
  PROVE  FairSpec => SuccessIsFinal
<1> DEFINE Sound == failing \cap {"redis", "crash"} = {}
           Guarded == Sound => KeyInv /\ Kept
<1>1. Init => Guarded
  BY KeyInitInv, ZenonT(30) DEF Init, I!Init, Kept
<1>2. Guarded /\ [Next]_vars => Guarded'
  BY FaultsStay, KeyNextInv, NextKept, PartSteps, Zenon
<1>3. Guarded /\ [Next]_vars =>
        [Sound => \A x \in Keyed : handler[x] = "none" /\ handler'[x] = "running" =>
                    \A y \in Keyed : answer[y] # "ok"]_(I!vars)
  <2> SUFFICES ASSUME Guarded, [Next]_vars, Sound, NEW x \in Keyed, NEW y \in Keyed,
                      handler[x] = "none", handler'[x] = "running", answer[y] = "ok"
               PROVE  FALSE
    BY Zenon
  <2>1. keyed[x] = "recheck" /\ lock.by = x /\ ~cached
    BY StartsUnderLock, PartSteps
  <2> QED
    BY <2>1, Zenon DEF Kept
<1> QED
  BY <1>1, <1>2, <1>3, PTL DEF FairSpec, SuccessIsFinal, I!SuccessIsFinal
=============================================================================
