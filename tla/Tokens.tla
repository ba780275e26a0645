------------------------------- MODULE Tokens -------------------------------
(***************************************************************************)
(* The tokens of JwtService: access tokens that are verified and revoked,  *)
(* refresh tokens that are rotated.  A token dies by its own exp; a mark   *)
(* in Redis (jwt:revoked, jwt:rotated) with a TTL of its own bars it       *)
(* earlier.                                                                *)
(***************************************************************************)
EXTENDS Integers, Sequences

CONSTANTS Call,          \* calls of rotateRefresh in flight together
          MaxTokens,     \* bound: the tokens signed
          AccessLife,    \* one hour, in ticks
          RefreshLife    \* seven days, in ticks

LivesAssumption == AccessLife \in Nat /\ RefreshLife \in Nat

VARIABLES
    kind,      \* the tokens signed so far: access or refresh
    left,      \* ticks until a token's exp; 0 when it has passed
    mark,      \* the TTL of its mark; 0 for no mark
    family,    \* the TTL of the family's mark
    pc, tok,   \* where a rotateRefresh is, and with which token
    marked     \* history: tokens that were marked

vars == <<kind, left, mark, family, pc, tok, marked>>

Life == [access |-> AccessLife, refresh |-> RefreshLife]

TypeOK ==
    /\ kind \in Seq(DOMAIN Life) /\ Len(kind) <= MaxTokens
    /\ left \in [DOMAIN kind -> 0..RefreshLife]
    /\ mark \in [DOMAIN kind -> 0..RefreshLife]
    /\ family \in 0..RefreshLife
    /\ pc \in [Call -> {"idle", "mark", "issue", "reuse"}]
    /\ tok \in [Call -> 0..MaxTokens]
    /\ marked \subseteq DOMAIN kind

Init ==
    /\ kind = <<>> /\ left = <<>> /\ mark = <<>> /\ family = 0
    /\ pc = [c \in Call |-> "idle"] /\ tok = [c \in Call |-> 0]
    /\ marked = {}

Valid(t, k) == kind[t] = k /\ left[t] > 0

\* Tokens are signed, each with a jti of its own.
SignAll(ks) ==
    /\ Len(kind) + Len(ks) <= MaxTokens
    /\ kind' = kind \o ks
    /\ left' = left \o [i \in DOMAIN ks |-> Life[ks[i]]]
    /\ mark' = mark \o [i \in DOMAIN ks |-> 0]

\* sign, signWithRole and signRefresh, for a login.
Sign(k) == SignAll(<<k>>) /\ UNCHANGED <<family, pc, tok, marked>>

\* What is left to the token, at least a second.
Remaining_Access(t) == AccessLife
Remaining(t) == IF left[t] > 1 THEN left[t] ELSE 1

SetMark(t) ==
    /\ mark' = [mark EXCEPT ![t] = Remaining(t)]
    /\ marked' = marked \cup {t}

\* revoke decodes without verifying.  It sets the key verifyAsync asks for; for
\* a refresh token nothing reads that key, rotateRefresh looks for its own.
Revoke(t) ==
    /\ kind[t] = "access"
    /\ SetMark(t)
    /\ UNCHANGED <<kind, left, family, pc, tok>>

\* rotateRefresh: the token is verified and the mark asked for ...
Rotate(c, t) ==
    /\ pc[c] = "idle" /\ Valid(t, "refresh")
    /\ tok' = [tok EXCEPT ![c] = t]
    /\ pc' = [pc EXCEPT ![c] = IF mark[t] > 0 THEN "reuse" ELSE "mark"]
    /\ UNCHANGED <<kind, left, mark, family, marked>>

\* ... a reused token invalidates its family ...
InvalidateFamily(c) ==
    /\ pc[c] = "reuse"
    /\ family' = RefreshLife
    /\ pc' = [pc EXCEPT ![c] = "idle"]
    /\ UNCHANGED <<kind, left, mark, tok, marked>>

\* ... another one is marked, and two new tokens are signed.
Mark(c) ==
    /\ pc[c] = "mark"
    /\ SetMark(tok[c])
    /\ pc' = [pc EXCEPT ![c] = "issue"]
    /\ UNCHANGED <<kind, left, family, tok>>

Issue(c) ==
    /\ pc[c] = "issue"
    /\ SignAll(<<"access", "refresh">>)
    /\ pc' = [pc EXCEPT ![c] = "idle"]
    /\ UNCHANGED <<family, tok, marked>>

Down(n) == IF n > 0 THEN n - 1 ELSE 0

\* Redis answers within a tick.
Tick ==
    /\ \A c \in Call : pc[c] \in {"idle", "issue"}
    /\ left' = [t \in DOMAIN kind |-> Down(left[t])]
    /\ mark' = [t \in DOMAIN kind |-> Down(mark[t])]
    /\ family' = Down(family)
    /\ UNCHANGED <<kind, pc, tok, marked>>

Next ==
    \/ \E k \in {"access", "refresh"} : Sign(k)
    \/ \E t \in DOMAIN kind : Revoke(t) \/ \E c \in Call : Rotate(c, t)
    \/ \E c \in Call : InvalidateFamily(c) \/ Mark(c) \/ Issue(c)
    \/ Tick

Spec == Init /\ [][Next]_vars

-----------------------------------------------------------------------------

\* verifyAsync lets an access token through, rotateRefresh takes a refresh token
\* for one that was not rotated.
Accepted(t) == left[t] > 0 /\ mark[t] = 0

\* A token once marked, revoked or rotated, is not accepted again for as long
\* as its exp lets it verify: the mark outlives the token.  (Two calls that ask
\* for the mark before either sets it both rotate; no later call does.)
MarkOutlivesToken == \A t \in marked : ~Accepted(t)

=============================================================================
