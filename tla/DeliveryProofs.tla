--------------------------- MODULE DeliveryProofs ---------------------------
(***************************************************************************)
(* Theorems about what the service sends out: the live status stream       *)
(* (StatusStream), the webhooks and their drain (Webhooks) and the         *)
(* streamed response (StreamingInterceptor), for any number of replicas,   *)
(* streams, changes, registrations and attempts; and, last, about the lock *)
(* of the background jobs (JobLock), for any number of runs and any TTL of *)
(* at least three ticks.                                                   *)
(***************************************************************************)
EXTENDS StatusStream, Webhooks, StreamingInterceptor, JobLock,
        SequenceTheorems, TLAPS

Event == [origin: Replicas, change: Nat]

-----------------------------------------------------------------------------
(* Runs of events                                                          *)

\* No event is a run of no emissions.
LEMMA EmptyRun ==
  ASSUME NEW r, NEW em, NEW i \in Nat
  PROVE  IsRun(<<>>, r, em, i, i)
<1>1. From(<<>>, r) = {}
  BY DEF From
<1>2. (i + 1)..i = {}
  OBVIOUS
<1> QED BY <1>1, <1>2 DEF IsRun

\* The next emission prolongs a run.
LEMMA RunGrows ==
  ASSUME NEW ev \in Seq(Event), NEW e \in Event, NEW em,
         NEW i \in Nat, NEW j \in Nat, i <= j,
         IsRun(ev, e.origin, em, i, j), e.change = em[j + 1]
  PROVE  IsRun(Append(ev, e), e.origin, em, i, j + 1)
<1> DEFINE new == Append(ev, e)
           n == Len(ev)
           r == e.origin
<1>1. /\ n \in Nat /\ Len(new) = n + 1 /\ new[n + 1] = e
      /\ \A k \in 1..n : new[k] = ev[k]
  OBVIOUS
<1>2. From(new, r) = From(ev, r) \cup {n + 1}
  BY <1>1 DEF From
<1>3. From(ev, r) \subseteq 1..n
  BY DEF From
<1>4. (i + 1)..(j + 1) = ((i + 1)..j) \cup {j + 1}
  OBVIOUS
<1>5. {ev[k].change : k \in From(ev, r)} = {em[p] : p \in (i + 1)..j}
  BY Zenon DEF IsRun
<1> HIDE DEF new, n, r
<1>6. {new[k].change : k \in From(new, r)} = {ev[k].change : k \in From(ev, r)} \cup {em[j + 1]}
  BY <1>1, <1>2, <1>3, Zenon
<1>7. {em[p] : p \in (i + 1)..(j + 1)} = {em[p] : p \in (i + 1)..j} \cup {em[j + 1]}
  BY <1>4, Zenon
<1>8. ASSUME NEW k \in From(new, r), NEW l \in From(new, r), k < l
      PROVE  \E p, q \in (i + 1)..(j + 1) :
               p < q /\ em[p] = new[k].change /\ em[q] = new[l].change
  <2>1. k \in From(ev, r)
    BY <1>1, <1>2, <1>3, <1>8
  <2>2. CASE l = n + 1
    <3>1. PICK p \in (i + 1)..j : em[p] = ev[k].change
      BY <1>5, <2>1, Zenon
    <3>2. p \in (i + 1)..(j + 1) /\ j + 1 \in (i + 1)..(j + 1) /\ p < j + 1
      OBVIOUS
    <3>3. em[p] = new[k].change /\ em[j + 1] = new[l].change
      BY <1>1, <1>3, <2>1, <2>2, <3>1
    <3> QED BY <3>2, <3>3
  <2>3. CASE l # n + 1
    <3>1. l \in From(ev, r)
      BY <1>2, <2>3
    <3>2. PICK p, q \in (i + 1)..j :
             p < q /\ em[p] = ev[k].change /\ em[q] = ev[l].change
      BY <1>8, <2>1, <3>1, Zenon DEF IsRun, r
    <3>3. p \in (i + 1)..(j + 1) /\ q \in (i + 1)..(j + 1)
      BY <1>4
    <3>4. new[k] = ev[k] /\ new[l] = ev[l]
      BY <1>1, <1>3, <2>1, <3>1
    <3> QED BY <3>2, <3>3, <3>4, Zenon
  <2> QED BY <2>2, <2>3, Zenon
<1>9. {new[k].change : k \in From(new, r)} = {em[p] : p \in (i + 1)..(j + 1)}
  BY <1>5, <1>6, <1>7, Zenon
<1> QED BY <1>8, <1>9, Zenon DEF IsRun, new, r

\* An event of another replica leaves a run as it is.
LEMMA RunBesideOther ==
  ASSUME NEW ev \in Seq(Event), NEW e \in Event, NEW em, NEW r, e.origin # r,
         NEW i \in Nat, NEW j \in Nat, IsRun(ev, r, em, i, j)
  PROVE  IsRun(Append(ev, e), r, em, i, j)
<1> DEFINE new == Append(ev, e)
<1>1. /\ Len(ev) \in Nat /\ Len(new) = Len(ev) + 1 /\ new[Len(ev) + 1] = e
      /\ \A k \in 1..Len(ev) : new[k] = ev[k]
  OBVIOUS
<1> HIDE DEF new
<1>2. From(new, r) = From(ev, r) /\ From(ev, r) \subseteq 1..Len(ev)
  BY <1>1 DEF From
<1>3. \A k \in From(ev, r) : new[k] = ev[k]
  BY <1>1, <1>2, Zenon
<1>4. {new[k].change : k \in From(new, r)} = {ev[k].change : k \in From(ev, r)}
  BY <1>2, <1>3, Zenon
<1>5. ASSUME NEW k \in From(new, r), NEW l \in From(new, r), k < l
      PROVE  \E p, q \in (i + 1)..j : p < q /\ em[p] = new[k].change /\ em[q] = new[l].change
  <2>1. k \in From(ev, r) /\ l \in From(ev, r) /\ new[k] = ev[k] /\ new[l] = ev[l]
    BY <1>2, <1>3, <1>5, Zenon
  <2> QED BY <1>5, <2>1 DEF IsRun
<1>6. {new[k].change : k \in From(new, r)} = {em[p] : p \in (i + 1)..j}
  BY <1>4, Zenon DEF IsRun
<1>7. IsRun(new, r, em, i, j)
  BY <1>5, <1>6, Zenon DEF IsRun
<1> QED BY <1>7 DEF new

\* A run does not depend on what was emitted after it.
LEMMA RunOfLonger ==
  ASSUME NEW ev, NEW r, NEW em, NEW more, NEW i \in Nat, NEW j \in Nat,
         \A p \in (i + 1)..j : more[p] = em[p],
         IsRun(ev, r, em, i, j)
  PROVE  IsRun(ev, r, more, i, j)
<1>1. {more[p] : p \in (i + 1)..j} = {em[p] : p \in (i + 1)..j}
  BY Zenon
<1>2. ASSUME NEW k \in From(ev, r), NEW l \in From(ev, r), k < l
      PROVE  \E p, q \in (i + 1)..j :
               p < q /\ more[p] = ev[k].change /\ more[q] = ev[l].change
  <2>1. PICK p, q \in (i + 1)..j : p < q /\ em[p] = ev[k].change /\ em[q] = ev[l].change
    BY <1>2, Zenon DEF IsRun
  <2> QED BY <2>1, Zenon
<1>3. {ev[k].change : k \in From(ev, r)} = {more[p] : p \in (i + 1)..j}
  BY <1>1, Zenon DEF IsRun
<1> QED BY <1>2, <1>3, Zenon DEF IsRun

\* The head of a sequence, when it is of replica r, is the first emission of r's
\* run; the tail has the rest of it.
LEMMA RunShrinks ==
  ASSUME NEW ev \in Seq(Event), ev # <<>>, NEW em,
         NEW i \in Nat, NEW j \in Nat, NEW n \in Nat, j <= n,
         \A p, q \in 1..n : em[p] = em[q] => p = q,
         IsRun(ev, Head(ev).origin, em, i, j)
  PROVE  /\ i + 1 \in 1..j /\ Head(ev).change = em[i + 1]
         /\ IsRun(Tail(ev), Head(ev).origin, em, i + 1, j)
<1> DEFINE r == Head(ev).origin
           rest == Tail(ev)
<1>1. /\ Len(ev) \in Nat /\ Len(ev) >= 1 /\ Head(ev) = ev[1]
      /\ Len(rest) = Len(ev) - 1
      /\ \A k \in 1..Len(rest) : rest[k] = ev[k + 1]
  OBVIOUS
<1>2. ev[1].origin = r /\ Head(ev).origin = r
  BY <1>1
<1> HIDE DEF r, rest
<1>3. 1 \in From(ev, r) /\ From(ev, r) \subseteq 1..Len(ev)
  BY <1>1, <1>2 DEF From
<1>4. \A k \in Nat : k \in From(rest, r) <=> k + 1 \in From(ev, r) /\ k >= 1
  BY <1>1 DEF From
<1>5. {ev[k].change : k \in From(ev, r)} = {em[p] : p \in (i + 1)..j}
  BY <1>2, Zenon DEF IsRun
<1>6. \A k, l \in From(ev, r) : k < l =>
        \E p, q \in (i + 1)..j : p < q /\ em[p] = ev[k].change /\ em[q] = ev[l].change
  BY <1>2 DEF IsRun
<1>7. (i + 1)..j \subseteq 1..n
  OBVIOUS
<1>8. PICK f \in (i + 1)..j : em[f] = ev[1].change
  <2>1. ev[1].change \in {ev[k].change : k \in From(ev, r)}
    BY <1>3, Zenon
  <2>2. ev[1].change \in {em[p] : p \in (i + 1)..j}
    BY <1>5, <2>1, Zenon
  <2> QED BY <2>2, Zenon
<1>9. i + 1 \in (i + 1)..j /\ i + 1 \in 1..j
  BY <1>8
<1>10. f = i + 1
  <2>1. PICK k \in From(ev, r) : ev[k].change = em[i + 1]
    BY <1>5, <1>9, Zenon
  <2>2. CASE k = 1
    BY <1>7, <1>8, <1>9, <2>1, <2>2, Zenon
  <2>3. CASE k # 1
    <3>1. 1 < k
      BY <1>1, <1>3, <2>3
    <3>2. PICK p, q \in (i + 1)..j :
             p < q /\ em[p] = ev[1].change /\ em[q] = ev[k].change
      BY <1>3, <1>6, <3>1, Zenon
    <3>3. q = i + 1
      BY <1>7, <1>9, <2>1, <3>2, Zenon
    <3> QED BY <3>2, <3>3
  <2> QED BY <2>2, <2>3, Zenon
<1>11. \A k \in From(rest, r) : k \in Nat /\ k + 1 \in From(ev, r) /\ 1 < k + 1 /\ rest[k] = ev[k + 1]
  BY <1>1, <1>4 DEF From
\* What comes after the head was emitted after it.
<1>12. ASSUME NEW k \in From(ev, r), 1 < k, NEW p \in (i + 1)..j, em[p] = ev[k].change
       PROVE  p \in ((i + 1) + 1)..j
  <2>1. PICK a, b \in (i + 1)..j : a < b /\ em[a] = ev[1].change /\ em[b] = ev[k].change
    BY <1>3, <1>6, <1>12, Zenon
  <2>2. b = p
    BY <1>7, <1>12, <2>1, Zenon
  <2> QED BY <2>1, <2>2
<1>13. ASSUME NEW k \in From(rest, r)
       PROVE  rest[k].change \in {em[p] : p \in ((i + 1) + 1)..j}
  <2>1. PICK p \in (i + 1)..j : em[p] = ev[k + 1].change
    <3>1. ev[k + 1].change \in {ev[l].change : l \in From(ev, r)}
      BY <1>11, <1>13, Zenon
    <3>2. ev[k + 1].change \in {em[p] : p \in (i + 1)..j}
      BY <1>5, <3>1, Zenon
    <3> QED BY <3>2, Zenon
  <2> QED BY <1>11, <1>12, <1>13, <2>1, Zenon
<1>14. ASSUME NEW p \in ((i + 1) + 1)..j
       PROVE  em[p] \in {rest[k].change : k \in From(rest, r)}
  <2>1. p \in (i + 1)..j /\ p # i + 1
    OBVIOUS
  <2>2. PICK k \in From(ev, r) : ev[k].change = em[p]
    BY <1>5, <2>1, Zenon
  <2>3. k # 1
    BY <1>7, <1>8, <1>10, <2>1, <2>2, Zenon
  <2>4. k - 1 \in Nat /\ (k - 1) + 1 = k /\ k - 1 >= 1
    BY <1>1, <1>3, <2>3
  <2>5. k - 1 \in From(rest, r)
    BY <1>4, <2>4, Zenon
  <2>6. rest[k - 1] = ev[k]
    BY <1>11, <2>4, <2>5
  <2> QED BY <2>2, <2>5, <2>6, Zenon
<1>15. ASSUME NEW k \in From(rest, r), NEW l \in From(rest, r), k < l
       PROVE  \E p, q \in ((i + 1) + 1)..j :
                p < q /\ em[p] = rest[k].change /\ em[q] = rest[l].change
  <2>1. k + 1 < l + 1
    BY <1>11, <1>15
  <2>2. PICK p, q \in (i + 1)..j :
           p < q /\ em[p] = ev[k + 1].change /\ em[q] = ev[l + 1].change
    BY <1>6, <1>11, <1>15, <2>1, ZenonT(60)
  <2>3. p \in ((i + 1) + 1)..j /\ q \in ((i + 1) + 1)..j
    BY <1>11, <1>12, <1>15, <2>2, Zenon
  <2> QED BY <1>11, <1>15, <2>2, <2>3, Zenon
<1>16. {rest[k].change : k \in From(rest, r)} = {em[p] : p \in ((i + 1) + 1)..j}
  BY <1>13, <1>14, Zenon
<1>17. IsRun(rest, r, em, i + 1, j)
  BY <1>15, <1>16, Zenon DEF IsRun
<1>18. Head(ev).change = em[i + 1]
  BY <1>1, <1>8, <1>10
<1> QED BY <1>9, <1>17, <1>18, Zenon DEF r, rest

\* The head of a sequence is no part of the run of another replica.
LEMMA RunBehindOther ==
  ASSUME NEW ev \in Seq(Event), ev # <<>>, NEW em, NEW r, Head(ev).origin # r,
         NEW i \in Nat, NEW j \in Nat, IsRun(ev, r, em, i, j)
  PROVE  IsRun(Tail(ev), r, em, i, j)
<1> DEFINE rest == Tail(ev)
<1>1. /\ Len(ev) \in Nat /\ Len(ev) >= 1 /\ Head(ev) = ev[1]
      /\ Len(rest) = Len(ev) - 1
      /\ \A k \in 1..Len(rest) : rest[k] = ev[k + 1]
  OBVIOUS
<1> HIDE DEF rest
<1>2. \A k \in From(rest, r) : k \in Nat /\ k + 1 \in From(ev, r) /\ rest[k] = ev[k + 1]
  BY <1>1 DEF From
<1>3. \A k \in From(ev, r) : k - 1 \in From(rest, r) /\ rest[k - 1] = ev[k]
  BY <1>1 DEF From
<1>4. {rest[k].change : k \in From(rest, r)} = {ev[k].change : k \in From(ev, r)}
  BY <1>2, <1>3
<1>5. {rest[k].change : k \in From(rest, r)} = {em[p] : p \in (i + 1)..j}
  BY <1>4, Zenon DEF IsRun
<1>6. ASSUME NEW k \in From(rest, r), NEW l \in From(rest, r), k < l
      PROVE  \E p, q \in (i + 1)..j :
               p < q /\ em[p] = rest[k].change /\ em[q] = rest[l].change
  <2>1. k + 1 < l + 1
    BY <1>2, <1>6
  <2> QED BY <1>2, <1>6, <2>1 DEF IsRun
<1>7. IsRun(rest, r, em, i, j)
  BY <1>5, <1>6, Zenon DEF IsRun
<1> QED BY <1>7 DEF rest

-----------------------------------------------------------------------------
(* The status stream.  The strengthening follows one replica's changes     *)
(* from its emitter to the client: what is queued for Redis, what is on    *)
(* Home's connection and what a stream got are adjacent runs of the        *)
(* emissions.                                                              *)

StreamTypes ==
  /\ db \in Nat
  /\ writes \in [Replicas -> SUBSET Nat]
  /\ emitted \in [Replicas -> Seq(Nat)]
  /\ commands \in [Replicas -> Seq(Nat)]
  /\ inbox \in Seq(Event)
  /\ phase \in [Streams -> {"none", "read", "open", "closed"}]
  /\ isAuthorized \in [Streams -> {"null", "true", "false"}]
  /\ pendingEvents \in [Streams -> Seq(Event)]
  /\ sent \in [Streams -> Seq(Event)]

\* A replica emits a change once: it is a write still to be emitted, or emitted.
EmittedOnce ==
  \A r \in Replicas:
    /\ \A c \in writes[r]: c <= db
    /\ \A p \in 1..Len(emitted[r]): emitted[r][p] <= db /\ emitted[r][p] \notin writes[r]
    /\ \A p, q \in 1..Len(emitted[r]): emitted[r][p] = emitted[r][q] => p = q

\* Events are buffered only while the owner is looked up, and sent only when it
\* is known; a listener is refused only when the database fails.
Listening ==
  \A s \in Streams:
    /\ phase[s] # "open" => sent[s] = <<>> /\ pendingEvents[s] = <<>>
    /\ isAuthorized[s] = "null" => sent[s] = <<>>
    /\ isAuthorized[s] # "null" => pendingEvents[s] = <<>>
    /\ isAuthorized[s] = "false" => faults # {}

\* How many of its emissions replica r has published.
Published(r) == Len(emitted[r]) - Len(commands[r])

\* The queue holds the emissions after the first m.
Queued(queue, em, m) ==
  /\ m = Len(em) - Len(queue) /\ m <= Len(em)
  /\ \A p \in 1..Len(queue): queue[p] = em[m + p]

\* Up to which emission of r the streams are: Home's are heard at once, the others
\* when Home takes them from its connection, where it has taken h of them.
HeardOf(r, h) == IF r = Home THEN Len(emitted[r]) ELSE h

Follows(s, r, h) == \E i \in 0..HeardOf(r, h): IsRun(Got(s), r, emitted[r], i, HeardOf(r, h))

Adjacent(r, h) ==
  /\ h <= Published(r) /\ Queued(commands[r], emitted[r], Published(r))
  /\ IsRun(inbox, r, emitted[r], h, Published(r))
  /\ \A s \in Streams: Follows(s, r, h)

InTransit == faults = {} => \A r \in Replicas: \E h \in Nat: Adjacent(r, h)

StreamInv == StreamTypes /\ EmittedOnce /\ Listening /\ InTransit

\* A change heard by the listeners is appended to what every open stream got,
\* while the database answers.
LEMMA HeardIsGot ==
  ASSUME StreamTypes, Listening, faults = {}, NEW e \in Event, Heard(e),
         NEW s \in Streams
  PROVE  Got(s)' = IF phase[s] = "open" THEN Append(Got(s), e) ELSE <<>>
<1>1. /\ sent[s] \in Seq(Event) /\ pendingEvents[s] \in Seq(Event)
      /\ isAuthorized[s] \in {"null", "true"}
      /\ phase[s] # "open" => sent[s] = <<>> /\ pendingEvents[s] = <<>>
      /\ isAuthorized[s] = "null" => sent[s] = <<>>
      /\ isAuthorized[s] # "null" => pendingEvents[s] = <<>>
  BY DEF StreamTypes, Listening
<1>2. /\ sent'[s] = IF phase[s] = "open" /\ isAuthorized[s] = "true"
                    THEN Append(sent[s], e) ELSE sent[s]
      /\ pendingEvents'[s] = IF phase[s] = "open" /\ isAuthorized[s] = "null"
                             THEN Append(pendingEvents[s], e) ELSE pendingEvents[s]
  BY Zenon DEF Heard
<1>3. /\ \A q \in Seq(Event) : q \o <<>> = q /\ <<>> \o q = q
      /\ Append(sent[s], e) \in Seq(Event) /\ Append(pendingEvents[s], e) \in Seq(Event)
      /\ <<>> \in Seq(Event)
  BY <1>1
<1>4. CASE phase[s] # "open"
  <2>1. sent'[s] = <<>> /\ pendingEvents'[s] = <<>>
    BY <1>1, <1>2, <1>4, Zenon
  <2> QED BY <1>3, <1>4, <2>1, Zenon DEF Got
<1>5. CASE phase[s] = "open" /\ isAuthorized[s] = "null"
  <2>1. sent'[s] = <<>> /\ pendingEvents'[s] = Append(pendingEvents[s], e) /\ sent[s] = <<>>
    BY <1>1, <1>2, <1>5, Zenon
  <2> QED BY <1>1, <1>3, <1>5, <2>1, Zenon DEF Got
<1>6. CASE phase[s] = "open" /\ isAuthorized[s] # "null"
  <2>1. isAuthorized[s] = "true"
    BY <1>1, <1>6, Zenon
  <2>2. /\ sent'[s] = Append(sent[s], e) /\ pendingEvents'[s] = <<>>
        /\ pendingEvents[s] = <<>>
    BY <1>1, <1>2, <1>6, <2>1, Zenon
  <2> QED BY <1>1, <1>3, <1>6, <2>2, Zenon DEF Got
<1> QED BY <1>4, <1>5, <1>6, Zenon

\* A stream that got nothing new of r is where it was, also when another replica's
\* change was heard.
LEMMA StillFollows ==
  ASSUME StreamTypes, Listening, NEW s \in Streams, NEW r \in Replicas, NEW h \in Nat,
         emitted'[r] = emitted[r], Follows(s, r, h),
         \/ Got(s)' = Got(s)
         \/ \E e \in Event : Got(s)' = Append(Got(s), e) /\ e.origin # r
  PROVE  Follows(s, r, h)'
<1>1. PICK i \in 0..HeardOf(r, h) : IsRun(Got(s), r, emitted[r], i, HeardOf(r, h))
  BY DEF Follows
<1>2. HeardOf(r, h) \in Nat /\ i \in Nat /\ HeardOf(r, h)' = HeardOf(r, h)
  BY DEF HeardOf, StreamTypes
<1>3. Got(s) \in Seq(Event)
  BY DEF Got, StreamTypes
<1>4. IsRun(Got(s)', r, emitted[r], i, HeardOf(r, h))
  BY <1>1, <1>2, <1>3, RunBesideOther, Zenon
<1>5. i \in 0..HeardOf(r, h)' /\ IsRun(Got(s)', r, emitted'[r], i, HeardOf(r, h)')
  BY <1>1, <1>2, <1>4, Zenon
<1> QED BY <1>5, Zenon DEF Follows

\* The same of the whole way from r to the streams.
LEMMA StillAdjacent ==
  ASSUME NEW r, NEW h, Adjacent(r, h),
         emitted'[r] = emitted[r], commands'[r] = commands[r],
         IsRun(inbox', r, emitted[r], h, Published(r)),
         \A s \in Streams : Follows(s, r, h)'
  PROVE  Adjacent(r, h)'
<1>1. Published(r)' = Published(r)
  BY Zenon DEF Published
<1> QED BY <1>1, Zenon DEF Adjacent

\* A change appended to the emissions and to the queue of those to publish.
LEMMA QueueGrows ==
  ASSUME NEW em \in Seq(Nat), NEW queue \in Seq(Nat), NEW c \in Nat,
         NEW m \in Nat, Queued(queue, em, m)
  PROVE  Queued(Append(queue, c), Append(em, c), m)
<1>1. /\ Len(em) \in Nat /\ Len(queue) \in Nat
      /\ Len(Append(em, c)) = Len(em) + 1 /\ Append(em, c)[Len(em) + 1] = c
      /\ \A p \in 1..Len(em) : Append(em, c)[p] = em[p]
      /\ Len(Append(queue, c)) = Len(queue) + 1 /\ Append(queue, c)[Len(queue) + 1] = c
      /\ \A p \in 1..Len(queue) : Append(queue, c)[p] = queue[p]
  OBVIOUS
<1>2. ASSUME NEW p \in 1..(Len(queue) + 1)
      PROVE  Append(queue, c)[p] = Append(em, c)[m + p]
  <2>1. CASE p = Len(queue) + 1
    <3>1. m + p = Len(em) + 1
      BY <1>1, <2>1 DEF Queued
    <3> QED BY <1>1, <2>1, <3>1, Zenon
  <2>2. CASE p # Len(queue) + 1
    <3>1. p \in 1..Len(queue) /\ m + p \in 1..Len(em)
      BY <1>1, <2>2 DEF Queued
    <3> QED BY <1>1, <3>1, Zenon DEF Queued
  <2> QED BY <2>1, <2>2, Zenon
<1>3. m = (Len(em) + 1) - (Len(queue) + 1) /\ m <= Len(em) + 1
  BY <1>1 DEF Queued
<1> QED BY <1>1, <1>2, <1>3, Zenon DEF Queued

\* The head of the queue is the first emission not published.
LEMMA QueueShrinks ==
  ASSUME NEW em \in Seq(Nat), NEW queue \in Seq(Nat), queue # <<>>,
         NEW m \in Nat, Queued(queue, em, m)
  PROVE  Queued(Tail(queue), em, m + 1) /\ Head(queue) = em[m + 1]
<1>1. /\ Len(em) \in Nat /\ Len(queue) \in Nat /\ Len(queue) >= 1
      /\ Head(queue) = queue[1] /\ Len(Tail(queue)) = Len(queue) - 1
      /\ \A p \in 1..(Len(queue) - 1) : Tail(queue)[p] = queue[p + 1]
  OBVIOUS
<1>2. 1 \in 1..Len(queue) /\ m + 1 <= Len(em) /\ m + 1 = Len(em) - (Len(queue) - 1)
  BY <1>1 DEF Queued
<1>3. ASSUME NEW p \in 1..(Len(queue) - 1)
      PROVE  Tail(queue)[p] = em[(m + 1) + p]
  <2>1. p + 1 \in 1..Len(queue) /\ (m + 1) + p = m + (p + 1)
    BY <1>1
  <2> QED BY <1>1, <2>1, Zenon DEF Queued
<1> QED BY <1>1, <1>2, <1>3, Zenon DEF Queued

\* The places of r's changes, with their types.
LEMMA AdjacentFacts ==
  ASSUME StreamTypes, NEW r \in Replicas, NEW h \in Nat, Adjacent(r, h)
  PROVE  /\ emitted[r] \in Seq(Nat) /\ commands[r] \in Seq(Nat)
         /\ Published(r) \in Nat /\ Len(emitted[r]) \in Nat
         /\ h <= Published(r) /\ Published(r) <= Len(emitted[r]) /\ h <= Len(emitted[r])
         /\ Queued(commands[r], emitted[r], Published(r))
         /\ IsRun(inbox, r, emitted[r], h, Published(r))
         /\ \A s \in Streams : Follows(s, r, h)
<1>1. emitted[r] \in Seq(Nat) /\ commands[r] \in Seq(Nat)
  BY DEF StreamTypes
<1>2. /\ h <= Published(r) /\ Published(r) <= Len(emitted[r])
      /\ Queued(commands[r], emitted[r], Published(r))
      /\ IsRun(inbox, r, emitted[r], h, Published(r))
      /\ \A s \in Streams : Follows(s, r, h)
  BY Zenon DEF Adjacent, Queued
<1>3. Len(emitted[r]) \in Nat /\ Len(commands[r]) \in Nat
  BY <1>1
<1>4. Published(r) = Len(emitted[r]) - Len(commands[r])
  BY DEF Published
<1>5. \A a, b, m \in Int : m = a - b /\ h <= m /\ m <= a => m \in Nat /\ h <= a
  OBVIOUS
<1>6. Published(r) \in Int /\ Len(emitted[r]) \in Int /\ Len(commands[r]) \in Int
  BY <1>3, <1>4
<1>7. Published(r) \in Nat /\ h <= Len(emitted[r])
  BY <1>2, <1>4, <1>5, <1>6, Zenon
<1> QED BY <1>1, <1>2, <1>3, <1>4, <1>7, Zenon

\* emitPolicyStatusChange: the replica's own streams and its queue get the new
\* emission.
LEMMA EmitInTransit ==
  ASSUME StreamInv, faults = {}, NEW o \in Replicas, EmitPolicyStatusChange(o),
         NEW r \in Replicas, NEW h \in Nat, Adjacent(r, h)
  PROVE  Adjacent(r, h)'
<1> DEFINE em == emitted[r]
           m == Published(r)
           L == Len(em)
<1>1. PICK c \in writes[o] :
         /\ emitted' = [emitted EXCEPT ![o] = Append(@, c)]
         /\ commands' = [commands EXCEPT ![o] = Append(@, c)]
         /\ IF o = Home THEN Heard([origin |-> o, change |-> c]) ELSE UNCHANGED listenerVars
         /\ inbox' = inbox
  BY Zenon DEF EmitPolicyStatusChange
<1> DEFINE e == [origin |-> o, change |-> c]
<1>2. e \in Event /\ e.origin = o /\ e.change = c /\ c \in Nat
  BY DEF StreamInv, StreamTypes, Event
<1> HIDE DEF e
<1>3. StreamTypes /\ Listening /\ \A s \in Streams : Got(s) \in Seq(Event)
  BY DEF StreamInv, StreamTypes, Got
<1>4. /\ em \in Seq(Nat) /\ commands[r] \in Seq(Nat)
      /\ m \in Nat /\ h <= m /\ m <= L /\ h <= L /\ L \in Nat
      /\ Queued(commands[r], em, m) /\ IsRun(inbox, r, em, h, m)
      /\ \A s \in Streams : Follows(s, r, h)
  BY <1>3, AdjacentFacts, Zenon
<1>5. ASSUME NEW s \in Streams
      PROVE  IF o = Home THEN Got(s)' = IF phase[s] = "open" THEN Append(Got(s), e) ELSE <<>>
             ELSE Got(s)' = Got(s)
  <2>1. CASE o = Home
    <3>1. Heard(e)
      BY <1>1, <2>1, Zenon DEF e
    <3> QED BY <1>2, <1>3, <2>1, <3>1, HeardIsGot, Zenon
  <2>2. CASE o # Home
    BY <1>1, <2>2, Zenon DEF Got, listenerVars
  <2> QED BY <2>1, <2>2, Zenon
<1>6. \A s \in Streams : phase[s] # "open" => Got(s) = <<>>
  BY <1>3 DEF Listening, Got
<1>7. CASE r # o
  <2>1. emitted'[r] = emitted[r] /\ commands'[r] = commands[r]
    BY <1>1, <1>7 DEF StreamInv, StreamTypes
  <2>2. ASSUME NEW s \in Streams
        PROVE  \/ Got(s)' = Got(s)
               \/ \E x \in Event : Got(s)' = Append(Got(s), x) /\ x.origin # r
    BY <1>2, <1>5, <1>6, <1>7, Zenon
  <2>3. \A s \in Streams : Follows(s, r, h)'
    BY <1>3, <1>4, <2>1, <2>2, StillFollows, Zenon
  <2> QED BY <1>1, <1>4, <2>1, <2>3, StillAdjacent, Zenon
<1>8. CASE r = o
  <2> DEFINE more == Append(em, c)
  <2>1. emitted'[r] = more /\ commands'[r] = Append(commands[r], c)
    BY <1>1, <1>8 DEF StreamInv, StreamTypes
  <2>2. Queued(Append(commands[r], c), more, m)
    BY <1>2, <1>4, QueueGrows, Zenon
  <2>9. Len(more) = L + 1 /\ more[L + 1] = c /\ \A p \in 1..L : more[p] = em[p]
    BY <1>2, <1>4
  <2>3. Published(r)' = m
    BY <2>1, <2>2, Zenon DEF Published, Queued
  <2> HIDE DEF em, m, L, more
  <2>4. /\ (h + 1)..m \subseteq 1..L
        /\ \A i \in Nat : (i + 1)..h \subseteq 1..L
        /\ \A i \in Nat : (i + 1)..L \subseteq 1..L
    BY <1>4
  <2>5. IsRun(inbox', r, more, h, m)
    BY <1>1, <1>4, <2>9, <2>4, RunOfLonger, Zenon
  <2>6. ASSUME NEW s \in Streams PROVE Follows(s, r, h)'
    <3>1. PICK i \in 0..HeardOf(r, h) : IsRun(Got(s), r, em, i, HeardOf(r, h))
      BY <1>4, Zenon DEF Follows, em
    <3>2. CASE r # Home
      <4>1. HeardOf(r, h) = h /\ HeardOf(r, h)' = h /\ Got(s)' = Got(s)
        BY <1>5, <1>8, <3>2, Zenon DEF HeardOf
      <4>2. i \in Nat /\ i \in 0..h
        BY <3>1, <4>1
      <4>3. IsRun(Got(s), r, more, i, h)
        BY <2>4, <2>9, <3>1, <4>1, <4>2, RunOfLonger, Zenon
      <4> QED BY <2>1, <4>1, <4>2, <4>3, Zenon DEF Follows
    <3>3. CASE r = Home /\ phase[s] = "open"
      <4>1. HeardOf(r, h) = L /\ HeardOf(r, h)' = L + 1 /\ Got(s)' = Append(Got(s), e)
        BY <1>5, <1>8, <2>1, <2>9, <3>3, Zenon DEF HeardOf, L, em
      <4>2. i \in Nat /\ i <= L /\ i \in 0..(L + 1)
        BY <1>4, <3>1, <4>1
      <4>3. IsRun(Got(s), r, more, i, L)
        BY <1>4, <2>9, <2>4, <3>1, <4>1, <4>2, RunOfLonger, Zenon
      <4>4. IsRun(Append(Got(s), e), r, more, i, L + 1)
        BY <1>2, <1>3, <1>4, <1>8, <2>9, <4>2, <4>3, RunGrows, Zenon
      <4> QED BY <2>1, <4>1, <4>2, <4>4, Zenon DEF Follows
    <3>4. CASE r = Home /\ phase[s] # "open"
      <4>1. HeardOf(r, h)' = L + 1 /\ Got(s)' = <<>>
        BY <1>5, <1>8, <2>1, <2>9, <3>4, Zenon DEF HeardOf
      <4>2. L + 1 \in Nat /\ L + 1 \in 0..(L + 1)
        BY <1>4
      <4>3. IsRun(<<>>, r, emitted'[r], L + 1, L + 1)
        BY <4>2, EmptyRun, Zenon
      <4> QED BY <4>1, <4>2, <4>3, Zenon DEF Follows
    <3> QED BY <3>2, <3>3, <3>4, Zenon
  <2> QED BY <1>4, <2>1, <2>2, <2>3, <2>5, <2>6, Zenon DEF Adjacent
<1> QED BY <1>7, <1>8, Zenon

\* A publish that is not lost moves the oldest queued change to the connection.
LEMMA PublishInTransit ==
  ASSUME StreamInv, faults = {}, NEW o \in Replicas, Publish(o),
         NEW r \in Replicas, NEW h \in Nat, Adjacent(r, h)
  PROVE  Adjacent(r, h)'
<1> DEFINE e == [origin |-> o, change |-> Head(commands[o])]
           m == Published(r)
<1>1. /\ commands[o] # <<>>
      /\ commands' = [commands EXCEPT ![o] = Tail(@)]
      /\ inbox' = Append(inbox, e)
      /\ emitted' = emitted /\ UNCHANGED listenerVars
  BY Zenon DEF Publish
<1>2. e \in Event /\ e.origin = o /\ e.change = Head(commands[o])
  BY <1>1 DEF StreamInv, StreamTypes, Event
<1> HIDE DEF e
<1>3. StreamTypes /\ Listening /\ inbox \in Seq(Event)
  BY DEF StreamInv, StreamTypes
<1>4. /\ emitted[r] \in Seq(Nat) /\ commands[r] \in Seq(Nat)
      /\ m \in Nat /\ h <= m /\ Queued(commands[r], emitted[r], m)
      /\ IsRun(inbox, r, emitted[r], h, m)
      /\ \A s \in Streams : Follows(s, r, h)
  BY <1>3, AdjacentFacts, Zenon
<1>5. \A s \in Streams : Follows(s, r, h)'
  <2>1. \A s \in Streams : Got(s)' = Got(s)
    BY <1>1, Zenon DEF Got, listenerVars
  <2>2. emitted'[r] = emitted[r]
    BY <1>1
  <2> QED BY <1>3, <1>4, <2>1, <2>2, StillFollows, Zenon
<1>6. CASE r # o
  <2>1. emitted'[r] = emitted[r] /\ commands'[r] = commands[r]
    BY <1>1, <1>6 DEF StreamInv, StreamTypes
  <2>2. IsRun(inbox', r, emitted[r], h, m)
    BY <1>1, <1>2, <1>3, <1>4, <1>6, RunBesideOther, Zenon
  <2> QED BY <1>5, <2>1, <2>2, StillAdjacent, Zenon
<1>7. CASE r = o
  <2>1. commands'[r] = Tail(commands[r]) /\ commands[r] # <<>> /\ emitted'[r] = emitted[r]
    BY <1>1, <1>7 DEF StreamInv, StreamTypes
  <2>2. Queued(commands'[r], emitted[r], m + 1) /\ Head(commands[r]) = emitted[r][m + 1]
    <3>1. Queued(Tail(commands[r]), emitted[r], m + 1) /\ Head(commands[r]) = emitted[r][m + 1]
      BY <1>4, <2>1, QueueShrinks, Zenon
    <3> QED BY <2>1, <3>1, Zenon
  <2>3. Published(r)' = m + 1
    BY <2>1, <2>2, Zenon DEF Published, Queued
  <2> HIDE DEF m
  <2>4. h <= m + 1
    BY <1>4
  <2>5. IsRun(inbox', r, emitted[r], h, m + 1)
    <3>1. e.origin = r /\ e.change = emitted[r][m + 1]
      BY <1>2, <1>7, <2>2, Zenon
    <3>2. IsRun(Append(inbox, e), e.origin, emitted[r], h, m + 1)
      BY <1>2, <1>3, <1>4, <3>1, RunGrows, Zenon
    <3> QED BY <1>1, <3>1, <3>2, Zenon
  <2> QED BY <1>5, <2>1, <2>2, <2>3, <2>4, <2>5, Zenon DEF Adjacent
<1> QED BY <1>6, <1>7, Zenon

\* handleRemoteEvent takes the next change of its origin to the streams, or drops
\* it when they have heard it from the local emitter.
LEMMA HandleInTransit ==
  ASSUME StreamInv, faults = {}, HandleRemoteEvent,
         NEW r \in Replicas, NEW h \in Nat, Adjacent(r, h)
  PROVE  \E n \in Nat : Adjacent(r, n)'
<1> DEFINE e == Head(inbox)
           m == Published(r)
<1>1. /\ inbox # <<>> /\ inbox' = Tail(inbox)
      /\ IF e.origin = Home THEN UNCHANGED listenerVars ELSE Heard(e)
      /\ emitted' = emitted /\ commands' = commands
  BY Zenon DEF HandleRemoteEvent
<1>2. e \in Event
  BY <1>1 DEF StreamInv, StreamTypes
<1> HIDE DEF e
<1>3. /\ StreamTypes /\ Listening /\ inbox \in Seq(Event)
      /\ \A s \in Streams : Got(s) \in Seq(Event)
  BY DEF StreamInv, StreamTypes, Got
<1>4. /\ emitted[r] \in Seq(Nat) /\ Len(emitted[r]) \in Nat
      /\ m \in Nat /\ h <= m /\ m <= Len(emitted[r])
      /\ Queued(commands[r], emitted[r], m)
      /\ IsRun(inbox, r, emitted[r], h, m)
      /\ \A s \in Streams : Follows(s, r, h)
  BY <1>3, AdjacentFacts, Zenon
<1>5. ASSUME NEW s \in Streams
      PROVE  IF e.origin = Home THEN Got(s)' = Got(s)
             ELSE Got(s)' = IF phase[s] = "open" THEN Append(Got(s), e) ELSE <<>>
  <2>1. CASE e.origin # Home
    BY <1>1, <1>2, <1>3, <2>1, HeardIsGot, Zenon
  <2>2. CASE e.origin = Home
    BY <1>1, <2>2, Zenon DEF Got, listenerVars
  <2> QED BY <2>1, <2>2, Zenon
<1>6. \A s \in Streams : phase[s] # "open" => Got(s) = <<>>
  BY <1>3 DEF Listening, Got
<1>7. /\ emitted'[r] = emitted[r] /\ commands'[r] = commands[r]
      /\ Published(r)' = m
  BY <1>1, Zenon DEF Published
<1>8. CASE r # e.origin
  <2>1. ASSUME NEW s \in Streams
        PROVE  \/ Got(s)' = Got(s)
               \/ \E x \in Event : Got(s)' = Append(Got(s), x) /\ x.origin # r
    BY <1>2, <1>5, <1>6, <1>8, Zenon
  <2>2. \A s \in Streams : Follows(s, r, h)'
    BY <1>3, <1>4, <1>7, <2>1, StillFollows, Zenon
  <2>3. IsRun(inbox', r, emitted[r], h, m)
    BY <1>1, <1>3, <1>4, <1>8, RunBehindOther, Zenon DEF e
  <2>4. Adjacent(r, h)'
    BY <1>7, <2>2, <2>3, StillAdjacent, Zenon
  <2> QED BY <2>4, Zenon
<1>9. CASE r = e.origin
  <2>1. \A p, q \in 1..Len(emitted[r]) : emitted[r][p] = emitted[r][q] => p = q
    BY Zenon DEF StreamInv, EmittedOnce
  <2> HIDE DEF m
  <2>2. /\ h + 1 \in 1..m /\ e.change = emitted[r][h + 1]
        /\ IsRun(inbox', r, emitted[r], h + 1, m)
    <3>1. IsRun(inbox, Head(inbox).origin, emitted[r], h, m)
      BY <1>4, <1>9, Zenon DEF e
    <3>2. /\ h + 1 \in 1..m /\ Head(inbox).change = emitted[r][h + 1]
          /\ IsRun(Tail(inbox), Head(inbox).origin, emitted[r], h + 1, m)
      BY <1>1, <1>3, <1>4, <2>1, <3>1, RunShrinks, Zenon
    <3> QED BY <1>1, <1>9, <3>2, Zenon DEF e
  <2>3. h + 1 \in Nat /\ h + 1 <= m
    BY <1>4, <2>2
  <2>4. ASSUME NEW s \in Streams PROVE Follows(s, r, h + 1)'
    <3>1. PICK i \in 0..HeardOf(r, h) : IsRun(Got(s), r, emitted[r], i, HeardOf(r, h))
      BY <1>4, Zenon DEF Follows
    <3>2. CASE r = Home
      <4>1. HeardOf(r, h + 1)' = HeardOf(r, h) /\ Got(s)' = Got(s)
        BY <1>5, <1>7, <1>9, <3>2, Zenon DEF HeardOf
      <4> QED BY <1>7, <3>1, <4>1, Zenon DEF Follows
    <3>3. CASE r # Home /\ phase[s] = "open"
      <4>1. HeardOf(r, h) = h /\ HeardOf(r, h + 1)' = h + 1 /\ Got(s)' = Append(Got(s), e)
        BY <1>5, <1>9, <3>3, Zenon DEF HeardOf
      <4>2. i \in Nat /\ i <= h /\ i \in 0..(h + 1)
        BY <3>1, <4>1
      <4>3. IsRun(Append(Got(s), e), r, emitted[r], i, h + 1)
        BY <1>2, <1>3, <1>9, <2>2, <3>1, <4>1, <4>2, RunGrows, Zenon
      <4> QED BY <1>7, <4>1, <4>2, <4>3, Zenon DEF Follows
    <3>4. CASE r # Home /\ phase[s] # "open"
      <4>1. HeardOf(r, h + 1)' = h + 1 /\ Got(s)' = <<>>
        BY <1>5, <1>9, <3>4, Zenon DEF HeardOf
      <4>2. h + 1 \in 0..(h + 1)
        OBVIOUS
      <4>3. IsRun(<<>>, r, emitted'[r], h + 1, h + 1)
        BY <2>3, EmptyRun, Zenon
      <4> QED BY <4>1, <4>2, <4>3, Zenon DEF Follows
    <3> QED BY <3>2, <3>3, <3>4, Zenon
  <2>5. Adjacent(r, h + 1)'
    BY <1>4, <1>7, <2>2, <2>3, <2>4, Zenon DEF Adjacent
  <2> QED BY <2>3, <2>5, Zenon
<1> QED BY <1>8, <1>9, Zenon

\* A step of a stream alone leaves what it got, or ends it.
LEMMA StreamInTransit ==
  ASSUME StreamInv, faults = {}, NEW t \in Streams,
         \/ ReadPolicy(t) \/ SubscribeToPolicyStatus(t) \/ Verified(t)
         \/ VerifyFails(t) \/ CleanupStream(t),
         NEW r \in Replicas, NEW h \in Nat, Adjacent(r, h)
  PROVE  Adjacent(r, h)'
<1>1. /\ emitted' = emitted /\ commands' = commands /\ inbox' = inbox
  BY Zenon DEF ReadPolicy, SubscribeToPolicyStatus, Verified, VerifyFails, CleanupStream, channelVars
<1>2. StreamTypes /\ Listening
  BY DEF StreamInv
<1>3. /\ Len(emitted[r]) \in Nat /\ IsRun(inbox, r, emitted[r], h, Published(r))
      /\ \A s \in Streams : Follows(s, r, h)
  BY <1>2, AdjacentFacts, Zenon
<1>4. ASSUME NEW s \in Streams PROVE Got(s)' = Got(s) \/ Got(s)' = <<>>
  <2>1. /\ sent[s] \in Seq(Event) /\ pendingEvents[s] \in Seq(Event)
        /\ isAuthorized[s] = "null" => sent[s] = <<>>
    BY <1>2 DEF StreamTypes, Listening
  <2>2. CASE ReadPolicy(t) \/ SubscribeToPolicyStatus(t)
    BY <2>2, Zenon DEF ReadPolicy, SubscribeToPolicyStatus, Got, listenerVars
  <2>3. CASE Verified(t)
    <3>1. CASE s = t
      <4>1. /\ sent'[s] = sent[s] \o pendingEvents[s] /\ pendingEvents'[s] = <<>>
            /\ sent[s] = <<>>
        BY <1>2, <2>1, <2>3, <3>1 DEF Verified, StreamTypes
      <4> QED BY <2>1, <4>1 DEF Got
    <3>2. CASE s # t
      <4>1. sent'[s] = sent[s] /\ pendingEvents'[s] = pendingEvents[s]
        BY <1>2, <2>3, <3>2 DEF Verified, StreamTypes
      <4> QED BY <4>1, Zenon DEF Got
    <3> QED BY <3>1, <3>2, Zenon
  <2>4. CASE VerifyFails(t)
    BY <2>4 DEF VerifyFails
  <2>5. CASE CleanupStream(t)
    <3>1. CASE s = t
      <4>1. sent'[s] = <<>> /\ pendingEvents'[s] = <<>>
        BY <1>2, <2>5, <3>1 DEF CleanupStream, StreamTypes
      <4> QED BY <4>1 DEF Got
    <3>2. CASE s # t
      <4>1. sent'[s] = sent[s] /\ pendingEvents'[s] = pendingEvents[s]
        BY <1>2, <2>5, <3>2 DEF CleanupStream, StreamTypes
      <4> QED BY <4>1, Zenon DEF Got
    <3> QED BY <3>1, <3>2, Zenon
  <2> QED BY <2>2, <2>3, <2>4, <2>5, Zenon
<1>5. ASSUME NEW s \in Streams PROVE Follows(s, r, h)'
  <2>1. CASE Got(s)' = Got(s)
    BY <1>1, <1>2, <1>3, <2>1, StillFollows, Zenon
  <2>2. CASE Got(s)' = <<>>
    <3>1. HeardOf(r, h)' \in Nat
      BY <1>1, <1>3 DEF HeardOf
    <3>2. HeardOf(r, h)' \in 0..HeardOf(r, h)'
      BY <3>1
    <3>3. IsRun(<<>>, r, emitted'[r], HeardOf(r, h)', HeardOf(r, h)')
      BY <3>1, EmptyRun, Zenon
    <3> QED BY <2>2, <3>2, <3>3, Zenon DEF Follows
  <2> QED BY <1>4, <2>1, <2>2, Zenon
<1> QED BY <1>1, <1>3, <1>5, StillAdjacent, Zenon

\* A heard change is buffered or sent by the streams that listen for it.
LEMMA HeardListening ==
  ASSUME StreamTypes, Listening, NEW e \in Event, Heard(e), UNCHANGED <<phase, faults>>
  PROVE  /\ isAuthorized' = isAuthorized
         /\ pendingEvents' \in [Streams -> Seq(Event)] /\ sent' \in [Streams -> Seq(Event)]
         /\ Listening'
<1>1. /\ isAuthorized' = isAuthorized
      /\ pendingEvents' \in [Streams -> Seq(Event)] /\ sent' \in [Streams -> Seq(Event)]
  BY DEF Heard, StreamTypes
<1>2. \A s \in Streams :
        /\ sent'[s] = IF phase[s] = "open" /\ isAuthorized[s] = "true"
                      THEN Append(sent[s], e) ELSE sent[s]
        /\ pendingEvents'[s] = IF phase[s] = "open" /\ isAuthorized[s] = "null"
                               THEN Append(pendingEvents[s], e) ELSE pendingEvents[s]
  BY Zenon DEF Heard
<1>3. Listening'
  BY <1>1, <1>2, Zenon DEF Listening
<1> QED BY <1>1, <1>3, Zenon

\* The types, the listeners' states and the single emission of a change are kept.
LEMMA StreamStep ==
  ASSUME StreamTypes, EmittedOnce, Listening, StreamNext
  PROVE  StreamTypes' /\ EmittedOnce' /\ Listening'
<1>1. ASSUME NEW r \in Replicas, Commit(r) PROVE StreamTypes' /\ EmittedOnce' /\ Listening'
  <2>1. /\ db' = db + 1 /\ writes' = [writes EXCEPT ![r] = @ \cup {db + 1}]
        /\ UNCHANGED <<faults, emitted, commands, inbox, phase, isAuthorized, pendingEvents, sent>>
    BY <1>1, Zenon DEF Commit, channelVars, listenerVars
  <2>2. StreamTypes'
    BY <2>1 DEF StreamTypes
  <2>3. ASSUME NEW q \in Replicas
        PROVE  /\ \A c \in writes'[q] : c <= db'
               /\ \A p \in 1..Len(emitted'[q]) :
                    emitted'[q][p] <= db' /\ emitted'[q][p] \notin writes'[q]
    <3>1. /\ emitted[q] \in Seq(Nat) /\ db \in Nat /\ writes[q] \subseteq Nat
          /\ writes'[q] \subseteq writes[q] \cup {db + 1} /\ emitted'[q] = emitted[q]
      BY <2>1 DEF StreamTypes
    <3>2. /\ \A c \in writes[q] : c <= db
          /\ \A p \in 1..Len(emitted[q]) : emitted[q][p] <= db /\ emitted[q][p] \notin writes[q]
      BY Zenon DEF EmittedOnce
    <3>3. \A p \in 1..Len(emitted[q]) : emitted[q][p] \in Nat
      BY <3>1
    <3> QED BY <2>1, <3>1, <3>2, <3>3
  <2>4. EmittedOnce'
    BY <2>1, <2>3, Zenon DEF EmittedOnce
  <2>5. Listening'
    BY <2>1, Zenon DEF Listening
  <2> QED BY <2>2, <2>4, <2>5
<1>2. ASSUME NEW r \in Replicas, EmitPolicyStatusChange(r)
      PROVE  StreamTypes' /\ EmittedOnce' /\ Listening'
  <2>1. PICK c \in writes[r] :
           /\ writes' = [writes EXCEPT ![r] = @ \ {c}]
           /\ emitted' = [emitted EXCEPT ![r] = Append(@, c)]
           /\ commands' = [commands EXCEPT ![r] = Append(@, c)]
           /\ IF r = Home THEN Heard([origin |-> r, change |-> c]) ELSE UNCHANGED listenerVars
           /\ UNCHANGED <<faults, db, inbox, phase>>
    BY <1>2, Zenon DEF EmitPolicyStatusChange
  <2>2. /\ [origin |-> r, change |-> c] \in Event /\ c \in Nat
    BY DEF StreamTypes, Event
  <2>3. /\ isAuthorized' = isAuthorized
        /\ pendingEvents' \in [Streams -> Seq(Event)] /\ sent' \in [Streams -> Seq(Event)]
        /\ Listening'
    <3>1. CASE r = Home
      BY <2>1, <2>2, <3>1, HeardListening, Zenon
    <3>2. CASE r # Home
      BY <2>1, <3>2, Zenon DEF listenerVars, Listening, StreamTypes
    <3> QED BY <3>1, <3>2, Zenon
  <2>4. /\ writes' \in [Replicas -> SUBSET Nat] /\ emitted' \in [Replicas -> Seq(Nat)]
        /\ commands' \in [Replicas -> Seq(Nat)]
    BY <2>1, <2>2 DEF StreamTypes
  <2>5. StreamTypes'
    BY <2>1, <2>3, <2>4, Zenon DEF StreamTypes
  <2>6. ASSUME NEW q \in Replicas
        PROVE  /\ \A a \in writes'[q] : a <= db'
               /\ \A p \in 1..Len(emitted'[q]) :
                    emitted'[q][p] <= db' /\ emitted'[q][p] \notin writes'[q]
               /\ \A p, u \in 1..Len(emitted'[q]) : emitted'[q][p] = emitted'[q][u] => p = u
    <3>1. /\ \A a \in writes[q] : a <= db
          /\ \A p \in 1..Len(emitted[q]) : emitted[q][p] <= db /\ emitted[q][p] \notin writes[q]
          /\ \A p, u \in 1..Len(emitted[q]) : emitted[q][p] = emitted[q][u] => p = u
          /\ emitted[q] \in Seq(Nat)
      BY Zenon DEF EmittedOnce, StreamTypes
    <3>2. CASE q = r
      <4>1. writes'[q] = writes[q] \ {c} /\ emitted'[q] = Append(emitted[q], c) /\ c \in writes[q]
        BY <2>1, <3>2 DEF StreamTypes
      <4>2. /\ Len(emitted'[q]) = Len(emitted[q]) + 1 /\ emitted'[q][Len(emitted[q]) + 1] = c
            /\ Len(emitted[q]) \in Nat
            /\ \A p \in 1..Len(emitted[q]) : emitted'[q][p] = emitted[q][p]
        BY <2>2, <3>1, <4>1
      <4>3. \A p \in 1..Len(emitted'[q]) : p \in 1..Len(emitted[q]) \/ p = Len(emitted[q]) + 1
        BY <4>2
      <4>4. \A a \in writes'[q] : a <= db'
        BY <2>1, <3>1, <4>1, Zenon
      <4>5. ASSUME NEW p \in 1..Len(emitted'[q])
            PROVE  emitted'[q][p] <= db' /\ emitted'[q][p] \notin writes'[q]
        <5>1. CASE p \in 1..Len(emitted[q])
          <6>1. emitted'[q][p] = emitted[q][p]
            BY <4>2, <5>1, Zenon
          <6> QED BY <2>1, <3>1, <4>1, <5>1, <6>1, Zenon
        <5>2. CASE p = Len(emitted[q]) + 1
          <6>1. emitted'[q][p] = c
            BY <4>2, <5>2, Zenon
          <6> QED BY <2>1, <3>1, <4>1, <6>1, Zenon
        <5> QED BY <4>3, <5>1, <5>2, Zenon
      <4>6. ASSUME NEW p \in 1..Len(emitted'[q]), NEW u \in 1..Len(emitted'[q]),
                   emitted'[q][p] = emitted'[q][u]
            PROVE  p = u
        <5>1. CASE p \in 1..Len(emitted[q]) /\ u \in 1..Len(emitted[q])
          BY <3>1, <4>2, <4>6, <5>1, Zenon
        <5>2. \A k \in 1..Len(emitted[q]) : emitted'[q][k] # c
          BY <3>1, <4>1, <4>2, Zenon
        <5> QED BY <4>2, <4>3, <4>6, <5>1, <5>2, Zenon
      <4> QED BY <4>4, <4>5, <4>6, Zenon
    <3>3. CASE q # r
      <4>1. writes'[q] = writes[q] /\ emitted'[q] = emitted[q]
        BY <2>1, <3>3 DEF StreamTypes
      <4> QED BY <2>1, <3>1, <4>1, Zenon
    <3> QED BY <3>2, <3>3, Zenon
  <2>7. EmittedOnce'
    BY <2>6, Zenon DEF EmittedOnce
  <2> QED BY <2>3, <2>5, <2>7
<1>3. ASSUME NEW r \in Replicas, Publish(r) PROVE StreamTypes' /\ EmittedOnce' /\ Listening'
  <2>1. /\ commands[r] # <<>> /\ commands' = [commands EXCEPT ![r] = Tail(@)]
        /\ \/ inbox' = Append(inbox, [origin |-> r, change |-> Head(commands[r])])
           \/ inbox' = inbox
        /\ UNCHANGED <<faults, db, writes, emitted, phase, isAuthorized, pendingEvents, sent>>
    BY <1>3, Zenon DEF Publish, rowVars, listenerVars
  <2>2. commands' \in [Replicas -> Seq(Nat)] /\ inbox' \in Seq(Event)
    <3>1. Head(commands[r]) \in Nat /\ Tail(commands[r]) \in Seq(Nat)
      BY <2>1 DEF StreamTypes
    <3>2. [origin |-> r, change |-> Head(commands[r])] \in Event
      BY <3>1 DEF Event
    <3>3. \A e \in Event : Append(inbox, e) \in Seq(Event)
      BY DEF StreamTypes
    <3>4. inbox' \in Seq(Event)
      BY <2>1, <3>2, <3>3, Zenon DEF StreamTypes
    <3> QED BY <2>1, <3>1, <3>4 DEF StreamTypes
  <2>3. StreamTypes'
    BY <2>1, <2>2, Zenon DEF StreamTypes
  <2>4. EmittedOnce' /\ Listening'
    BY <2>1, Zenon DEF EmittedOnce, Listening
  <2> QED BY <2>3, <2>4
<1>4. CASE HandleRemoteEvent
  <2>1. /\ inbox # <<>> /\ inbox' = Tail(inbox)
        /\ IF Head(inbox).origin = Home THEN UNCHANGED listenerVars ELSE Heard(Head(inbox))
        /\ UNCHANGED <<faults, db, writes, emitted, commands, phase>>
    BY <1>4, Zenon DEF HandleRemoteEvent, rowVars
  <2>2. Head(inbox) \in Event /\ inbox' \in Seq(Event)
    BY <2>1 DEF StreamTypes
  <2>3. /\ isAuthorized' = isAuthorized
        /\ pendingEvents' \in [Streams -> Seq(Event)] /\ sent' \in [Streams -> Seq(Event)]
        /\ Listening'
    <3>1. CASE Head(inbox).origin # Home
      BY <2>1, <2>2, <3>1, HeardListening, Zenon
    <3>2. CASE Head(inbox).origin = Home
      BY <2>1, <3>2, Zenon DEF listenerVars, Listening, StreamTypes
    <3> QED BY <3>1, <3>2, Zenon
  <2>4. StreamTypes'
    BY <2>1, <2>2, <2>3, Zenon DEF StreamTypes
  <2>5. EmittedOnce'
    BY <2>1, Zenon DEF EmittedOnce
  <2> QED BY <2>3, <2>4, <2>5
<1>5. ASSUME NEW s \in Streams,
             \/ ReadPolicy(s) \/ SubscribeToPolicyStatus(s) \/ Verified(s)
             \/ VerifyFails(s) \/ CleanupStream(s)
      PROVE  StreamTypes' /\ EmittedOnce' /\ Listening'
  <2>1. UNCHANGED <<faults, db, writes, emitted, commands, inbox>>
    BY <1>5, Zenon DEF ReadPolicy, SubscribeToPolicyStatus, Verified, VerifyFails, CleanupStream,
         rowVars, channelVars
  <2>2. EmittedOnce'
    BY <2>1, Zenon DEF EmittedOnce
  <2>3. StreamTypes' /\ Listening'
    <3>1. CASE ReadPolicy(s)
      BY <2>1, <3>1 DEF ReadPolicy, StreamTypes, Listening, listenerVars
    <3>2. CASE SubscribeToPolicyStatus(s)
      BY <2>1, <3>2 DEF SubscribeToPolicyStatus, StreamTypes, Listening
    <3>3. CASE Verified(s)
      BY <2>1, <3>3 DEF Verified, StreamTypes, Listening
    <3>4. CASE VerifyFails(s)
      BY <2>1, <3>4 DEF VerifyFails, StreamTypes, Listening
    <3>5. CASE CleanupStream(s)
      BY <2>1, <3>5 DEF CleanupStream, StreamTypes, Listening
    <3> QED BY <1>5, <3>1, <3>2, <3>3, <3>4, <3>5, Zenon
  <2> QED BY <2>2, <2>3
<1> QED BY <1>1, <1>2, <1>3, <1>4, <1>5, Zenon DEF StreamNext

\* StreamInv is inductive: the writers, Redis and the streams.
THEOREM StreamInvariance == StreamSpec => []StreamInv
<1>1. StreamInit => StreamInv
  <2> SUFFICES ASSUME StreamInit PROVE StreamInv
    OBVIOUS
  <2>1. StreamTypes /\ EmittedOnce /\ Listening
    BY DEF StreamInit, StreamTypes, EmittedOnce, Listening
  <2>2. ASSUME NEW r \in Replicas PROVE Adjacent(r, 0)
    <3>1. emitted[r] = <<>> /\ commands[r] = <<>> /\ inbox = <<>>
      BY DEF StreamInit
    <3>2. Len(emitted[r]) = 0 /\ Published(r) = 0 /\ HeardOf(r, 0) = 0 /\ Len(commands[r]) = 0
      BY <3>1 DEF Published, HeardOf
    <3>3. \A s \in Streams : Got(s) = <<>>
      BY DEF StreamInit, Got
    <3>4. IsRun(<<>>, r, emitted[r], 0, 0)
      BY EmptyRun
    <3>5. Queued(commands[r], emitted[r], 0)
      BY <3>2 DEF Queued
    <3>6. \A s \in Streams : Follows(s, r, 0)
      BY <3>2, <3>3, <3>4 DEF Follows
    <3> QED BY <3>1, <3>2, <3>4, <3>5, <3>6 DEF Adjacent
  <2>3. InTransit
    BY <2>2 DEF InTransit
  <2> QED BY <2>1, <2>3 DEF StreamInv
<1>2. StreamInv /\ [StreamNext]_streamVars => StreamInv'
  <2> SUFFICES ASSUME StreamInv, [StreamNext]_streamVars PROVE StreamInv'
    OBVIOUS
  <2>1. CASE StreamNext
    <3>1. StreamTypes' /\ EmittedOnce' /\ Listening'
      BY <2>1, StreamStep, Zenon DEF StreamInv
    <3>2. faults' = faults
      BY <2>1, Zenon DEF StreamNext, Commit, EmitPolicyStatusChange, Publish, HandleRemoteEvent, ReadPolicy,
           SubscribeToPolicyStatus, Verified, VerifyFails, CleanupStream
    <3>3. ASSUME faults = {}, NEW r \in Replicas PROVE \E h \in Nat : Adjacent(r, h)'
      <4>1. PICK h \in Nat : Adjacent(r, h)
        BY <3>3, Zenon DEF StreamInv, InTransit
      <4>2. ASSUME NEW o \in Replicas, Commit(o) PROVE Adjacent(r, h)'
        BY <4>1, <4>2, Zenon DEF Commit, channelVars, listenerVars, Adjacent, Published, HeardOf, Follows, Got
      <4>3. ASSUME NEW o \in Replicas, EmitPolicyStatusChange(o) PROVE Adjacent(r, h)'
        BY <3>3, <4>1, <4>3, EmitInTransit, Zenon
      <4>4. ASSUME NEW o \in Replicas, Publish(o) PROVE Adjacent(r, h)'
        BY <3>3, <4>1, <4>4, PublishInTransit, Zenon
      <4>5. ASSUME HandleRemoteEvent PROVE \E n \in Nat : Adjacent(r, n)'
        BY <3>3, <4>1, <4>5, HandleInTransit, Zenon
      <4>6. ASSUME NEW s \in Streams,
                   \/ ReadPolicy(s) \/ SubscribeToPolicyStatus(s) \/ Verified(s)
                   \/ VerifyFails(s) \/ CleanupStream(s)
            PROVE  Adjacent(r, h)'
        BY <3>3, <4>1, <4>6, StreamInTransit, Zenon
      <4> QED BY <2>1, <4>2, <4>3, <4>4, <4>5, <4>6, Zenon DEF StreamNext
    <3>4. InTransit'
      BY <3>2, <3>3, Zenon DEF InTransit
    <3> QED BY <3>1, <3>4 DEF StreamInv
  <2>2. CASE UNCHANGED streamVars
    BY <2>2, Zenon DEF streamVars, StreamInv, StreamTypes, EmittedOnce, Listening, InTransit, Adjacent,
         Published, HeardOf, Follows, Got
  <2> QED BY <2>1, <2>2
<1> QED BY <1>1, <1>2, PTL DEF StreamSpec

\* A stream gets each replica's changes once and in their order, with none missing
\* in between, while Redis and the database answer: for any number of replicas,
\* streams and changes.
THEOREM StreamInOrder == StreamSpec => []InOrderPerOrigin
<1>1. StreamInv => InOrderPerOrigin
  <2> SUFFICES ASSUME StreamInv, faults = {}, NEW s \in Streams, NEW r \in Replicas
               PROVE  \E i, j \in 0..Len(emitted[r]) : IsRun(Got(s), r, emitted[r], i, j)
    BY Zenon DEF InOrderPerOrigin
  <2>1. PICK h \in Nat : Adjacent(r, h)
    BY Zenon DEF StreamInv, InTransit
  <2>2. Len(emitted[r]) \in Nat /\ h <= Len(emitted[r]) /\ Follows(s, r, h)
    BY <2>1, AdjacentFacts, Zenon DEF StreamInv
  <2>3. PICK i \in 0..HeardOf(r, h) : IsRun(Got(s), r, emitted[r], i, HeardOf(r, h))
    BY <2>2, Zenon DEF Follows
  <2>4. i \in 0..Len(emitted[r]) /\ HeardOf(r, h) \in 0..Len(emitted[r])
    BY <2>2, <2>3 DEF HeardOf
  <2> QED BY <2>3, <2>4, Zenon
<1> QED BY <1>1, StreamInvariance, PTL

-----------------------------------------------------------------------------
(* The webhooks.  A delivery that left its loop was answered or had used   *)
(* all its attempts; one that was in flight at the shutdown stays awaited. *)

HookTypes ==
  /\ delivery \in [Deliveries -> {"none", "sending", "sleeping", "delivered", "failed"}]
  /\ attempt \in [Deliveries -> Nat]
  /\ received \in [Deliveries -> BOOLEAN]
  /\ process \in {"up", "draining", "exited"}
  /\ atStop \subseteq Deliveries

Looping ==
  \A d \in Deliveries:
    /\ attempt[d] <= MAX_RETRY_ATTEMPTS
    /\ delivery[d] = "sleeping" => attempt[d] < MAX_RETRY_ATTEMPTS
    /\ delivery[d] = "delivered" => received[d]
    /\ delivery[d] = "failed" => attempt[d] = MAX_RETRY_ATTEMPTS

Awaiting ==
  /\ process # "up" => awaited = atStop
  /\ process = "up" => ~timedOut /\ atStop = {}
  /\ \A d \in atStop: delivery[d] # "none"
  /\ process = "exited" /\ ~timedOut => \A d \in atStop: d \notin InFlight

HookInv == HookTypes /\ Looping /\ Awaiting

\* HookInv is inductive: the notifications, the retry loops and the drain.
THEOREM HookInvariance == HooksSpec => []HookInv
<1>1. HooksInit => HookInv
  BY RetryAssumption DEF HooksInit, HookInv, HookTypes, Looping, Awaiting
<1>2. HookInv /\ [HooksNext]_hookVars => HookInv'
  <2> SUFFICES ASSUME HookInv, [HooksNext]_hookVars PROVE HookInv'
    OBVIOUS
  <2>0. HookTypes /\ Looping /\ Awaiting
    BY DEF HookInv
  \* Nothing but the registrations and the calls changes.
  <2>1. ASSUME UNCHANGED <<delivery, attempt, received, process, awaited, timedOut, atStop>>
        PROVE  HookInv'
    BY <2>0, <2>1, Zenon DEF HookInv, HookTypes, Looping, Awaiting, InFlight
  <2>2. ASSUME NEW g \in Registrations, RegisterWebhook(g) \/ UnregisterWebhook(g) PROVE HookInv'
    BY <2>1, <2>2, Zenon DEF RegisterWebhook, UnregisterWebhook, shutdown
  <2>3. ASSUME NEW n \in Notifications,
               \/ NotifyPolicyStatusChange(n) \/ NotifyClaimStatusChange(n)
               \/ NotifyPolicyOracleKeyChange(n)
        PROVE  HookInv'
    BY <2>1, <2>3, Zenon DEF NotifyPolicyStatusChange, NotifyClaimStatusChange,
         NotifyPolicyOracleKeyChange, Notify, shutdown
  \* Only deliveries that a running process moves; none is forgotten.
  <2>4. ASSUME UNCHANGED <<process, awaited, timedOut, atStop>>, process # "exited",
               HookTypes', Looping', \A d \in atStop : delivery'[d] # "none"
        PROVE  HookInv'
    BY <2>0, <2>4, Zenon DEF HookInv, Awaiting
  <2>5. ASSUME NEW n \in Notifications, Load(n) PROVE HookInv'
    <3>1. /\ UNCHANGED <<attempt, received, process, awaited, timedOut, atStop>>
          /\ process # "exited"
          /\ \/ delivery' = delivery
             \/ \E loaded : delivery' = Start(n, loaded)
      BY <2>5, Zenon DEF Load, Running, shutdown
    <3>2. /\ delivery' \in [Deliveries -> {"none", "sending", "sleeping", "delivered", "failed"}]
          /\ \A d \in Deliveries : delivery'[d] = delivery[d] \/ delivery'[d] = "sending"
      BY <2>0, <3>1 DEF HookTypes, Start
    <3>3. HookTypes'
      BY <2>0, <3>1, <3>2, Zenon DEF HookTypes
    <3>4. Looping'
      BY <2>0, <3>1, <3>2 DEF Looping
    <3>5. \A d \in atStop : delivery'[d] # "none"
      BY <2>0, <3>2 DEF Awaiting, HookTypes
    <3> QED BY <2>4, <3>1, <3>3, <3>4, <3>5, Zenon
  <2>6. ASSUME NEW d \in Deliveries, Succeed(d) \/ Fail(d) \/ Retry(d) PROVE HookInv'
    <3>1. UNCHANGED <<process, awaited, timedOut, atStop>> /\ process # "exited"
      BY <2>6, Zenon DEF Succeed, Fail, Retry, Running, shutdown
    <3>2. MAX_RETRY_ATTEMPTS \in Nat
      BY RetryAssumption
    <3>3. /\ delivery[d] \in {"sending", "sleeping"}
          /\ \E v \in {"sending", "sleeping", "delivered", "failed"} :
               delivery' = [delivery EXCEPT ![d] = v]
      BY <2>6, Zenon DEF Succeed, Fail, Retry
    <3>4. \A b \in atStop : delivery'[b] # "none"
      BY <2>0, <3>3 DEF Awaiting, HookTypes
    <3>5. CASE Succeed(d)
      <4>1. HookTypes' /\ Looping'
        BY <2>0, <3>1, <3>2, <3>5 DEF Succeed, HookTypes, Looping
      <4> QED BY <2>4, <3>1, <3>4, <4>1, Zenon
    <3>6. CASE Fail(d)
      <4>1. /\ delivery' = [delivery EXCEPT ![d] = IF attempt[d] < MAX_RETRY_ATTEMPTS
                                                   THEN "sleeping" ELSE "failed"]
            /\ attempt' = attempt
            /\ received' = received \/ received' = [received EXCEPT ![d] = TRUE]
        BY <3>6, Zenon DEF Fail
      <4>2. HookTypes'
        BY <2>0, <3>1, <4>1, Zenon DEF HookTypes
      <4>3. \A b \in Deliveries : received[b] => received'[b]
        BY <2>0, <4>1 DEF HookTypes
      <4>4. ASSUME NEW b \in Deliveries
            PROVE  /\ attempt[b] <= MAX_RETRY_ATTEMPTS
                   /\ delivery'[b] = "sleeping" => attempt[b] < MAX_RETRY_ATTEMPTS
                   /\ delivery'[b] = "delivered" => delivery[b] = "delivered"
                   /\ delivery'[b] = "failed" => attempt[b] = MAX_RETRY_ATTEMPTS
        BY <2>0, <3>2, <4>1 DEF HookTypes, Looping
      <4>5. Looping'
        BY <2>0, <4>1, <4>3, <4>4, Zenon DEF Looping
      <4> QED BY <2>4, <3>1, <3>4, <4>2, <4>5, Zenon
    <3>7. CASE Retry(d)
      <4>1. HookTypes' /\ Looping'
        BY <2>0, <3>1, <3>2, <3>7 DEF Retry, HookTypes, Looping
      <4> QED BY <2>4, <3>1, <3>4, <4>1, Zenon
    <3> QED BY <2>6, <3>5, <3>6, <3>7, Zenon
  <2>7. CASE OnApplicationShutdown
    <3>1. /\ awaited' = InFlight /\ atStop' = InFlight /\ timedOut' = timedOut
          /\ process' = IF InFlight = {} THEN "exited" ELSE "draining"
          /\ UNCHANGED <<delivery, attempt, received>>
      BY <2>7, Zenon DEF OnApplicationShutdown, Snapshot
    <3>2. HookTypes' /\ Looping'
      BY <2>0, <3>1 DEF HookTypes, Looping, InFlight
    <3>3. Awaiting'
      BY <3>1 DEF Awaiting, InFlight
    <3> QED BY <3>2, <3>3 DEF HookInv
  <2>8. CASE Drained
    <3>1. /\ process = "draining" /\ awaited \cap InFlight = {} /\ process' = "exited"
          /\ UNCHANGED <<delivery, attempt, received, awaited, timedOut, atStop>>
      BY <2>8, Zenon DEF Drained
    <3> QED BY <2>0, <3>1 DEF HookInv, HookTypes, Looping, Awaiting, InFlight
  <2>9. CASE DrainTimeout
    <3>1. /\ process = "draining" /\ process' = "exited" /\ timedOut'
          /\ UNCHANGED <<delivery, attempt, received, awaited, atStop>>
      BY <2>9, Zenon DEF DrainTimeout
    <3> QED BY <2>0, <3>1 DEF HookInv, HookTypes, Looping, Awaiting
  <2>10. CASE UNCHANGED hookVars
    BY <2>1, <2>10, Zenon DEF hookVars
  <2> QED BY <2>2, <2>3, <2>5, <2>6, <2>7, <2>8, <2>9, <2>10, Zenon DEF HooksNext
<1> QED BY <1>1, <1>2, PTL DEF HooksSpec

\* A shutdown that is not cut off by its timeout leaves no delivery half-way, for
\* any registrations and notifications and any number of attempts.
THEOREM DrainSettles == HooksSpec => []DrainSettlesInFlight
<1>1. HookInv => DrainSettlesInFlight
  BY DEF HookInv, HookTypes, Looping, Awaiting, InFlight, DrainSettlesInFlight, Settled
<1> QED BY <1>1, HookInvariance, PTL

-----------------------------------------------------------------------------
(* The streamed response.  Once intercept has cleaned up, whatever is still *)
(* open was replaced by a later payload before.                            *)

Closures == [cleaned: BOOLEAN, upstream: {"none", "subscribed", "closed", "ended"},
             ref: [Kinds -> Nat], open: [Kinds -> SUBSET Nat], ended: Nat]

\* The closure y has let go of all it refers to.
LetGo(y) ==
  /\ y.upstream # "subscribed"
  /\ \A k \in Kinds : \A n \in y.open[k] : k # "timers" /\ n < y.ref[k]

\* The closure after p payloads: a reference is to the latest of its kind, nothing
\* is taken up before the handler is subscribed, and a cleanup is final.
Sound(y, p) ==
  /\ y \in Closures
  /\ \A k \in Kinds : y.ref[k] <= p /\ \A n \in y.open[k] : n <= y.ref[k]
  /\ y.upstream = "none" => \A k \in Kinds : y.open[k] = {}
  /\ y.cleaned => LetGo(y)

\* Once 'close' was delivered, a stream holds nothing that was not replaced: the
\* safety half of ReleasedWhenGone, which adds that 'close' does come.
ReleasedAtClose == socket = "closed" /\ mode = "stream" => Released

ResponseInv ==
  /\ payloads \in Nat /\ writing \in Nat
  /\ Sound(closure, payloads)
  /\ closure.upstream = "none" => writing = 0
  /\ socket = "closed" /\ mode = "stream" /\ closure.upstream # "none" => closure.cleaned
  /\ caller = "none" => closure.upstream = "none" /\ ~closure.cleaned /\ closure.ended = 0

\* cleanup lets go of everything that is referred to, and marks the closure.
LEMMA CleanupReleases ==
  ASSUME NEW p \in Nat, NEW y, Sound(y, p)
  PROVE  /\ Sound(Cleanup(y), p) /\ Cleanup(y).cleaned
         /\ Cleanup(y).upstream = "none" <=> y.upstream = "none"
<1>1. CASE y.cleaned
  BY <1>1 DEF Cleanup
<1>2. CASE ~y.cleaned
  <2> DEFINE z == Cleanup(y)
  <2>1. /\ z.cleaned /\ z.ref = y.ref /\ z.ended = y.ended
        /\ z.upstream = IF y.upstream = "subscribed" THEN "closed" ELSE y.upstream
        /\ z.open = [k \in Kinds |-> IF k = "timers" THEN {} ELSE y.open[k] \ {y.ref[k]}]
        /\ z \in Closures
    BY <1>2, Zenon DEF Cleanup, Sound, Closures
  <2>2. \A k \in Kinds : \A n \in z.open[k] :
           k # "timers" /\ n \in y.open[k] /\ n # y.ref[k]
    BY <2>1
  <2>3. \A k \in Kinds : y.open[k] \subseteq Nat /\ y.ref[k] \in Nat
    BY DEF Sound, Closures
  <2>4. LetGo(z)
    BY <2>1, <2>2, <2>3 DEF Sound, LetGo, Closures
  <2>5. \A k \in Kinds : z.ref[k] <= p /\ \A n \in z.open[k] : n <= z.ref[k]
    BY <2>1, <2>2 DEF Sound
  <2>6. z.upstream = "none" <=> y.upstream = "none"
    BY <2>1 DEF Sound, Closures
  <2>7. z.upstream = "none" => \A k \in Kinds : z.open[k] = {}
    BY <2>2, <2>6, Zenon DEF Sound
  <2> QED BY <2>1, <2>4, <2>5, <2>6, <2>7, Zenon DEF Sound
<1> QED BY <1>1, <1>2, Zenon

\* What a payload brings is referred to, and what it replaces is behind it.
LEMMA TakeIsSound ==
  ASSUME NEW p \in Nat, NEW y, Sound(y, p), y.upstream = "subscribed",
         NEW kinds \in SUBSET Kinds
  PROVE  Sound(Take(y, p + 1, kinds), p + 1) /\ Take(y, p + 1, kinds).upstream = "subscribed"
<1> DEFINE z == Take(y, p + 1, kinds)
<1> DEFINE ref == [k \in Kinds |-> IF k \in kinds THEN p + 1 ELSE y.ref[k]]
           open == [k \in Kinds |-> IF k \in kinds THEN y.open[k] \cup {p + 1} ELSE y.open[k]]
<1>2. \A k \in Kinds : y.open[k] \subseteq Nat /\ y.ref[k] \in Nat
  BY DEF Sound, Closures
<1>0. ref \in [Kinds -> Nat] /\ open \in [Kinds -> SUBSET Nat]
  BY <1>2
<1>a. z = [y EXCEPT !.ref = ref, !.open = open]
  BY Zenon DEF Take
<1>b. y \in Closures
  BY DEF Sound
<1>1. /\ z.cleaned = y.cleaned /\ z.upstream = y.upstream /\ z.ended = y.ended
      /\ z.ref = ref /\ z.open = open
      /\ z \in Closures
  <2> HIDE DEF z, ref, open
  <2> QED BY <1>0, <1>a, <1>b DEF Closures
<1>3. ASSUME NEW k \in Kinds
      PROVE  z.ref[k] <= p + 1 /\ \A n \in z.open[k] : n <= z.ref[k]
  BY <1>1, <1>2 DEF Sound
<1>4. ~y.cleaned
  BY Zenon DEF Sound, LetGo
<1> QED BY <1>1, <1>3, <1>4 DEF Sound

\* ResponseInv is inductive: the handler's and the inner Observables' events, the
\* late writes, the socket's events and the caller's teardown.
THEOREM ResponseInvariance == ResponseSpec => []ResponseInv
<1>1. ResponseInit => ResponseInv
  BY DEF ResponseInit, ResponseInv, Sound, Closures, Kinds, HolderKinds
<1>2. ResponseInv /\ [ResponseNext]_responseVars => ResponseInv'
  <2> SUFFICES ASSUME ResponseInv, [ResponseNext]_responseVars PROVE ResponseInv'
    OBVIOUS
  <2>0. /\ payloads \in Nat /\ writing \in Nat
        /\ Sound(closure, payloads)
        /\ closure.upstream = "none" => writing = 0
        /\ socket = "closed" /\ mode = "stream" /\ closure.upstream # "none" => closure.cleaned
        /\ caller = "none" => closure.upstream = "none" /\ ~closure.cleaned /\ closure.ended = 0
    BY DEF ResponseInv
  <2>a. Emits => closure.upstream = "subscribed" /\ ~closure.cleaned /\ mode = "stream"
    BY <2>0, Zenon DEF Emits, Sound, LetGo
  <2>b. closure.upstream # "none" => caller # "none"
    BY <2>0, Zenon
  \* A cleanup, from the closure or from one that something has just happened to.
  <2>1. ASSUME NEW y, closure' = Cleanup(y), payloads' \in Nat, Sound(y, payloads'),
               writing' \in Nat, y.upstream = "none" => writing' = 0, caller' # "none"
        PROVE  ResponseInv'
    BY <2>1, CleanupReleases, Zenon DEF ResponseInv
  \* A step of a subscribed closure, which 'close' has not reached.
  <2>2. ASSUME payloads' \in Nat, writing' \in Nat, Sound(closure', payloads'),
               closure'.upstream # "none", socket' # "closed" \/ mode' # "stream",
               caller' # "none"
        PROVE  ResponseInv'
    BY <2>2, Zenon DEF ResponseInv
  <2>3. ASSUME UNCHANGED <<mode, socket, closure, payloads, writing, caller>> PROVE ResponseInv'
    BY <2>0, <2>3, Zenon DEF ResponseInv
  \* A caller that has subscribed stays one.
  <2>c. caller # "none" => Completed # "none" /\ Errored(caller) # "none" /\ Errored(Completed) # "none"
    BY DEF Completed, Errored
  \* The ends of the exchange that clean up what they find.
  <2>d. ASSUME CleanUpFrom(closure), UNCHANGED <<payloads, writing>>, caller # "none"
        PROVE  ResponseInv'
    BY <2>0, <2>1, <2>c, <2>d, Zenon DEF CleanUpFrom
  <2>4. CASE Intercept
    <3>1. CASE Gone
      <4>1. UNCHANGED <<mode, socket, closure, payloads, writing>> /\ caller' = "completed"
        BY <2>4, <3>1, Zenon DEF Intercept
      <4> QED BY <2>0, <4>1 DEF ResponseInv
    <3>2. CASE ~Gone
      <4>1. /\ closure' = [closure EXCEPT !.upstream = "subscribed"] /\ caller = "none"
            /\ socket' = "open" /\ payloads' = payloads /\ writing' = writing
            /\ caller' = "open"
        BY <2>4, <3>2, Zenon DEF Intercept, Gone
      <4>2. Sound(closure', payloads) /\ closure'.upstream # "none"
        BY <2>0, <4>1 DEF Sound, Closures
      <4> QED BY <2>0, <2>2, <4>1, <4>2
    <3> QED BY <3>1, <3>2, Zenon
  <2>5. CASE Json
    <3>1. /\ closure' = [closure EXCEPT !.upstream = "ended"] /\ closure.upstream = "subscribed"
          /\ mode = "json" /\ mode' = mode /\ payloads' = payloads /\ writing' = writing
          /\ caller' = "completed" \/ caller' = Errored(caller)
      BY <2>5, Zenon DEF Json
    <3>2. ~closure.cleaned
      BY <2>0, <3>1, Zenon DEF Sound, LetGo
    <3>3. Sound(closure', payloads) /\ closure'.upstream # "none"
      BY <2>0, <3>1, <3>2 DEF Sound, Closures
    <3>4. caller' # "none" /\ mode' # "stream"
      BY <2>b, <2>c, <3>1
    <3> QED BY <2>0, <2>2, <3>1, <3>3, <3>4
  <2>6. CASE DropPayload
    <3>1. Emits /\ CleanUpFrom(closure) /\ UNCHANGED <<payloads, writing>>
      BY <2>6, Zenon DEF DropPayload
    <3>2. closure.upstream # "none"
      BY <2>a, <3>1
    <3> QED BY <2>b, <2>d, <3>1, <3>2, Zenon
  \* A payload that is taken up.
  <2>7. ASSUME Arrives, NEW kinds \in SUBSET Kinds
        PROVE  /\ payloads' = payloads + 1 /\ payloads' \in Nat /\ socket = "open"
               /\ caller # "none"
               /\ Sound(Take(closure, payloads + 1, kinds), payloads')
               /\ Take(closure, payloads + 1, kinds).upstream = "subscribed"
    <3>1. /\ payloads' = payloads + 1 /\ socket = "open" /\ closure.upstream = "subscribed"
      BY <2>7, <2>a, Zenon DEF Arrives, Gone
    <3>2. caller # "none"
      BY <2>b, <3>1
    <3>3. payloads + 1 \in Nat
      BY <2>0
    <3> QED BY <2>0, <2>7, <3>1, <3>2, <3>3, TakeIsSound, Zenon
  <2>8. CASE ObservablePayload \/ MessagePayload \/ ListPayload
    <3>1. /\ Arrives /\ socket' = socket /\ caller' = caller
          /\ writing' = writing \/ writing' = writing + 1
          /\ \E holder \in Holders :
                \/ closure' = Take(closure, payloads + 1, holder \cup {"inner"})
                \/ closure' = Take(closure, payloads + 1, holder)
                \/ closure' = Take(closure, payloads + 1, holder \cup {"file"})
      BY <2>8, Zenon DEF ObservablePayload, MessagePayload, ListPayload
    <3>2. \E kinds \in SUBSET Kinds : closure' = Take(closure, payloads + 1, kinds)
      BY <3>1 DEF Holders, Kinds
    <3>3. PICK kinds \in SUBSET Kinds : closure' = Take(closure, payloads + 1, kinds)
      BY <3>2
    <3>4. writing' \in Nat
      BY <2>0, <3>1
    <3>5. /\ Sound(closure', payloads') /\ closure'.upstream = "subscribed"
          /\ payloads' \in Nat /\ socket' = "open" /\ caller' # "none"
      BY <2>7, <3>1, <3>3, Zenon
    <3> QED BY <2>2, <3>4, <3>5
  <2>9. CASE PlainPayload
    <3>1. Arrives /\ writing' = writing
      BY <2>9, Zenon DEF PlainPayload
    <3>2. PICK holder \in Holders : CleanUpFrom(Take(closure, payloads + 1, holder))
      BY <2>9, Zenon DEF PlainPayload
    <3>3. holder \in SUBSET Kinds
      BY DEF Holders, Kinds
    <3>4. /\ Sound(Take(closure, payloads + 1, holder), payloads') /\ payloads' \in Nat
          /\ Take(closure, payloads + 1, holder).upstream = "subscribed" /\ caller # "none"
      BY <2>7, <3>1, <3>3, Zenon
    <3>5. Take(closure, payloads + 1, holder).upstream # "none"
      BY <3>4
    <3> QED BY <2>0, <2>1, <2>c, <3>1, <3>2, <3>4, <3>5, Zenon DEF CleanUpFrom
  <2>10. CASE WriteItems
    <3>1. /\ writing > 0 /\ writing' = writing - 1 /\ UNCHANGED <<mode, socket, payloads>>
          /\ \/ closure.cleaned /\ UNCHANGED <<closure, caller>>
             \/ /\ ~closure.cleaned /\ UNCHANGED caller
                /\ closure' = [closure EXCEPT !.ended = closure.ref["file"]]
             \/ /\ ~closure.cleaned /\ UNCHANGED caller
                /\ closure' = [closure EXCEPT !.open["file"] = @ \ {closure.ref["file"]}]
             \/ CleanUpFrom(closure)
      BY <2>10, Zenon DEF WriteItems
    <3>2. closure.upstream # "none" /\ writing' \in Nat
      BY <2>0, <3>1
    <3>3. CASE closure.cleaned /\ UNCHANGED <<closure, caller>>
      BY <2>0, <2>b, <3>1, <3>2, <3>3, Zenon DEF ResponseInv
    <3>4. CASE /\ ~closure.cleaned /\ UNCHANGED caller
               /\ closure' = [closure EXCEPT !.ended = closure.ref["file"]]
      <4>1. Sound(closure', payloads) /\ closure'.upstream # "none"
        BY <2>0, <3>2, <3>4 DEF Sound, Closures, Kinds, HolderKinds
      <4> QED BY <2>0, <2>2, <2>b, <3>1, <3>2, <3>4, <4>1, Zenon
    <3>5. CASE /\ ~closure.cleaned /\ UNCHANGED caller
               /\ closure' = [closure EXCEPT !.open["file"] = @ \ {closure.ref["file"]}]
      <4>1. Sound(closure', payloads) /\ closure'.upstream # "none"
        BY <2>0, <3>2, <3>5 DEF Sound, Closures, Kinds, HolderKinds
      <4> QED BY <2>0, <2>2, <2>b, <3>1, <3>2, <3>5, <4>1, Zenon
    <3>6. CASE CleanUpFrom(closure)
      BY <2>0, <2>1, <2>b, <2>c, <3>1, <3>2, <3>6, Zenon DEF CleanUpFrom
    <3> QED BY <3>1, <3>3, <3>4, <3>5, <3>6, Zenon
  <2>11. CASE UpstreamError \/ UpstreamComplete
    <3> DEFINE y == [closure EXCEPT !.upstream = "ended"]
    <3>1. /\ Emits /\ UNCHANGED <<mode, socket, payloads, writing>>
          /\ \/ closure' = Cleanup(y) /\ (caller' = Completed \/ caller' = Errored(Completed))
             \/ closure' = y /\ caller' = caller
      BY <2>11, Zenon DEF UpstreamError, UpstreamComplete, CleanUpFrom, FailFrom
    <3>2. closure.upstream = "subscribed" /\ ~closure.cleaned /\ mode = "stream"
      BY <2>a, <3>1
    <3>3. Sound(y, payloads) /\ y.upstream # "none"
      BY <2>0, <3>2 DEF Sound, Closures
    <3>4. caller # "none" /\ socket # "closed"
      BY <2>0, <3>2
    <3> QED BY <2>0, <2>1, <2>2, <2>c, <3>1, <3>3, <3>4, Zenon
  <2>12. CASE InnerNext
    <3>1. /\ closure.open["inner"] # {} /\ CleanUpFrom(closure) /\ UNCHANGED <<payloads, writing>>
      BY <2>12, Zenon DEF InnerNext
    <3>2. closure.upstream # "none"
      BY <2>0, <3>1 DEF Sound, Kinds
    <3> QED BY <2>b, <2>d, <3>1, <3>2, Zenon
  <2>13. CASE InnerEnds
    <3>1. PICK n \in closure.open["inner"] :
            /\ closure' = Cleanup([closure EXCEPT !.open["inner"] = @ \ {n}])
            /\ caller' = Completed \/ caller' = Errored(Completed)
            /\ UNCHANGED <<payloads, writing>>
      BY <2>13, Zenon DEF InnerEnds, CleanUpFrom, FailFrom
    <3>2. closure.upstream # "none"
      BY <2>0, <3>1 DEF Sound, Kinds
    <3> DEFINE y == [closure EXCEPT !.open["inner"] = @ \ {n}]
    <3>3. Sound(y, payloads) /\ y.upstream # "none"
      BY <2>0, <3>2 DEF Sound, LetGo, Closures, Kinds, HolderKinds
    <3>4. caller' # "none"
      BY <2>b, <2>c, <3>1, <3>2, Zenon
    <3> QED BY <2>0, <2>1, <3>1, <3>3, <3>4, Zenon
  <2>14. CASE Destroy
    <3>1. /\ socket' = "destroyed" /\ UNCHANGED <<mode, closure, payloads, writing, caller>>
      BY <2>14, Zenon DEF Destroy
    <3> QED BY <2>0, <3>1 DEF ResponseInv
  <2>15. CASE CloseEvent
    <3>1. CASE mode = "stream" /\ closure.upstream # "none"
      BY <2>b, <2>d, <2>15, <3>1, Zenon DEF CloseEvent
    <3>2. CASE ~(mode = "stream" /\ closure.upstream # "none")
      BY <2>0, <2>15, <3>2, Zenon DEF CloseEvent, ResponseInv
    <3> QED BY <3>1, <3>2, Zenon
  <2>16. CASE RequestEnds
    BY <2>b, <2>d, <2>16, Zenon DEF RequestEnds
  <2>17. CASE Finish
    <3>1. CleanUpFrom(closure) /\ UNCHANGED <<payloads, writing>>
      BY <2>17, Zenon DEF Finish
    <3>2. closure.ended # 0 \/ caller = "completed"
      BY <2>17, Zenon DEF Finish
    <3>3. caller # "none"
      BY <2>0, <3>2
    <3> QED BY <2>d, <3>1, <3>3, Zenon
  <2>18. CASE Unsubscribe
    <3>1. /\ closure' = Cleanup(closure) /\ caller' = "unsubscribed"
          /\ UNCHANGED <<payloads, writing>>
      BY <2>18, Zenon DEF Unsubscribe
    <3>2. caller' # "none"
      BY <3>1
    <3> QED BY <2>0, <2>1, <3>1, <3>2, Zenon
  <2>19. CASE UNCHANGED responseVars
    BY <2>3, <2>19, Zenon DEF responseVars
  <2> QED BY <2>4, <2>5, <2>6, <2>8, <2>9, <2>10, <2>11, <2>12, <2>13, <2>14, <2>15, <2>16,
             <2>17, <2>18, <2>19, Zenon DEF ResponseNext
<1> QED BY <1>1, <1>2, PTL DEF ResponseSpec

\* Once 'close' was delivered to a stream, whatever was under way at that moment
\* and whatever still arrives, the handler's Observable is unsubscribed, no timer
\* runs, and a cursor, request, inner Observable or file that is still open is one
\* that a later payload had taken the place of.
THEOREM ResponseReleased == ResponseSpec => []ReleasedAtClose
<1>1. ResponseInv => ReleasedAtClose
  <2> SUFFICES ASSUME ResponseInv, socket = "closed", mode = "stream" PROVE Released
    BY DEF ReleasedAtClose
  <2>1. CASE closure.upstream = "none"
    BY <2>1 DEF ResponseInv, Sound, Released
  <2>2. CASE closure.upstream # "none"
    BY <2>2, Zenon DEF ResponseInv, Sound, LetGo, Released, Replaced
  <2> QED BY <2>1, <2>2, Zenon
<1> QED BY <1>1, ResponseInvariance, PTL

-----------------------------------------------------------------------------
(* The lock: the strengthening says that tokens are never shared and that  *)
(* the fields of the key agree; if reliable, that a run in its task hears  *)
(* its heartbeat before its grant is over.                                 *)

TokensDistinct ==
    /\ \A r \in Run : Active(r) => token[r] \in Token
    /\ \A r, s \in Run : Active(r) /\ Active(s) /\ token[r] = token[s] => r = s
    /\ key.token = NoToken <=> key.px = 0

HeartbeatInTime ==
    reliable => \A r \in Run : pc[r] = "task" => beat[r] < left[r]

LockInv == /\ TypeOK /\ TokensDistinct /\ LostOnlyByLapse /\ PxIsHoldersGrant
        /\ HeartbeatInTime

USE TtlAssumption, TokenAssumption

\* A third of the TTL, rounded down, is at least a tick and less than the TTL.
LEMMA IntervalBounds == ExtendInterval \in 1..Ttl /\ ExtendInterval < Ttl
BY DEF ExtendInterval

\* The initial state satisfies the invariant.
LEMMA InitLockInv == Init => LockInv
BY DEF Init, LockInv, TypeOK, TokensDistinct, LostOnlyByLapse, PxIsHoldersGrant,
       HeartbeatInTime, NoKey, Active, Holds

\* SET NX PX with a new token keeps the invariant.
LEMMA AcquireLockInv == ASSUME LockInv, NEW r \in Run, Acquire(r) PROVE LockInv'
<1> USE IntervalBounds DEF LockInv, Acquire, Active, Holds
<1>1. PICK t \in Unused : key' = [token |-> t, px |-> Ttl]
                          /\ token' = [token EXCEPT ![r] = t]
  BY Zenon
<1>2. t \in Token /\ \A s \in Run : token[s] # t
  BY <1>1 DEF Unused
<1>3. TypeOK'
  BY <1>1, <1>2 DEF TypeOK
<1>4. TokensDistinct'
  BY <1>1, <1>2 DEF TypeOK, TokensDistinct
<1>5. LostOnlyByLapse'
  BY <1>1, <1>2 DEF TypeOK, TokensDistinct, LostOnlyByLapse, KeyAbsent
<1>6. PxIsHoldersGrant'
  BY <1>1, <1>2 DEF TypeOK, PxIsHoldersGrant
<1>7. HeartbeatInTime'
  BY DEF TypeOK, HeartbeatInTime
<1> QED BY <1>3, <1>4, <1>5, <1>6, <1>7, Zenon

\* So it does when its answer is lost.
LEMMA AcquireUnansweredLockInv ==
    ASSUME LockInv, NEW r \in Run, AcquireUnanswered(r) PROVE LockInv'
<1> USE DEF LockInv, AcquireUnanswered, Active, Holds
<1>1. PICK t \in Unused : key' = [token |-> t, px |-> Ttl]
  BY Zenon
<1>2. t \in Token /\ \A s \in Run : token[s] # t
  BY <1>1, Zenon DEF Unused
<1>3. TypeOK' /\ TokensDistinct' /\ HeartbeatInTime'
  BY <1>1, <1>2 DEF TypeOK, TokensDistinct, HeartbeatInTime
<1>4. LostOnlyByLapse' /\ PxIsHoldersGrant'
  BY <1>1, <1>2, Zenon
     DEF TypeOK, TokensDistinct, LostOnlyByLapse, PxIsHoldersGrant, KeyAbsent
<1> QED BY <1>3, <1>4, Zenon

\* A renewal, and one that fails, keeps the invariant.
LEMMA RenewLockInv ==
    ASSUME LockInv, NEW r \in Run, Renew(r) \/ RenewFailed(r) PROVE LockInv'
<1> USE IntervalBounds
    DEF LockInv, Renew, RenewFailed, TokenMatches, Active, Holds
<1>1. TypeOK' /\ TokensDistinct'
  BY DEF TypeOK, TokensDistinct
<1>2. LostOnlyByLapse' /\ PxIsHoldersGrant'
  BY DEF TypeOK, TokensDistinct, LostOnlyByLapse, PxIsHoldersGrant
<1>3. HeartbeatInTime'
  <2> SUFFICES ASSUME reliable', NEW s \in Run, pc'[s] = "task"
               PROVE  beat'[s] < left'[s]
    BY DEF HeartbeatInTime
  <2>1. reliable
    BY Zenon
  <2>2. \A q \in Run : pc[q] = "task" => beat[q] < left[q]
    BY <2>1 DEF HeartbeatInTime
  <2>3. Renew(r)
    BY <2>1
  <2>4. TokenMatches(r)
    BY <2>2, <2>3 DEF TypeOK, LostOnlyByLapse
  <2> QED BY <2>2, <2>3, <2>4, Zenon DEF TypeOK
<1> QED BY <1>1, <1>2, <1>3, Zenon

\* The end of a task keeps the invariant.
LEMMA TaskDoneLockInv == ASSUME LockInv, NEW r \in Run, TaskDone(r) PROVE LockInv'
BY DEF LockInv, TaskDone, TypeOK, TokensDistinct, LostOnlyByLapse,
       PxIsHoldersGrant, HeartbeatInTime, Active, Holds

\* The compare-and-delete, or a crash in its place, keeps the invariant.
LEMMA LeaveLockInv ==
    ASSUME LockInv, NEW r \in Run, Release(r) \/ Abandon(r) PROVE LockInv'
<1> USE DEF LockInv, Release, Abandon, Leave, TokenMatches, NoKey, Active, Holds
<1>1. Active(r)
  BY Zenon
<1>2. TypeOK' /\ TokensDistinct' /\ HeartbeatInTime'
  BY DEF TypeOK, TokensDistinct, HeartbeatInTime
<1>3. LostOnlyByLapse' /\ PxIsHoldersGrant'
  BY <1>1 DEF TypeOK, TokensDistinct, LostOnlyByLapse, PxIsHoldersGrant
<1> QED BY <1>2, <1>3

\* Time takes as much from the key as from the grant of its holder.
LEMMA TickLockInv == ASSUME LockInv, Tick PROVE LockInv'
<1> USE DEF LockInv, Tick, KeyAfterTick, Less, NoKey, Active, Holds
<1>1. TypeOK' /\ TokensDistinct'
  BY DEF TypeOK, TokensDistinct
<1>2. LostOnlyByLapse' /\ PxIsHoldersGrant'
  BY DEF TypeOK, TokensDistinct, LostOnlyByLapse, PxIsHoldersGrant
<1>3. HeartbeatInTime'
  BY DEF TypeOK, HeartbeatInTime
<1> QED BY <1>1, <1>2, <1>3, Zenon

\* The inductive invariant holds in every state.
THEOREM LockInvariant == Spec => []LockInv
<1>1. Init => LockInv
  BY InitLockInv
<1>2. LockInv /\ [Next]_vars => LockInv'
  <2> SUFFICES ASSUME LockInv, [Next]_vars PROVE LockInv'
    OBVIOUS
  <2>1. CASE Next
    BY <2>1, AcquireLockInv, AcquireUnansweredLockInv, RenewLockInv, TaskDoneLockInv,
       LeaveLockInv, TickLockInv, Zenon DEF Next
  <2>2. CASE UNCHANGED vars
    BY <2>2 DEF vars, LockInv, TypeOK, TokensDistinct, LostOnlyByLapse,
       PxIsHoldersGrant, HeartbeatInTime, Active, Holds
  <2> QED BY <2>1, <2>2
<1> QED BY <1>1, <1>2, PTL DEF Spec

\* Whatever Redis and the timers do, a run of runWithLock loses its key only to
\* its own TTL: no acquire, renew or release of another run takes it.
THEOREM LockLostOnlyByLapse == Spec => []LostOnlyByLapse
BY LockInvariant, PTL DEF LockInv

\* Whatever Redis and the timers do, the key expires when its holder's last
\* granted TTL does: renew never extends the key of another run.
THEOREM LockPxIsHoldersGrant == Spec => []PxIsHoldersGrant
BY LockInvariant, PTL DEF LockInv

\* While Redis answers and heartbeats fire when due, runWithLock is exclusive,
\* with tasks of any length: a third of the TTL is early enough.
THEOREM LockExclusive == Spec => []Exclusive
<1>1. LockInv => Exclusive
  <2> SUFFICES ASSUME reliable, LockInv, NEW r \in Run, NEW s \in Run,
                      pc[r] = "task", pc[s] = "task"
               PROVE  r = s
    BY DEF Exclusive
  <2>1. left[r] > 0 /\ left[s] > 0
    BY DEF LockInv, TypeOK, HeartbeatInTime
  <2>2. token[r] = key.token /\ token[s] = key.token
    BY <2>1 DEF LockInv, LostOnlyByLapse, Active, Holds
  <2> QED BY <2>2 DEF LockInv, TokensDistinct, Active
<1> QED BY <1>1, LockInvariant, PTL
=============================================================================
