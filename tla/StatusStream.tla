--------------------------- MODULE StatusStream ---------------------------
(***************************************************************************)
(* The live status stream of one policy: the writers that change the row   *)
(* and emit the change (policy.service.ts, claims.service.ts), the events  *)
(* service of each replica with its Redis channel                          *)
(* (common/events/status-events.service.ts), and the streams a client      *)
(* opens on one replica (policy.controller.ts, policyStatusEvents).        *)
(*                                                                         *)
(* A change is the number of the write that made it: the stream passes the *)
(* payload on untouched, so only its identity and its order matter. An     *)
(* oracle-key change travels the same way on a second channel of the same  *)
(* connection and reaches the same listeners, so it is a change like any   *)
(* other. The wallet of a stream is the policyholder: the controller has   *)
(* checked it before it subscribes, and no code changes a policyholder, so *)
(* the listener's own check can only succeed or fail to reach the          *)
(* database.                                                               *)
(***************************************************************************)
EXTENDS Naturals, Sequences, Functions

CONSTANTS
  Replicas,      \* the instances of the service
  Home,          \* the replica the client's streams are served by
  Streams,       \* the streams opened on it
  MaxChanges,    \* bound: changes of the policy row
  FaultSets      \* which of "redis" (a publish or a message is lost) and
                 \* "database" (the ownership look-up fails) may happen

VARIABLES
  faults,        \* the faults of this behaviour
  db,            \* changes committed to the policy row
  writes,        \* per replica: committed changes whose await has not resumed
  emitted,       \* per replica: the changes it emitted, in order
  commands,      \* per replica: publish commands on the way to Redis
  inbox,         \* messages on Home's subscriber connection
  policyOwners,  \* whether Home has cached the policy's owner
  phase,         \* per stream: none, read, open, closed
  snapshot,      \* per stream: the change the row was read at
  isAuthorized,  \* per stream: null while the look-up runs, true or false
  pendingEvents, \* per stream: events buffered during the look-up
  sent,          \* per stream: the events sent to the client after the snapshot
  since          \* per stream: how much each replica had emitted when it opened

streamVars == <<faults, db, writes, emitted, commands, inbox, policyOwners, phase,
          snapshot, isAuthorized, pendingEvents, sent, since>>
rowVars == <<db, writes>>
channelVars == <<commands, inbox>>
listenerVars == <<isAuthorized, pendingEvents, sent>>

Changes == 1..MaxChanges
Events == [origin: Replicas, change: Changes]

StreamInit ==
  /\ faults \in FaultSets
  /\ db = 0
  /\ writes = [r \in Replicas |-> {}]
  /\ emitted = [r \in Replicas |-> <<>>]
  /\ commands = [r \in Replicas |-> <<>>]
  /\ inbox = <<>>
  /\ policyOwners = FALSE
  /\ phase = [s \in Streams |-> "none"]
  /\ snapshot = [s \in Streams |-> 0]
  /\ isAuthorized = [s \in Streams |-> "null"]
  /\ pendingEvents = [s \in Streams |-> <<>>]
  /\ sent = [s \in Streams |-> <<>>]
  /\ since = [s \in Streams |-> [r \in Replicas |-> 0]]

-----------------------------------------------------------------------------
\* Writers and the events service

\* A guarded write commits; the handler that made it resumes later.
Commit(r) ==
  /\ db < MaxChanges
  /\ db' = db + 1
  /\ writes' = [writes EXCEPT ![r] = @ \cup {db + 1}]
  /\ UNCHANGED <<faults, emitted, channelVars, policyOwners, phase, snapshot, listenerVars, since>>

\* wrappedListener of every attached stream: deliver, drop or buffer.
Heard(e) ==
  /\ sent' = [s \in Streams |->
       IF phase[s] = "open" /\ isAuthorized[s] = "true"
       THEN Append(sent[s], e) ELSE sent[s]]
  /\ pendingEvents' = [s \in Streams |->
       IF phase[s] = "open" /\ isAuthorized[s] = "null"
       THEN Append(pendingEvents[s], e) ELSE pendingEvents[s]]
  /\ UNCHANGED isAuthorized

\* emitPolicyStatusChange: the local emitter first, then the publish command.
EmitPolicyStatusChange(r) == \E c \in writes[r]:
  /\ writes' = [writes EXCEPT ![r] = @ \ {c}]
  /\ emitted' = [emitted EXCEPT ![r] = Append(@, c)]
  /\ commands' = [commands EXCEPT ![r] = Append(@, c)]
  /\ IF r = Home THEN Heard([origin |-> r, change |-> c]) ELSE UNCHANGED listenerVars
  /\ UNCHANGED <<faults, db, inbox, policyOwners, phase, snapshot, since>>

\* Redis runs a publish: every subscriber gets it, the publisher's own too.
\* A rejected publish is only logged, and a subscriber that is reconnecting
\* never sees the message.
Publish(r) ==
  /\ commands[r] # <<>>
  /\ commands' = [commands EXCEPT ![r] = Tail(@)]
  /\ \/ inbox' = Append(inbox, [origin |-> r, change |-> Head(commands[r])])
     \/ "redis" \in faults /\ UNCHANGED inbox
  /\ UNCHANGED <<faults, rowVars, emitted, policyOwners, phase, snapshot, listenerVars, since>>

\* The mutant: the replica re-emits its own published events.
HandleRemoteEvent_OwnToo ==
  /\ inbox # <<>>
  /\ inbox' = Tail(inbox)
  /\ Heard(Head(inbox))
  /\ UNCHANGED <<faults, rowVars, emitted, commands, policyOwners, phase, snapshot, since>>

\* handleRemoteEvent: an event of this instance was already emitted locally.
HandleRemoteEvent ==
  /\ inbox # <<>>
  /\ inbox' = Tail(inbox)
  /\ IF Head(inbox).origin = Home THEN UNCHANGED listenerVars ELSE Heard(Head(inbox))
  /\ UNCHANGED <<faults, rowVars, emitted, commands, policyOwners, phase, snapshot, since>>

-----------------------------------------------------------------------------
\* Streams

\* policyStatusEvents reads the row before it builds the stream. A client
\* that was cut off connects again, to a new stream.
ReadPolicy(s) ==
  /\ phase[s] \in {"none", "closed"}
  /\ phase' = [phase EXCEPT ![s] = "read"]
  /\ snapshot' = [snapshot EXCEPT ![s] = db]
  /\ UNCHANGED <<faults, rowVars, emitted, channelVars, policyOwners, listenerVars, since>>

\* The stream is subscribed: it sends the status it read, and attaches its
\* listener, authorized at once when the owner is cached.
SubscribeToPolicyStatus(s) ==
  /\ phase[s] = "read"
  /\ phase' = [phase EXCEPT ![s] = "open"]
  /\ since' = [since EXCEPT ![s] = [r \in Replicas |-> Len(emitted[r])]]
  /\ isAuthorized' = [isAuthorized EXCEPT ![s] = IF policyOwners THEN "true" ELSE "null"]
  /\ UNCHANGED <<faults, rowVars, emitted, channelVars, policyOwners, snapshot, pendingEvents, sent>>

\* The mutant: the look-up authorizes the listener and drops the buffer.
Verified_NoFlush(s) ==
  /\ phase[s] = "open" /\ isAuthorized[s] = "null"
  /\ isAuthorized' = [isAuthorized EXCEPT ![s] = "true"]
  /\ policyOwners' = TRUE
  /\ pendingEvents' = [pendingEvents EXCEPT ![s] = <<>>]
  /\ UNCHANGED <<faults, rowVars, emitted, channelVars, phase, snapshot, sent, since>>

\* The ownership look-up answers: the owner is cached and the buffered events
\* are sent in the order they came.
Verified(s) ==
  /\ phase[s] = "open" /\ isAuthorized[s] = "null"
  /\ isAuthorized' = [isAuthorized EXCEPT ![s] = "true"]
  /\ policyOwners' = TRUE
  /\ sent' = [sent EXCEPT ![s] = @ \o pendingEvents[s]]
  /\ pendingEvents' = [pendingEvents EXCEPT ![s] = <<>>]
  /\ UNCHANGED <<faults, rowVars, emitted, channelVars, phase, snapshot, since>>

\* The look-up fails: the stream stays open, and stays silent.
VerifyFails(s) ==
  /\ phase[s] = "open" /\ isAuthorized[s] = "null"
  /\ "database" \in faults
  /\ isAuthorized' = [isAuthorized EXCEPT ![s] = "false"]
  /\ pendingEvents' = [pendingEvents EXCEPT ![s] = <<>>]
  /\ UNCHANGED <<faults, rowVars, emitted, channelVars, policyOwners, phase, snapshot, sent, since>>

\* The client goes away: cleanup detaches the listener, once; a look-up that
\* answers later finds it unsubscribed.
CleanupStream(s) ==
  /\ phase[s] = "open"
  /\ phase' = [phase EXCEPT ![s] = "closed"]
  /\ isAuthorized' = [isAuthorized EXCEPT ![s] = "null"]
  /\ pendingEvents' = [pendingEvents EXCEPT ![s] = <<>>]
  /\ sent' = [sent EXCEPT ![s] = <<>>]
  /\ snapshot' = [snapshot EXCEPT ![s] = 0]
  /\ since' = [since EXCEPT ![s] = [r \in Replicas |-> 0]]
  /\ UNCHANGED <<faults, rowVars, emitted, channelVars, policyOwners>>

StreamNext ==
  \/ \E r \in Replicas: Commit(r) \/ EmitPolicyStatusChange(r) \/ Publish(r)
  \/ HandleRemoteEvent
  \/ \E s \in Streams:
       \/ ReadPolicy(s) \/ SubscribeToPolicyStatus(s)
       \/ Verified(s) \/ VerifyFails(s) \/ CleanupStream(s)

StreamSpec == StreamInit /\ [][StreamNext]_streamVars

-----------------------------------------------------------------------------
StreamTypeOK ==
  /\ db \in 0..MaxChanges
  /\ writes \in [Replicas -> SUBSET Changes]
  /\ phase \in [Streams -> {"none", "read", "open", "closed"}]
  /\ isAuthorized \in [Streams -> {"null", "true", "false"}]
  /\ \A s \in Streams: sent[s] \in Seq(Events) /\ pendingEvents[s] \in Seq(Events)

\* Where a sequence of events has one of replica r.
From(events, r) == {k \in 1..Len(events) : events[k].origin = r}

\* The events of replica r in the sequence are its emissions i + 1 to j, and stand
\* in the order they were emitted in.
IsRun(events, r, emissions, i, j) ==
  /\ {events[k].change : k \in From(events, r)} = {emissions[p] : p \in (i + 1)..j}
  /\ \A k, l \in From(events, r): k < l =>
       \E p, q \in (i + 1)..j:
         p < q /\ emissions[p] = events[k].change /\ emissions[q] = events[l].change

\* What stream s has sent, and what it has yet to send.
Got(s) == sent[s] \o pendingEvents[s]

\* What a stream has sent of one replica's changes, and what it still buffers,
\* is an unbroken run of that replica's emissions: none is repeated (a replica
\* also receives what it published itself), none overtakes another (the buffer
\* of the ownership check is flushed before later events), and, while Redis
\* and the database answer, none is missing in between.
InOrderPerOrigin ==
  faults = {} => \A s \in Streams, r \in Replicas:
    \E i, j \in 0..Len(emitted[r]): IsRun(Got(s), r, emitted[r], i, j)

\* The i-th emission of replica r came after stream s attached its listener.
EmittedSince(s, r, i) ==
  phase[s] = "open" /\ faults = {} /\ since[s][r] < i /\ i <= Len(emitted[r])

\* Every change emitted after a stream attached its listener, on any replica,
\* is sent to the client in the end, also when it arrived while ownership was
\* still being looked up.
StreamCatchesUp ==
  \A s \in Streams, r \in Replicas, i \in Changes:
    EmittedSince(s, r, i) ~>
      \/ phase[s] = "closed"
      \/ /\ i <= Len(emitted[r])
         /\ [origin |-> r, change |-> emitted[r][i]] \in Range(sent[s])

\* Nothing is under way: what the stream last showed is what the client keeps.
Quiet ==
  /\ \A r \in Replicas: writes[r] = {} /\ commands[r] = <<>>
  /\ inbox = <<>>

\* An open stream of a quiet system shows the current status, as the endpoint's
\* description promises ("The current status is emitted immediately on
\* connection, followed by events whenever the status changes").
ShowsCurrentStatus ==
  \A s \in Streams: Quiet /\ faults = {} /\ phase[s] = "open" /\ isAuthorized[s] = "true" =>
    (IF sent[s] = <<>> THEN snapshot[s] ELSE sent[s][Len(sent[s])].change) = db
=============================================================================
