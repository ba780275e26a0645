------------------------ MODULE StreamingInterceptor ------------------------
(***************************************************************************)
(* One response streamed by StreamingInterceptor                           *)
(* (common/interceptors/streaming.interceptor.ts): a list as NDJSON, an    *)
(* Observable or server-sent messages, and the cleanup that every end of   *)
(* the exchange shares.                                                    *)
(*                                                                         *)
(* The handler is the upstream Observable; the caller is the subscriber    *)
(* the framework attaches. A socket is destroyed some time before its      *)
(* 'close' event is delivered, and the lines of a list are written in a    *)
(* later turn of the event loop. As in rxjs, a subscriber that has ended   *)
(* ignores what comes after.                                               *)
(***************************************************************************)
EXTENDS Naturals, FiniteSets

CONSTANTS
  MaxPayloads  \* bound: payloads the handler emits

VARIABLES
  mode,      \* "stream" or "json": what the request asks for
  socket,    \* "open"; "destroyed" (or the response ended); then "closed", the event delivered
  closure,   \* the closure of intercept: [cleaned, upstream, ref, open, ended]
  caller,    \* "none", "open", "completed", "errored" or "unsubscribed"
  payloads,  \* payloads taken up
  writing,   \* setImmediate callbacks that are due
  failed     \* the handler or an inner Observable ended the stream with an error

responseVars == <<mode, socket, closure, caller, payloads, writing, failed>>

\* What a payload brings: a holder's resources, the subscription to it, its file.
HolderKinds == {"cursor", "abortController", "timers"}
Kinds == HolderKinds \cup {"inner", "file"}

\* Resources are named by the payload that brought them. ref is the one that
\* cursorRef, abortController, innerSub and passThrough refer to, 0 for none; open
\* the ones that are not released; ended the last file that was ended.
ResponseInit ==
  /\ mode \in {"stream", "json"}
  /\ socket \in {"open", "destroyed"}
  /\ closure = [cleaned |-> FALSE, upstream |-> "none", ref |-> [k \in Kinds |-> 0],
                open |-> [k \in Kinds |-> {}], ended |-> 0]
  /\ caller = "none"
  /\ payloads = 0
  /\ writing = 0
  /\ failed = FALSE

Gone == socket # "open"

-----------------------------------------------------------------------------
\* The mutant: the inner Observable stays subscribed.
Cleanup_KeepsInner(y) ==
  IF y.cleaned THEN y
  ELSE [y EXCEPT !.cleaned = TRUE,
                 !.upstream = IF @ = "subscribed" THEN "closed" ELSE @,
                 !.open = [k \in Kinds |-> CASE k = "timers" -> {}
                                             [] k = "inner" -> y.open[k]
                                             [] OTHER -> y.open[k] \ {y.ref[k]}]]

\* cleanup: every timer is cleared, the handler's Observable unsubscribed, and of
\* inner Observables, cursors, requests and files the one that is referred to
\* is let go of. A second call does nothing.
Cleanup(y) ==
  IF y.cleaned THEN y
  ELSE [y EXCEPT !.cleaned = TRUE,
                 !.upstream = IF @ = "subscribed" THEN "closed" ELSE @,
                 !.open = [k \in Kinds |-> IF k = "timers" THEN {}
                                           ELSE y.open[k] \ {y.ref[k]}]]

\* cleanup's last step: the caller is told that the stream is complete.
Completed == IF caller = "open" THEN "completed" ELSE caller

\* The exchange is cleaned up from the state y of the closure.
CleanUpFrom(y) == closure' = Cleanup(y) /\ caller' = Completed

\* subscriber.error, which reaches a caller that has not ended.
Errored(c) == IF c = "open" THEN "errored" ELSE c

\* cleanup(), then subscriber.error(err): the two error callbacks.
FailFrom(y) ==
  /\ failed' = (failed \/ caller = "open")
  /\ closure' = Cleanup(y) /\ caller' = Errored(Completed)

-----------------------------------------------------------------------------
\* The caller subscribes. A client that is gone already gets an empty stream.
Intercept ==
  /\ caller = "none"
  /\ IF Gone THEN caller' = "completed" /\ UNCHANGED closure
     ELSE caller' = "open" /\ closure' = [closure EXCEPT !.upstream = "subscribed"]
  /\ UNCHANGED <<mode, socket, payloads, writing, failed>>

\* The plain JSON path passes values, errors and the end through.
Json ==
  /\ mode = "json" /\ closure.upstream = "subscribed" /\ caller = "open"
  /\ \/ caller' = "completed" /\ UNCHANGED failed
     \/ caller' = Errored(caller) /\ failed' = TRUE
  /\ closure' = [closure EXCEPT !.upstream = "ended"]
  /\ UNCHANGED <<mode, socket, payloads, writing>>

Emits == mode = "stream" /\ closure.upstream = "subscribed"

\* A payload that finds the client gone is dropped, with what it carries.
DropPayload ==
  /\ Emits /\ Gone
  /\ CleanUpFrom(closure)
  /\ UNCHANGED <<mode, socket, payloads, writing, failed>>

\* A payload that finds the client there, and the number it gets.
Arrives ==
  /\ Emits /\ ~Gone /\ payloads < MaxPayloads
  /\ payloads' = payloads + 1

\* The resources a payload may carry.
Holders == SUBSET HolderKinds

\* What payload n brings is taken up: timers are added to the others, a new
\* cursor, request, inner Observable or file takes the place of the one before,
\* which stays open.
Take(y, n, kinds) ==
  [y EXCEPT !.ref = [k \in Kinds |-> IF k \in kinds THEN n ELSE y.ref[k]],
            !.open = [k \in Kinds |-> IF k \in kinds THEN y.open[k] \cup {n} ELSE y.open[k]]]

\* The payload is an Observable, which is subscribed in its turn.
ObservablePayload ==
  /\ Arrives
  /\ \E holder \in Holders: closure' = Take(closure, payloads + 1, holder \cup {"inner"})
  /\ UNCHANGED <<mode, socket, caller, writing, failed>>

\* The payload is one server-sent message, passed on.
MessagePayload ==
  /\ Arrives
  /\ \E holder \in Holders: closure' = Take(closure, payloads + 1, holder)
  /\ UNCHANGED <<mode, socket, caller, writing, failed>>

\* The payload is no list: it is passed on and ends the stream.
PlainPayload ==
  /\ Arrives
  /\ \E holder \in Holders: CleanUpFrom(Take(closure, payloads + 1, holder))
  /\ UNCHANGED <<mode, socket, writing, failed>>

\* The payload is a list: the caller gets a file whose lines are written later.
ListPayload ==
  /\ Arrives
  /\ \E holder \in Holders: closure' = Take(closure, payloads + 1, holder \cup {"file"})
  /\ writing' = writing + 1
  /\ UNCHANGED <<mode, socket, caller, failed>>

\* The callback writes its lines to the file that is referred to now, unless the
\* exchange is over, and ends it; a client that is gone gets the end only. Lines
\* for a file that another callback has ended destroy it, and so does an item
\* that has no JSON form, which cleans up as well.
WriteItems ==
  /\ writing > 0
  /\ writing' = writing - 1
  /\ \/ /\ closure.cleaned
        /\ UNCHANGED <<closure, caller>>
     \/ /\ ~closure.cleaned
        /\ closure' = [closure EXCEPT !.ended = closure.ref["file"]]
        /\ UNCHANGED caller
     \/ /\ ~closure.cleaned /\ ~Gone /\ closure.ended = closure.ref["file"]
        /\ closure' = [closure EXCEPT !.open["file"] = @ \ {closure.ref["file"]}]
        /\ UNCHANGED caller
     \/ /\ ~closure.cleaned /\ ~Gone
        /\ CleanUpFrom(closure)
  /\ UNCHANGED <<mode, socket, payloads, failed>>

\* The handler's Observable ends with an error.
UpstreamError ==
  /\ Emits
  /\ FailFrom([closure EXCEPT !.upstream = "ended"])
  /\ UNCHANGED <<mode, socket, payloads, writing>>

\* It completes: only a stream of messages is over then.
UpstreamComplete ==
  /\ Emits
  /\ IF closure.ref["file"] = 0 /\ closure.ref["inner"] = 0
     THEN CleanUpFrom([closure EXCEPT !.upstream = "ended"])
     ELSE closure' = [closure EXCEPT !.upstream = "ended"] /\ UNCHANGED caller
  /\ UNCHANGED <<mode, socket, payloads, writing, failed>>

\* An inner Observable, the current one or an earlier one, emits: a value is
\* passed on to a client that is there, and cleans up after one that is gone.
InnerNext ==
  /\ closure.open["inner"] # {} /\ Gone
  /\ CleanUpFrom(closure)
  /\ UNCHANGED <<mode, socket, payloads, writing, failed>>

\* It ends, with or without an error.
InnerEnds == \E n \in closure.open["inner"]:
  LET y == [closure EXCEPT !.open["inner"] = @ \ {n}]
  IN  /\ \/ CleanUpFrom(y) /\ UNCHANGED failed
         \/ FailFrom(y)
      /\ UNCHANGED <<mode, socket, payloads, writing>>

-----------------------------------------------------------------------------
\* The client's socket is destroyed ...
Destroy ==
  /\ socket = "open"
  /\ socket' = "destroyed"
  /\ UNCHANGED <<mode, closure, caller, payloads, writing, failed>>

\* ... and 'close' is emitted: to onDisconnect, if it is listening.
CloseEvent ==
  /\ socket = "destroyed"
  /\ socket' = "closed"
  /\ IF mode = "stream" /\ closure.upstream # "none" THEN CleanUpFrom(closure)
     ELSE UNCHANGED <<closure, caller>>
  /\ UNCHANGED <<mode, payloads, writing, failed>>

\* 'end' of the request while the client is there, or a call of the cleanup that a
\* payload was handed back with: the exchange is cleaned up.
RequestEnds ==
  /\ socket = "open" /\ mode = "stream" /\ closure.upstream # "none"
  /\ CleanUpFrom(closure)
  /\ UNCHANGED <<mode, socket, payloads, writing, failed>>

\* The response has been sent, 'finish' is emitted and the socket may be reused.
Finish ==
  /\ socket = "open" /\ mode = "stream"
  /\ closure.ended # 0 \/ caller = "completed"
  /\ CleanUpFrom(closure)
  /\ socket' = "closed"
  /\ UNCHANGED <<mode, payloads, writing, failed>>

\* The caller unsubscribes, which runs the teardown.
Unsubscribe ==
  /\ caller = "open" /\ mode = "stream"
  /\ closure' = Cleanup(closure)
  /\ caller' = "unsubscribed"
  /\ UNCHANGED <<mode, socket, payloads, writing, failed>>

ResponseNext ==
  \/ Intercept \/ Json \/ DropPayload
  \/ ObservablePayload \/ MessagePayload \/ PlainPayload \/ ListPayload
  \/ WriteItems \/ UpstreamError \/ UpstreamComplete \/ InnerNext \/ InnerEnds
  \/ Destroy \/ CloseEvent \/ RequestEnds \/ Finish \/ Unsubscribe

ResponseSpec == ResponseInit /\ [][ResponseNext]_responseVars

-----------------------------------------------------------------------------
\* Payload n's resource of kind k has been replaced by that of a later payload:
\* nothing in the closure refers to it any more.
Replaced(k, n) == k # "timers" /\ n < closure.ref[k]

Released ==
  /\ closure.upstream # "subscribed"
  /\ \A k \in Kinds: \A n \in closure.open[k]: Replaced(k, n)

\* Once a client is gone, whatever the exchange was doing at that moment, the
\* handler's Observable, every timer, and the latest cursor, request, inner
\* Observable and file are let go of for good: no late payload, message or write
\* takes one up again. What a later payload replaced is not among them.
ReleasedWhenGone == (Gone /\ mode = "stream") ~> []Released

\* "On client disconnect (`request.on('close')`), cleans up all associated
\* resources", the replaced ones included.
AllReleased ==
  socket = "closed" /\ mode = "stream" => \A k \in Kinds: closure.open[k] = {}

\* The end the caller sees is the one the handler met: a stream that failed is
\* not completed ("cleans up resources on stream error" expects the error).
ErrorReachesCaller == failed => caller # "completed"
=============================================================================
