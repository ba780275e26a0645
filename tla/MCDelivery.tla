----------------------------- MODULE MCDelivery -----------------------------
(***************************************************************************)
(* The status stream, the streamed response and the webhooks in one model. *)
(* They share no state, so every behaviour runs one of them, chosen in the *)
(* initial state.                                                          *)
(***************************************************************************)
EXTENDS StatusStream, Webhooks, StreamingInterceptor

VARIABLE part  \* the component this behaviour runs

vars == <<part, streamVars, hookVars, responseVars>>

\* A registration that never answers takes every event, another all but one.
WantsAllOrTwo ==
    [g \in Registrations |->
        IF g \in Dead THEN WebhookEvents ELSE WebhookEvents \ {"policy.oracle_key.change"}]

\* The parts that do not run are given no faults.
Init ==
    /\ part \in {"stream", "webhooks", "response"} /\ StreamInit /\ HooksInit /\ ResponseInit
    /\ part # "stream" => faults = {}
    /\ part # "webhooks" => ~databaseFails
    /\ part # "response" => mode = "json" /\ socket = "open"

Stream(A) == part = "stream" /\ A /\ UNCHANGED <<part, hookVars, responseVars>>
Hooks(A) == part = "webhooks" /\ A /\ UNCHANGED <<part, streamVars, responseVars>>
Response(A) == part = "response" /\ A /\ UNCHANGED <<part, streamVars, hookVars>>

Next == Stream(StreamNext) \/ Hooks(HooksNext) \/ Response(ResponseNext)

\* The event loop resumes every handler, Redis runs every command, every query
\* and request ends or is cut by its timeout, and the drain timer fires.
FairSpec ==
    /\ Init /\ [][Next]_vars
    /\ WF_vars(Stream(HandleRemoteEvent))
    /\ \A r \in Replicas : WF_vars(Stream(Publish(r)))
    /\ \A s \in Streams : WF_vars(Stream(Verified(s)))
    /\ \A n \in Notifications : WF_vars(Hooks(Load(n)))
    /\ \A d \in Deliveries :
         /\ WF_vars(Hooks(Succeed(d) \/ Fail(d)))
         /\ WF_vars(Hooks(Retry(d)))
    /\ WF_vars(Hooks(Drained \/ DrainTimeout))
    /\ WF_vars(Response(CloseEvent)) /\ WF_vars(Response(WriteItems))
=============================================================================
