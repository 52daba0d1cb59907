-------------------------- MODULE ServerConnection --------------------------
(***************************************************************************)
(* One connection of the Go provider server (provider/server.go and        *)
(* provider/subscription.go): serve with its reader, its writer, one       *)
(* goroutine per request and one per started subscription.                 *)
(*                                                                         *)
(* A request is read, given a slot and an entry of `active', executed, and *)
(* answered through the control queue; what it prepared is committed once  *)
(* the response is flushed and rolled back otherwise.  What a mutation     *)
(* records is the subject of MutationLedger, what a terminal stream may    *)
(* send that of TerminalFlow.                                              *)
(***************************************************************************)
EXTENDS Integers, Sequences, FiniteSets

CONSTANTS
    Requests,             \* requests a client may send
    Workloads,            \* sets of requests it sends on one connection
    Kind,                 \* request -> initialize, query, subscribe, unsubscribe, shutdown
    RequestID,            \* request -> its JSON-RPC ID; a client may repeat one
    Stream,               \* request -> terminal stream it subscribes to, or None
    SubscriptionIDs,      \* the IDs providers give to subscriptions
    None,
    MaxInFlightRequests, MaxSubscriptions, MaxOutboundQueue,
    MaxFrames,            \* bound: notifications of a subscription
    MaxHeartbeats         \* bound: heartbeats

IDs == {RequestID[r] : r \in Requests}
Streams == {Stream[r] : r \in Requests} \ {None}
Heartbeat == "heartbeat"

ASSUME ConnectionAssumption ==
    /\ Kind \in [Requests -> {"initialize", "query", "subscribe", "unsubscribe", "shutdown"}]
    /\ Workloads \subseteq SUBSET Requests
    /\ IsFiniteSet(Requests) /\ None \notin Requests
    /\ {Heartbeat, "reading", "ended", "top", "select", "notifying"} \cap Requests = {}
    /\ {MaxInFlightRequests, MaxSubscriptions, MaxOutboundQueue} \subseteq Nat \ {0}
    /\ {MaxFrames, MaxHeartbeats} \subseteq Nat

VARIABLES
    reader,            \* readLoop: "reading", "ended" or the request it refuses
    up,                \* the connection's context is live
    closing,
    writer,            \* writeLoop: top, select, ended, or what it writes: the response
                       \* to a request, or a notification
    control, data,     \* outbound queues
    active,            \* request ID -> the request it belongs to
    slots,             \* the semaphore of in-flight requests
    pc, reply, frame,  \* request -> where it is, its answer, what became of it
    cancelled,         \* requests cancelled by $mc/cancel
    initialized, initializing, negotiated,
    subscriptions,     \* count of subscriptions
    terminalStreams,   \* stream -> its admission
    subscriptionCancels, \* subscription ID -> its admission
    admission,         \* request -> none, open (reserved), streaming, closed
    ended,             \* admissions whose lifetime was cancelled
    sent               \* notifications published, per subscription and heartbeat

loops == <<reader, up, closing>>
queues == <<writer, control, data>>
requests == <<active, slots, pc, reply, frame, cancelled>>
negotiation == <<initialized, initializing, negotiated>>
admissions == <<subscriptions, terminalStreams, subscriptionCancels, admission, ended>>
vars == <<loops, queues, requests, negotiation, admissions, sent>>

\* A workload without initialize starts on an initialized connection.
Init ==
    /\ reader = "reading" /\ up = TRUE /\ closing = FALSE
    /\ writer = "top" /\ control = <<>> /\ data = <<>>
    /\ active = [i \in IDs |-> None] /\ slots = 0
    /\ \E sending \in Workloads :
        /\ pc = [r \in Requests |-> IF r \in sending THEN "unsent" ELSE "done"]
        /\ initialized = \A r \in sending : Kind[r] # "initialize"
    /\ reply = [r \in Requests |-> "none"]
    /\ frame = [r \in Requests |-> "none"]
    /\ cancelled = {}
    /\ initializing = FALSE /\ negotiated = initialized
    /\ subscriptions = 0
    /\ terminalStreams = [s \in Streams |-> None]
    /\ subscriptionCancels = [s \in SubscriptionIDs |-> None]
    /\ admission = [r \in Requests |-> "none"]
    /\ ended = {}
    /\ sent = [r \in Requests \cup {Heartbeat} |-> 0]

CtxDone(r) == r \in cancelled \/ ~up
HasAction(r) == reply[r] = "ok" /\ Kind[r] # "query"
Goto(r, label) == pc' = [pc EXCEPT ![r] = label]
ReplyWith(r, what) == reply' = [reply EXCEPT ![r] = what] /\ Goto(r, "respond")
Clear(map, r) == [k \in DOMAIN map |-> IF map[k] = r THEN None ELSE map[k]]

-----------------------------------------------------------------------------
(* The reader *)

\* readLoop reads a request: refused while closing, for an ID in use and for
\* want of a slot; otherwise a goroutine is started.  With the connection's
\* context done, the select may choose to stop instead.
Read(r) ==
    /\ reader = "reading" /\ pc[r] = "unsent"
    /\ LET free == ~closing /\ active[RequestID[r]] = None
           admit == free /\ slots < MaxInFlightRequests
       IN \/ /\ admit
             /\ active' = [active EXCEPT ![RequestID[r]] = r] /\ slots' = slots + 1
             /\ Goto(r, "execute") /\ UNCHANGED reader
          \/ /\ ~admit /\ (free => up)
             /\ Goto(r, "refused") /\ reader' = r
             /\ UNCHANGED <<active, slots>>
          \/ /\ free /\ ~up
             /\ Goto(r, "refused") /\ reader' = "ended"
             /\ UNCHANGED <<active, slots>>
    /\ UNCHANGED <<up, closing, queues, reply, frame, cancelled, negotiation,
                   admissions, sent>>

\* sendError: the reader waits for room in the control queue.  It ends with the
\* context, or when the error itself does not fit the envelope.
SendError(r) ==
    /\ reader = r
    /\ \/ /\ Len(control) < MaxOutboundQueue
          /\ control' = Append(control, r) /\ reader' = "reading"
          /\ reply' = [reply EXCEPT ![r] = "error"]
          /\ frame' = [frame EXCEPT ![r] = "queued"]
       \/ reader' = "ended" /\ UNCHANGED <<control, reply, frame>>
    /\ UNCHANGED <<up, closing, writer, data, active, slots, pc, cancelled,
                   negotiation, admissions, sent>>

\* A $mc/cancel notification for an active request.
CancelRequest(i) ==
    /\ reader = "reading" /\ active[i] # None /\ active[i] \notin cancelled
    /\ cancelled' = cancelled \cup {active[i]}
    /\ UNCHANGED <<loops, queues, active, slots, pc, reply, frame, negotiation, admissions,
                   sent>>

\* End of input, a malformed frame, or a notification that is not accepted.
ReaderEnds ==
    /\ reader = "reading"
    /\ reader' = "ended"
    /\ UNCHANGED <<up, closing, queues, requests, negotiation, admissions, sent>>

-----------------------------------------------------------------------------
(* Subscription admissions *)

\* cleanup, once per admission: cancel its lifetime, forget it, release its place.
Cleanup(r) ==
    IF admission[r] \in {"none", "closed"} THEN UNCHANGED admissions
    ELSE /\ admission' = [admission EXCEPT ![r] = "closed"]
         /\ ended' = ended \cup {r}
         /\ terminalStreams' = Clear(terminalStreams, r)
         /\ subscriptionCancels' = Clear(subscriptionCancels, r)
         /\ subscriptions' = IF subscriptions > 0 THEN subscriptions - 1 ELSE subscriptions

MayAdmit(r) ==
    /\ ~closing /\ subscriptions < MaxSubscriptions
    /\ Stream[r] # None => terminalStreams[Stream[r]] = None

\* beginSubscription and beginTerminalSubscription.
BeginSubscription(r) ==
    /\ MayAdmit(r)
    /\ subscriptions' = subscriptions + 1
    /\ terminalStreams' = IF Stream[r] = None THEN terminalStreams
                          ELSE [terminalStreams EXCEPT ![Stream[r]] = r]
    /\ admission' = [admission EXCEPT ![r] = "open"]
    /\ UNCHANGED <<subscriptionCancels, ended>>

-----------------------------------------------------------------------------
(* A request goroutine *)

\* Mutant: an initialized connection may be initialized again.
BeginAgain(r) ==
    IF initializing THEN ReplyWith(r, "error") /\ UNCHANGED initializing
    ELSE initializing' = TRUE /\ Goto(r, "running") /\ UNCHANGED reply

\* beginInitialization.
BeginInitialization(r) ==
    IF initialized \/ initializing THEN ReplyWith(r, "error") /\ UNCHANGED initializing
    ELSE initializing' = TRUE /\ Goto(r, "running") /\ UNCHANGED reply

\* execute, up to the call of the handler.
Execute(r) ==
    /\ pc[r] = "execute"
    /\ \/ CtxDone(r) /\ ReplyWith(r, "error") /\ UNCHANGED <<initializing, admissions>>
       \/ ~CtxDone(r) /\ Kind[r] = "initialize" /\ BeginInitialization(r) /\ UNCHANGED admissions
       \/ /\ ~CtxDone(r) /\ Kind[r] # "initialize" /\ ~initialized
          /\ ReplyWith(r, "error") /\ UNCHANGED <<initializing, admissions>>
       \/ /\ ~CtxDone(r) /\ Kind[r] = "subscribe" /\ initialized
          /\ IF MayAdmit(r) THEN BeginSubscription(r) /\ Goto(r, "running") /\ UNCHANGED reply
             ELSE ReplyWith(r, "error") /\ UNCHANGED admissions
          /\ UNCHANGED initializing
       \/ /\ ~CtxDone(r) /\ Kind[r] \notin {"initialize", "subscribe"} /\ initialized
          /\ Goto(r, "running") /\ UNCHANGED <<reply, initializing, admissions>>
    /\ UNCHANGED <<loops, queues, active, slots, frame, cancelled, initialized, negotiated, sent>>

\* The handler fails, its context ended, or its result is refused:
\* abortInitialization, or the admission's cleanup.
HandlerFails(r) ==
    /\ pc[r] = "running"
    /\ ReplyWith(r, "error")
    /\ initializing' = IF Kind[r] = "initialize" THEN FALSE ELSE initializing
    /\ Cleanup(r)
    /\ UNCHANGED <<loops, queues, active, slots, frame, cancelled, initialized, negotiated, sent>>

\* The handler succeeds.  A subscription is registered under the ID the provider
\* chose (subscriptionAdmission.prepare), which must not be in use.
HandlerSucceeds(r) ==
    /\ pc[r] = "running" /\ (Kind[r] # "initialize" => ~CtxDone(r))
    /\ ReplyWith(r, "ok")
    /\ IF Kind[r] = "subscribe"
       THEN /\ \E s \in SubscriptionIDs :
                /\ subscriptionCancels[s] = None
                /\ subscriptionCancels' = [subscriptionCancels EXCEPT ![s] = r]
            /\ UNCHANGED <<subscriptions, terminalStreams, admission, ended>>
       ELSE UNCHANGED admissions
    /\ UNCHANGED <<loops, queues, active, slots, frame, cancelled, negotiation, sent>>

\* Mutant: the rollback frees the place but leaves the maps alone.
RollbackHalf(r) ==
    /\ IF reply[r] = "ok" /\ Kind[r] = "initialize"
       THEN initialized' = FALSE /\ initializing' = FALSE /\ negotiated' = FALSE
       ELSE UNCHANGED negotiation
    /\ IF reply[r] = "ok" /\ admission[r] = "open"
       THEN /\ admission' = [admission EXCEPT ![r] = "closed"]
            /\ subscriptions' = subscriptions - 1
            /\ UNCHANGED <<terminalStreams, subscriptionCancels, ended>>
       ELSE UNCHANGED admissions

\* The rollback of an action: the initialization is undone, the admission ends.
Rollback(r) ==
    /\ IF reply[r] = "ok" /\ Kind[r] = "initialize"
       THEN initialized' = FALSE /\ initializing' = FALSE /\ negotiated' = FALSE
       ELSE UNCHANGED negotiation
    /\ IF reply[r] = "ok" THEN Cleanup(r) ELSE UNCHANGED admissions

\* Mutant: the stream starts before its response is on its way.
RespondStarts(r) ==
    /\ pc[r] = "respond"
    /\ admission' = IF HasAction(r) /\ Kind[r] = "subscribe"
                    THEN [admission EXCEPT ![r] = "streaming"] ELSE admission
    /\ Goto(r, "enqueue")
    /\ UNCHANGED <<loops, queues, active, slots, reply, frame, cancelled, negotiation,
                   subscriptions, terminalStreams, subscriptionCancels, ended, sent>>

\* processRequest builds the response.  A success whose context ended or whose
\* frame is too large is rolled back first and answered with an error; a
\* successful initialization takes effect before its response is queued.  An error
\* that does not fit the envelope either ends the connection.
Respond(r) ==
    /\ pc[r] = "respond"
    /\ \/ /\ reply[r] = "error" /\ Goto(r, "enqueue")
          /\ UNCHANGED <<up, reply, negotiation, admissions>>
       \/ /\ reply[r] = "ok" /\ Goto(r, "enqueue")
          /\ reply' = [reply EXCEPT ![r] = "error"] /\ Rollback(r) /\ UNCHANGED up
       \/ /\ reply[r] = "ok" /\ ~CtxDone(r) /\ Goto(r, "enqueue")
          /\ IF Kind[r] = "initialize"
             THEN initialized' = TRUE /\ initializing' = FALSE /\ negotiated' = TRUE
             ELSE UNCHANGED negotiation
          /\ UNCHANGED <<up, reply, admissions>>
       \/ Goto(r, "exit") /\ Rollback(r) /\ up' = FALSE /\ UNCHANGED reply
    /\ UNCHANGED <<reader, closing, queues, active, slots, frame, cancelled, sent>>

\* enqueueControl with the request's context.
Enqueue(r) ==
    /\ pc[r] = "enqueue"
    /\ \/ /\ Len(control) < MaxOutboundQueue
          /\ control' = Append(control, r) /\ frame' = [frame EXCEPT ![r] = "queued"]
          /\ Goto(r, "flushing") /\ UNCHANGED <<negotiation, admissions>>
       \/ CtxDone(r) /\ Rollback(r) /\ Goto(r, "exit") /\ UNCHANGED <<control, frame>>
    /\ UNCHANGED <<loops, writer, data, active, slots, reply, cancelled, sent>>

\* The response is on the wire: commit.  A subscription's goroutine starts, an
\* unsubscribe ends a subscription's lifetime, a shutdown closes the connection.
Committed(r) ==
    /\ pc[r] = "flushing" /\ frame[r] = "written" /\ Goto(r, "exit")
    /\ LET ok(kind) == reply[r] = "ok" /\ Kind[r] = kind IN
        /\ admission' = IF ok("subscribe") THEN [admission EXCEPT ![r] = "streaming"]
                        ELSE admission
        /\ \/ ~ok("unsubscribe") /\ UNCHANGED ended
           \/ /\ ok("unsubscribe")
              /\ \E s \in SubscriptionIDs : ended' = ended \cup ({subscriptionCancels[s]} \ {None})
        /\ closing' = (closing \/ ok("shutdown"))
        /\ up' = (up /\ ~ok("shutdown"))
    /\ UNCHANGED <<reader, queues, active, slots, reply, frame, cancelled, negotiation,
                   subscriptions, terminalStreams, subscriptionCancels, sent>>

\* The writer skipped the frame, or failed to write it, which ends the connection.
NotFlushed(r) ==
    /\ pc[r] = "flushing" /\ frame[r] \in {"skipped", "failed"} /\ Goto(r, "exit")
    /\ Rollback(r)
    /\ up' = (up /\ frame[r] = "skipped")
    /\ UNCHANGED <<reader, closing, queues, active, slots, reply, frame, cancelled, sent>>

\* Mutant: a response that is being written is waited for.
AbandonedUnlessWriting(r) ==
    /\ pc[r] = "flushing" /\ frame[r] # "writing"
    /\ ~up \/ (CtxDone(r) /\ frame[r] = "queued")
    /\ Goto(r, "exit") /\ Rollback(r)
    /\ up' = (up /\ ~HasAction(r))
    /\ UNCHANGED <<reader, closing, queues, active, slots, reply, frame, cancelled, sent>>

\* The context ends before the outcome of the write is known: with an action at
\* stake the response may or may not arrive, so the connection is ended.  Once the
\* connection is over, the select may also pass over a response that was written.
Abandoned(r) ==
    /\ pc[r] = "flushing"
    /\ ~up \/ (CtxDone(r) /\ frame[r] \in {"queued", "writing"})
    /\ Goto(r, "exit") /\ Rollback(r)
    /\ up' = (up /\ ~HasAction(r))
    /\ UNCHANGED <<reader, closing, queues, active, slots, reply, frame, cancelled, sent>>

\* releaseRequest, then the slot and the wait group.
Exit(r) ==
    /\ pc[r] = "exit"
    /\ Goto(r, "done")
    /\ active' = [active EXCEPT ![RequestID[r]] = None] /\ slots' = slots - 1
    /\ UNCHANGED <<loops, queues, reply, frame, cancelled, negotiation, admissions, sent>>

-----------------------------------------------------------------------------
(* Subscriptions and the heartbeat *)

\* A started subscription publishes through the data queue.
PublishNotification(r) ==
    /\ admission[r] = "streaming" /\ sent[r] < MaxFrames /\ Len(data) < MaxOutboundQueue
    /\ data' = Append(data, r) /\ sent' = [sent EXCEPT ![r] = @ + 1]
    /\ UNCHANGED <<loops, writer, control, requests, negotiation, admissions>>

\* Its channel is closed or its lifetime is over; or it yields an invalid value,
\* or waits to publish when the connection ends, which cancels the connection.
SubscriptionEnds(r) ==
    /\ admission[r] = "streaming"
    /\ Cleanup(r)
    /\ up' \in {up, FALSE}
    /\ UNCHANGED <<reader, closing, queues, requests, negotiation, sent>>

\* startHeartbeat: a heartbeat that finds the data queue full is dropped.
SendHeartbeat ==
    /\ up /\ initialized /\ sent[Heartbeat] < MaxHeartbeats
    /\ sent' = [sent EXCEPT ![Heartbeat] = @ + 1]
    /\ data' = IF Len(data) < MaxOutboundQueue THEN Append(data, Heartbeat) ELSE data
    /\ UNCHANGED <<loops, writer, control, requests, negotiation, admissions>>

-----------------------------------------------------------------------------
(* The writer and serve *)

\* A response skipped because its request's context is done; the frames of
\* refusals have no context.
Skipped(r) == pc[r] # "refused" /\ CtxDone(r)

\* writeLoop takes a frame, control frames first; its second select takes
\* whatever is ready.
TakeControl ==
    /\ writer \in {"top", "select"} /\ control # <<>>
    /\ LET r == Head(control) IN
        /\ control' = Tail(control)
        /\ writer' = IF Skipped(r) THEN "top" ELSE r
        /\ frame' = [frame EXCEPT ![r] = IF Skipped(r) THEN "skipped" ELSE "writing"]
    /\ UNCHANGED <<loops, data, active, slots, pc, reply, cancelled, negotiation, admissions, sent>>

FallThrough ==
    /\ writer = "top" /\ control = <<>>
    /\ writer' = "select"
    /\ UNCHANGED <<loops, control, data, requests, negotiation, admissions, sent>>

TakeData ==
    /\ writer = "select" /\ data # <<>>
    /\ data' = Tail(data)
    /\ writer' = "notifying"
    /\ UNCHANGED <<loops, control, requests, negotiation, admissions, sent>>

\* The write of a notification ends; an error ends the writer.
NotificationWritten ==
    /\ writer = "notifying"
    /\ writer' \in {"top", "ended"}
    /\ UNCHANGED <<loops, control, data, requests, negotiation, admissions, sent>>

\* The write of a response ends; an error ends the writer.
Written(r) ==
    /\ writer = r /\ r \in Requests
    /\ \/ writer' = "top" /\ frame' = [frame EXCEPT ![r] = "written"]
       \/ writer' = "ended" /\ frame' = [frame EXCEPT ![r] = "failed"]
    /\ UNCHANGED <<loops, control, data, active, slots, pc, reply, cancelled, negotiation,
                   admissions, sent>>

WriterEnds ==
    /\ writer = "select" /\ ~up
    /\ writer' = "ended"
    /\ UNCHANGED <<loops, control, data, requests, negotiation, admissions, sent>>

\* The caller of Serve cancels its context.
ContextEnds ==
    /\ up /\ up' = FALSE
    /\ UNCHANGED <<reader, closing, queues, requests, negotiation, admissions, sent>>

\* serve: the reader ended, so everything is cancelled.  Serve then waits for its
\* requests and its writer, up to the shutdown timeout, and changes nothing that
\* they see; after a timeout they are still running when it returns.
StopServing ==
    /\ reader = "ended" /\ up /\ up' = FALSE
    /\ UNCHANGED <<reader, closing, queues, requests, negotiation, admissions, sent>>

-----------------------------------------------------------------------------
RequestStep(r) ==
    \/ Read(r) \/ SendError(r) \/ Execute(r) \/ HandlerFails(r) \/ HandlerSucceeds(r)
    \/ Respond(r) \/ Enqueue(r) \/ Committed(r) \/ NotFlushed(r) \/ Abandoned(r) \/ Exit(r)
    \/ PublishNotification(r) \/ SubscriptionEnds(r) \/ Written(r)
Next ==
    \/ \E r \in Requests : RequestStep(r)
    \/ \E i \in IDs : CancelRequest(i)
    \/ ReaderEnds \/ SendHeartbeat
    \/ TakeControl \/ FallThrough \/ TakeData \/ NotificationWritten \/ WriterEnds
    \/ ContextEnds \/ StopServing
Spec == Init /\ [][Next]_vars

\* Goroutines make progress, handlers return, and a subscription's goroutine ends
\* once its lifetime is over.  Nothing is assumed of the client, of cancellations
\* or of the transport: a write may fail, and it may never end when the client
\* stops reading.
Fairness ==
    /\ \A r \in Requests :
        /\ WF_vars(Execute(r)) /\ WF_vars(HandlerFails(r) \/ HandlerSucceeds(r))
        /\ WF_vars(Respond(r)) /\ WF_vars(Enqueue(r)) /\ WF_vars(Exit(r))
        /\ WF_vars(Committed(r) \/ NotFlushed(r) \/ Abandoned(r))
        /\ WF_vars((r \in ended \/ ~up) /\ SubscriptionEnds(r))
    /\ WF_vars(TakeControl) /\ WF_vars(FallThrough) /\ WF_vars(TakeData) /\ WF_vars(StopServing)
FairSpec == Spec /\ Fairness

-----------------------------------------------------------------------------
(* Properties *)

InFlight == {r \in Requests : pc[r] \notin {"unsent", "refused", "done"}}
Admitted == {r \in Requests : admission[r] \in {"open", "streaming"}}

\* Types, and the capacity of the two outbound queues.
TypeOK ==
    /\ reader \in {"reading", "ended"} \cup Requests
    /\ {up, closing, initialized, initializing, negotiated} \subseteq BOOLEAN
    /\ writer \in {"top", "select", "notifying", "ended"} \cup Requests
    /\ control \in Seq(Requests) /\ Len(control) <= MaxOutboundQueue
    /\ data \in Seq(Requests \cup {Heartbeat}) /\ Len(data) <= MaxOutboundQueue
    /\ reply \in [Requests -> {"none", "ok", "error"}]
    /\ frame \in [Requests -> {"none", "queued", "writing", "written", "skipped", "failed"}]
    /\ ended \cup cancelled \subseteq Requests

\* The semaphore counts the running request goroutines, never more than
\* MaxInFlightRequests, and `active' names exactly those, each under its own ID
\* (reserveRequest, releaseRequest and the slot on every path of readLoop).
RequestsAccounted ==
    /\ slots = Cardinality(InFlight) /\ slots <= MaxInFlightRequests
    /\ \A i \in IDs : active[i] # None => active[i] \in InFlight
    /\ \A r \in InFlight : active[RequestID[r]] = r

\* Every place of MaxSubscriptions is held by an admission that is still open,
\* every open one is held by its request or by its goroutine, and the two maps
\* name open admissions only, one per stream: no path through execute, prepare,
\* commit or rollback leaks or releases twice.
AdmissionsAccounted ==
    /\ subscriptions = Cardinality(Admitted) /\ subscriptions <= MaxSubscriptions
    /\ \A r \in Admitted :
        /\ admission[r] = "open" => pc[r] \in {"running", "respond", "enqueue", "flushing"}
        /\ Stream[r] # None => terminalStreams[Stream[r]] = r
    /\ \A s \in Streams : terminalStreams[s] \in Admitted \cup {None}
    /\ \A s \in SubscriptionIDs : subscriptionCancels[s] \in Admitted \cup {None}

\* A notification of a subscription is queued only after the response that names
\* the subscription is on the wire (commit after flush).
ResponseBeforeStream ==
    \A r \in Requests : sent[r] > 0 => frame[r] = "written" /\ reply[r] = "ok"

\* Once the client has been sent a successful initialize response, the connection
\* stays initialized with the negotiated limits for as long as it is open, and no
\* second initialization succeeds.
NegotiationStable ==
    LET done == {r \in Requests : Kind[r] = "initialize" /\ reply[r] = "ok" /\ frame[r] = "written"}
    IN /\ up /\ done # {} => initialized /\ negotiated
       /\ Cardinality(done) <= 1

\* A request that was accepted comes to an end, whatever is cancelled and however
\* the transport's writes go.  It waits for ever only on a connection that stays
\* open, when nobody cancels it and the writer has died (writeLoop returns its error
\* to serve, which does not look before it stops) or sits in a write that does not
\* end: the wait for the flush has no other way out (processRequest).
Serving == up /\ reader # "ended"
RequestsFinish ==
    \A r \in Requests :
        <>[](r \notin InFlight \/ (Serving /\ r \notin cancelled /\ writer \notin {"top", "select"}))

\* No admission outlives its connection for ever, blocked writer or not.
AdmissionsEnd == <>[](Serving \/ Admitted = {})

\* docs/provider-authoring.md: initialization completes before any other
\* capability is accepted.  A request other than initialize is answered with
\* success only on a connection whose initialize was answered with success.
InitializationFirst ==
    (\E r \in Requests : Kind[r] # "initialize" /\ reply[r] = "ok" /\ frame[r] = "written") =>
        \E r \in Requests : Kind[r] = "initialize" /\ reply[r] = "ok" /\ frame[r] = "written"

\* What the connection counts is what exists: slots, active IDs, places and both
\* maps, within their types and limits, on every path of readLoop, processRequest
\* and subscription.go.
PlacesAccounted == TypeOK /\ RequestsAccounted /\ AdmissionsAccounted

\* A connection winds down: its requests finish and its admissions end once it is
\* over, even when a write to the client never returns (serve's drain), and its
\* requests finish before that unless the writer is lost to them.
WindsDown == RequestsFinish /\ AdmissionsEnd
=============================================================================
