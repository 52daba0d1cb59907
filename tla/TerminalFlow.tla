---------------------------- MODULE TerminalFlow ----------------------------
(***************************************************************************)
(* Flow control of one established terminal stream between the Go server   *)
(* (provider/subscription.go) and the Go client (provider/client.go).      *)
(*                                                                         *)
(* Both ends keep a window: the bytes that may still be sent, and the      *)
(* offset reached.  The server's producer goroutine takes a chunk from the *)
(* provider, admits it against its window, waits for credit when it does   *)
(* not fit, and publishes it through the data queue.  The client accounts  *)
(* for what it reads and sends credit, which both ends check against the   *)
(* offset they have reached.  Any rejection ends the whole connection;     *)
(* `fault' says which one did, of those that are this stream's doing or    *)
(* the client's queue being full.                                          *)
(*                                                                         *)
(* The data queue and the client's two queues are shared with heartbeats,  *)
(* events, topology snapshots and the chunks of other streams, which are   *)
(* all alike here: other notifications.                                    *)
(***************************************************************************)
EXTENDS Integers, Sequences, FiniteSetsExt

CONSTANTS
    Sizes,              \* sizes of the chunks the provider produces
    Declarations,       \* values the provider may declare as CreditRemaining
    MaxOutboundQueue,   \* capacity of the data queue and of notificationInput
    MaxChunks,          \* bound: chunks the provider produces
    MaxOthers,          \* bound: other notifications of the connection
    Applications        \* [window, does]: TerminalSubscribeRequest.WindowBytes and
                        \* what the provider and the client's application may do,
                        \*   "eager": credit as soon as the window is not full
                        \*   "truncate": the provider skips output it has lost
                        \*   "end": the provider closes its channel
                        \*   "detach": the client detaches
                        \*   "share": the connection carries other notifications

ASSUME FlowAssumption ==
    /\ Sizes \subseteq Nat \ {0} /\ Sizes # {}
    /\ Declarations \subseteq Nat
    /\ MaxOutboundQueue \in Nat \ {0}
    /\ MaxChunks \in Nat /\ MaxOthers \in Nat
    /\ \A a \in Applications :
        /\ a.window \in Nat
        /\ a.does \subseteq {"eager", "truncate", "end", "detach", "share"}

VARIABLES
    app,                \* the applications at the two ends of this stream
    server, client,     \* the two flows: remaining, throughOffset, sequence
    admitted,           \* the stream is in subscriptionCancels
    lifetime,           \* the admission's context has not been cancelled
    producer,           \* where the producer goroutine is
    chunk,              \* the chunk it holds
    control, data,      \* the server's outbound queues
    writer,             \* writeLoop: at its first select, or at the second
    toClient, toServer, \* the transport
    detach,             \* progress of terminal.detach
    flow,               \* the client's flow: active, acked or retired
    inbox,              \* notificationInput: 1 for a chunk of this stream, 0 for another
    unread,             \* notifications the application has not taken yet, likewise
    pulled,             \* chunks taken from the provider
    others,             \* other notifications published
    fault               \* why the connection ended

serverVars == <<app, server, admitted, lifetime, producer, chunk, pulled>>
queueVars == <<control, data, writer, others>>
clientVars == <<client, flow, inbox, unread>>
vars == <<serverVars, queueVars, clientVars, toClient, toServer, detach, fault>>

WindowBytes == app.window
allowed == app.does

NoChunk == [offset |-> 0, size |-> 0, sequence |-> 0, truncated |-> FALSE, credit |-> 0]
NewFlow == [remaining |-> WindowBytes, through |-> 0, sequence |-> 0]

Init ==
    /\ app \in Applications
    /\ server = NewFlow /\ client = NewFlow
    /\ admitted = TRUE /\ lifetime = TRUE
    /\ producer = "idle" /\ chunk = NoChunk
    /\ control = <<>> /\ data = <<>> /\ writer = "top"
    /\ toClient = <<>> /\ toServer = <<>>
    /\ detach = "none" /\ flow = "active" /\ inbox = <<>> /\ unread = <<>>
    /\ pulled = 0 /\ others = 0 /\ fault = "none"

Live == fault = "none"

-----------------------------------------------------------------------------
(* The server's producer goroutine *)

\* The provider's next chunk.  A gap in its output shows in the offset and in
\* the sequence number; only a truncated chunk may have one.  The provider also
\* has to declare the credit that will remain, which it cannot observe.
Produce ==
    /\ Live /\ producer = "idle" /\ pulled < MaxChunks
    /\ \E n \in Sizes, k \in Declarations, gap \in {0, 1},
          cut \in IF "truncate" \in allowed THEN BOOLEAN ELSE {FALSE} :
        chunk' = [offset |-> server.through + gap, size |-> n,
                  sequence |-> server.sequence + 1 + gap, truncated |-> cut, credit |-> k]
    /\ producer' = "consume" /\ pulled' = pulled + 1
    /\ UNCHANGED <<app, server, admitted, lifetime, queueVars, clientVars, toClient, toServer,
                   detach, fault>>

\* The channel is closed, or the lifetime is over: the goroutine ends and its
\* deferred cleanup removes the admission.  The client is not told.
ProducerEnds ==
    /\ Live /\ producer = "idle" /\ ("end" \in allowed \/ ~lifetime)
    /\ producer' = "ended" /\ admitted' = FALSE /\ lifetime' = FALSE
    /\ UNCHANGED <<app, server, chunk, pulled, queueVars, clientVars, toClient, toServer,
                   detach, fault>>

\* A chunk continues a flow: at its offset or, truncated, beyond it; and with
\* the next sequence number, which a truncated chunk may skip too.
Continues(c, f) ==
    /\ c.offset = f.through \/ (c.truncated /\ c.offset >= f.through)
    /\ f.sequence = 0 \/ c.sequence = f.sequence + 1 \/ c.truncated

After(c, f) == [remaining |-> f.remaining - c.size, through |-> c.offset + c.size,
                sequence |-> c.sequence]

\* terminalFlow.consume under the flow's lock.  The offset of a truncated chunk
\* is taken over before its size is compared with the window.
Consume ==
    /\ Live /\ producer = "consume"
    /\ \/ /\ ~Continues(chunk, server)
          /\ fault' = "provider" /\ UNCHANGED <<server, producer>>
       \/ /\ Continues(chunk, server) /\ chunk.size > server.remaining
          /\ server' = [server EXCEPT !.through = chunk.offset]
          /\ producer' = "blocked" /\ UNCHANGED fault
       \/ /\ Continues(chunk, server) /\ chunk.size <= server.remaining
          /\ server' = After(chunk, server)
          /\ producer' = "publish"
          /\ fault' = IF chunk.credit # server'.remaining THEN "provider" ELSE fault
    /\ UNCHANGED <<app, admitted, lifetime, chunk, pulled, queueVars, clientVars, toClient,
                   toServer, detach>>

\* The lifetime ends while consume waits for credit: an error like any other.
ConsumeCancelled ==
    /\ Live /\ producer = "blocked" /\ ~lifetime
    /\ fault' = "detach"
    /\ UNCHANGED <<serverVars, queueVars, clientVars, toClient, toServer, detach>>

\* publish and enqueueDataWait: the producer waits for room in the data queue.
Publish ==
    /\ Live /\ producer = "publish" /\ Len(data) < MaxOutboundQueue
    /\ data' = Append(data, chunk)
    /\ producer' = "idle" /\ chunk' = NoChunk
    /\ UNCHANGED <<app, server, admitted, lifetime, pulled, control, writer, clientVars,
                   toClient, toServer, detach, others, fault>>

\* publish of another subscription, which waits for room likewise, and sendHeartbeat,
\* whose enqueueData gives the heartbeat up when there is none.
PublishOther ==
    /\ Live /\ "share" \in allowed /\ others < MaxOthers /\ Len(data) < MaxOutboundQueue
    /\ data' = Append(data, [type |-> "other"]) /\ others' = others + 1
    /\ UNCHANGED <<serverVars, control, writer, clientVars, toClient, toServer, detach, fault>>

-----------------------------------------------------------------------------
(* The server's writer and reader *)

\* writeLoop prefers control frames in its first select; the second takes
\* whichever queue is ready.
WriteControl ==
    /\ Live /\ control # <<>>
    /\ toClient' = Append(toClient, Head(control))
    /\ control' = Tail(control) /\ writer' = "top"
    /\ detach' = "written"
    /\ UNCHANGED <<serverVars, clientVars, data, toServer, others, fault>>

WriterFallsThrough ==
    /\ Live /\ writer = "top" /\ control = <<>>
    /\ writer' = "select"
    /\ UNCHANGED <<serverVars, clientVars, control, data, toClient, toServer, detach, others, fault>>

WriteData ==
    /\ Live /\ writer = "select" /\ data # <<>>
    /\ toClient' = Append(toClient, Head(data))
    /\ data' = Tail(data) /\ writer' = "top"
    /\ UNCHANGED <<serverVars, clientVars, control, toServer, detach, others, fault>>

\* Mutant: the credit does not wake a producer that waits for it.
AddCreditNoWake(credit) ==
    IF credit.through # server.through \/ credit.bytes > WindowBytes - server.remaining
    THEN fault' = "credit" /\ UNCHANGED <<server, producer>>
    ELSE /\ server' = [server EXCEPT !.remaining = @ + credit.bytes]
         /\ UNCHANGED <<producer, fault>>

\* terminalFlow.addCredit: the credit must name the offset the server reached.
AddCredit(credit) ==
    IF credit.through # server.through \/ credit.bytes > WindowBytes - server.remaining
    THEN fault' = "credit" /\ UNCHANGED <<server, producer>>
    ELSE /\ server' = [server EXCEPT !.remaining = @ + credit.bytes]
         /\ producer' = IF producer = "blocked" THEN "consume" ELSE producer
         /\ UNCHANGED fault

\* readLoop and handleNotification: credit is applied on the reader, and an
\* error ends the connection.
ReadCredit ==
    /\ Live /\ toServer # <<>> /\ Head(toServer).type = "credit"
    /\ IF admitted THEN AddCredit(Head(toServer))
       ELSE fault' = "credit" /\ UNCHANGED <<server, producer>>
    /\ toServer' = Tail(toServer)
    /\ UNCHANGED <<app, admitted, lifetime, chunk, pulled, queueVars, clientVars, toClient, detach>>

\* terminal.detach: the request runs in a goroutine, its response goes through
\* the control queue, and the admission is cancelled once it is flushed.
ReadDetach ==
    /\ Live /\ toServer # <<>> /\ Head(toServer).type = "detach"
    /\ toServer' = Tail(toServer) /\ detach' = "handling"
    /\ UNCHANGED <<serverVars, queueVars, clientVars, toClient, fault>>

RespondDetach ==
    /\ Live /\ detach = "handling"
    /\ control' = Append(control, [type |-> "detached"]) /\ detach' = "queued"
    /\ UNCHANGED <<serverVars, data, writer, clientVars, toClient, toServer, others, fault>>

CommitDetach ==
    /\ Live /\ detach = "written"
    /\ detach' = "committed" /\ lifetime' = FALSE
    /\ UNCHANGED <<app, server, admitted, producer, chunk, pulled, queueVars, clientVars,
                   toClient, toServer, fault>>

-----------------------------------------------------------------------------
(* The client *)

IsChunk(m) == "size" \in DOMAIN m

\* Mutant: the window is not charged when the chunk is read.
ReadChunkFree ==
    /\ Live /\ toClient # <<>> /\ IsChunk(Head(toClient)) /\ Len(inbox) < MaxOutboundQueue
    /\ client' = [After(Head(toClient), client) EXCEPT !.remaining = client.remaining]
    /\ inbox' = Append(inbox, 1) /\ toClient' = Tail(toClient)
    /\ UNCHANGED <<serverVars, queueVars, flow, unread, toServer, detach, fault>>

\* readLoop, consumeTerminalChunk and clientTerminalFlow.consume: the chunk must
\* continue the client's own flow and agree on the credit left; then it is queued
\* for the application, and a full queue ends the connection too.
ReadChunk ==
    /\ Live /\ toClient # <<>> /\ IsChunk(Head(toClient))
    /\ LET c == Head(toClient)
           fits == /\ Continues(c, client) /\ c.size <= client.remaining
                   /\ c.credit = client.remaining - c.size
       IN \/ flow = "retired" /\ fault' = "late" /\ UNCHANGED <<client, inbox>>
          \/ flow # "retired" /\ ~fits /\ fault' = "chunk" /\ UNCHANGED <<client, inbox>>
          \/ /\ flow # "retired" /\ fits
             /\ client' = After(c, client)
             /\ IF Len(inbox) < MaxOutboundQueue THEN inbox' = Append(inbox, 1) /\ UNCHANGED fault
                ELSE fault' = "overflow" /\ UNCHANGED inbox
    /\ toClient' = Tail(toClient)
    /\ UNCHANGED <<serverVars, queueVars, flow, unread, toServer, detach>>

IsOther(m) == m = [type |-> "other"]

\* readLoop, for any other notification: it needs a place in the same queue.
ReadOther ==
    /\ Live /\ toClient # <<>> /\ IsOther(Head(toClient))
    /\ IF Len(inbox) < MaxOutboundQueue THEN inbox' = Append(inbox, 0) /\ UNCHANGED fault
       ELSE fault' = "crowded" /\ UNCHANGED inbox
    /\ toClient' = Tail(toClient)
    /\ UNCHANGED <<serverVars, queueVars, client, flow, unread, toServer, detach>>

\* notificationLoop moves a notification to the application's channel; it can
\* hold one while that channel is full.
NotificationLoop ==
    /\ Live /\ inbox # <<>> /\ Len(unread) <= MaxOutboundQueue
    /\ unread' = Append(unread, Head(inbox)) /\ inbox' = Tail(inbox)
    /\ UNCHANGED <<serverVars, queueVars, client, flow, toClient, toServer, detach, fault>>

TakeNotification ==
    /\ Live /\ unread # <<>>
    /\ unread' = Tail(unread)
    /\ UNCHANGED <<serverVars, queueVars, client, flow, inbox, toClient, toServer, detach,
                   fault>>

SumOf(v) ==
    LET upTo[i \in 0..Len(v)] == IF i = 0 THEN 0 ELSE upTo[i - 1] + v[i]
    IN upTo[Len(v)]

\* Mutant: the offset a credit names is not compared with the flow's.
OffsetUnchecked == TRUE

\* A credit has to name the offset the flow reached, and the application learns
\* it from the last chunk it has taken.
NamesOffset == SumOf(inbox) = 0 /\ SumOf(unread) = 0

\* A cautious application waits until no chunk can be on its way, because none
\* fits what its window has left.
Cautious == "eager" \notin allowed => client.remaining < Min(Sizes)

\* SendTerminalCredit: checked against the client's flow and written under its
\* lock, so that the flow cannot move in between.
SendTerminalCredit ==
    /\ Live /\ flow # "retired" /\ NamesOffset /\ Cautious
    /\ \E b \in 1..(WindowBytes - client.remaining) :
        /\ toServer' = Append(toServer,
               [type |-> "credit", bytes |-> b, through |-> client.through])
        /\ client' = [client EXCEPT !.remaining = @ + b]
    /\ UNCHANGED <<serverVars, queueVars, flow, inbox, unread, toClient, detach, fault>>

\* Mutate sends terminal.detach; readLoop hands its response to the caller,
\* which then retires the flow.
SendDetach ==
    /\ Live /\ "detach" \in allowed /\ detach = "none"
    /\ toServer' = Append(toServer, [type |-> "detach"]) /\ detach' = "sent"
    /\ UNCHANGED <<serverVars, queueVars, clientVars, toClient, fault>>

ReadDetached ==
    /\ Live /\ toClient # <<>> /\ Head(toClient) = [type |-> "detached"]
    /\ toClient' = Tail(toClient) /\ flow' = "acked"
    /\ UNCHANGED <<serverVars, queueVars, client, inbox, unread, toServer, detach, fault>>

RetireFlow ==
    /\ Live /\ flow = "acked"
    /\ flow' = "retired"
    /\ UNCHANGED <<serverVars, queueVars, client, inbox, unread, toClient, toServer, detach,
                   fault>>

-----------------------------------------------------------------------------
ServerStep ==
    \/ Produce \/ ProducerEnds \/ Consume \/ ConsumeCancelled \/ Publish \/ PublishOther
    \/ WriteControl \/ WriterFallsThrough \/ WriteData
    \/ ReadCredit \/ ReadDetach \/ RespondDetach \/ CommitDetach
ClientStep ==
    \/ ReadChunk \/ ReadOther \/ NotificationLoop \/ TakeNotification \/ SendTerminalCredit
    \/ SendDetach \/ ReadDetached \/ RetireFlow
Next == ServerStep \/ ClientStep
Spec == Init /\ [][Next]_vars

\* Goroutines make progress, and the application takes its notifications and
\* returns credit once its window is used up.
Fairness ==
    /\ WF_vars(Consume) /\ WF_vars(ConsumeCancelled) /\ WF_vars(Publish)
    /\ WF_vars(WriteControl) /\ WF_vars(ReadDetach) /\ WF_vars(RespondDetach)
    /\ WF_vars(CommitDetach) /\ WF_vars(ReadDetached) /\ WF_vars(RetireFlow)
    /\ WF_vars(WriterFallsThrough) /\ WF_vars(WriteData) /\ WF_vars(ReadCredit)
    /\ WF_vars(ReadChunk) /\ WF_vars(ReadOther) /\ WF_vars(NotificationLoop)
    /\ WF_vars(TakeNotification) /\ WF_vars(SendTerminalCredit)
FairSpec == Spec /\ Fairness

-----------------------------------------------------------------------------
(* Properties *)

\* The frames of a queue at some of its places, in order.
Keep(s, places) ==
    LET upTo[i \in 0..Len(s)] ==
            IF i = 0 THEN <<>> ELSE IF i \in places THEN Append(upTo[i - 1], s[i]) ELSE upTo[i - 1]
    IN upTo[Len(s)]

ChunksIn(s) == Keep(s, {i \in DOMAIN s : IsChunk(s[i])})
CreditsIn(s) == Keep(s, {i \in DOMAIN s : s[i].type = "credit"})
SizesOf(s) == SumOf([i \in DOMAIN s |-> s[i].size])
BytesOf(s) == SumOf([i \in DOMAIN s |-> s[i].bytes])

\* Chunks admitted by the server and not yet read by the client, oldest first.
InFlight == ChunksIn(toClient) \o ChunksIn(data) \o (IF producer = "publish" THEN <<chunk>> ELSE <<>>)

\* The variables have their types and every queue stays within the capacity that
\* NewClient and serve give it.
TypeOK ==
    /\ \A f \in {server, client} :
        f.remaining \in 0..WindowBytes /\ f.through \in Nat /\ f.sequence \in Nat
    /\ {admitted, lifetime} \subseteq BOOLEAN
    /\ producer \in {"idle", "consume", "blocked", "publish", "ended"}
    /\ pulled \in 0..MaxChunks /\ writer \in {"top", "select"}
    /\ Len(data) <= MaxOutboundQueue /\ Len(control) <= 1
    /\ Len(inbox) <= MaxOutboundQueue /\ Len(unread) <= MaxOutboundQueue + 1
    /\ others \in 0..MaxOthers
    /\ detach \in {"none", "sent", "handling", "queued", "written", "committed"}
    /\ flow \in {"active", "acked", "retired"}
    /\ fault \in {"none", "provider", "credit", "chunk", "detach", "late", "overflow", "crowded"}

\* No byte of the window is lost or made up: what the client believes may still
\* come is what the server may still send, plus the chunks and the credit on
\* their way (terminalFlow.consume/addCredit against clientTerminalFlow.consume
\* and sendTerminalCredit).
WindowConserved ==
    Live => client.remaining =
        server.remaining + SizesOf(InFlight) + BytesOf(CreditsIn(toServer))

\* With a cautious application the client never meets a chunk that does not fit
\* its flow: what the server's consume admitted, the client's consume accepts,
\* whatever is truncated, detached or ended meanwhile.
ClientAccepts == "eager" \notin allowed => fault # "chunk"

\* A stream never has more chunks in the client's queue than its window pays for: when
\* readLoop's non-blocking send finds the queue full, what waits there and what arrives
\* are, apart from other notifications, chunks of one window.  To overflow the queue
\* takes more other notifications than the window leaves places, whatever the
\* application does.
NeverOverflows ==
    LET crowd == Len(inbox) - SumOf(inbox) + (IF fault = "crowded" THEN 1 ELSE 0)
    IN fault \in {"overflow", "crowded"} =>
           Min(Sizes) * (MaxOutboundQueue + 1 - crowd) <= WindowBytes

\* With a cautious application, an uninterrupted stream and no detach, only a chunk that
\* the provider declared wrongly ends the connection, or a queue that overflows; with a
\* window that fits the queue, that takes another notification.
OnlyProviderFaults ==
    allowed \subseteq {"share"} =>
        \/ fault \in {"none", "provider", "crowded"}
        \/ fault = "overflow" /\ (WindowBytes <= Min(Sizes) * MaxOutboundQueue => SumOf(inbox) < Len(inbox))

\* A credit that SendTerminalCredit accepted replenishes the window: the server
\* never answers it by ending the connection.
CreditReplenishes == fault # "credit"

\* Every chunk taken from the provider reaches the client unless the connection
\* ends: a producer waiting in consume is woken by the credit it waits for.  An
\* application that credits only a used-up window can starve a chunk that does
\* not fit the rest of it, and a chunk larger than the window waits for ever,
\* hence the premises.
ChunksArrive ==
    ("eager" \in allowed \/ Cardinality(Sizes) = 1) /\ (\A n \in Sizes : n <= WindowBytes)
        => <>[]((producer \in {"idle", "ended"} /\ InFlight = <<>>) \/ ~Live)

\* The two views of the window: types, queue capacities and conservation.
WindowKept == TypeOK /\ WindowConserved

\* What ends the connection is never the flow control's own doing: a cautious
\* application meets no chunk that does not fit (consume on both sides), the queue is
\* full only with more other notifications than the window leaves room for (readLoop),
\* and an uninterrupted stream meets nothing else but what the provider declared wrongly.
FaultsEarned == ClientAccepts /\ NeverOverflows /\ OnlyProviderFaults
=============================================================================
