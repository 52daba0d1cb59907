----------------------------- MODULE ClientRPC -----------------------------
(***************************************************************************)
(* The calls of the Go provider client (provider/client.go).               *)
(*                                                                         *)
(* Any number of goroutines call Initialize, Query and Mutate; each        *)
(* registers a pending request, hands its frame to the one writer          *)
(* goroutine and waits for its outcome, for its context or for the end of  *)
(* the client.  The one reader goroutine matches responses with pending    *)
(* requests.  The first failure of any of them ends the client for all.    *)
(*                                                                         *)
(* The provider at the other end is external: it answers a request it has  *)
(* received at any time, perhaps more than once, perhaps never.            *)
(***************************************************************************)
EXTENDS Integers, Sequences, FiniteSets

CONSTANTS
    Calls,                  \* calls an application may make
    Workloads,              \* sets of calls it makes on one client
    Kind,                   \* call -> initialize, query or subscribe
    MaxInFlightRequests, MaxOutboundQueue,
    MaxAnswers              \* call -> bound: responses to its request

ASSUME ClientAssumption ==
    /\ Kind \in [Calls -> {"initialize", "query", "subscribe"}]
    /\ {MaxInFlightRequests, MaxOutboundQueue} \subseteq Nat \ {0}
    /\ Workloads \subseteq SUBSET Calls /\ MaxAnswers \in [Calls -> Nat]

VARIABLES
    pc, result,        \* call -> where it is, what it returned
    ctxDone,           \* calls whose context has ended
    pending,           \* Client.pending
    outcome,           \* call -> content of its outcome channel, of capacity one
    sends,             \* call -> outcomes sent to that channel (history)
    intime,            \* calls that got a response before the client ended (history)
    ack,               \* call -> what the writer reported of its frame
    writes,            \* Client.writes
    writer, reader,    \* the two goroutines: idle, writing, delivering, failing, ended
    frame, got,        \* what the writer writes, the response the reader delivers
    closed,            \* Client.closed and done
    failing,           \* pending requests that fail still has to notify
    initialized,
    wire,              \* frames written to the provider
    answers, answered  \* responses on their way, and how many were sent

callVars == <<pc, result, ctxDone>>
table == <<pending, outcome, sends, intime>>
sending == <<ack, writes, writer, frame, wire>>
reading == <<reader, got>>
ending == <<closed, failing>>
peer == <<answers, answered>>
vars == <<callVars, table, sending, reading, ending, initialized, peer>>

Request(c) == [type |-> "request", call |-> c]
Cancel(c) == [type |-> "cancel", call |-> c]

\* A workload without initialize starts on an initialized client.
Init ==
    /\ \E making \in Workloads :
        /\ pc = [c \in Calls |-> IF c \in making THEN "idle" ELSE "done"]
        /\ initialized = \A c \in making : Kind[c] # "initialize"
    /\ result = [c \in Calls |-> "none"] /\ ctxDone = {}
    /\ pending = {} /\ outcome = [c \in Calls |-> "none"]
    /\ sends = [c \in Calls |-> 0] /\ intime = {}
    /\ ack = [c \in Calls |-> "none"] /\ writes = <<>> /\ wire = <<>>
    /\ writer = "idle" /\ frame = {} /\ reader = "idle" /\ got = {}
    /\ closed = FALSE /\ failing = {}
    /\ answers = {} /\ answered = [c \in Calls |-> 0]

Goto(c, label) == pc' = [pc EXCEPT ![c] = label]
Return(c, what, label) == result' = [result EXCEPT ![c] = what] /\ Goto(c, label)

\* fail, once: the client is closed and the pending requests are taken over.
Fail ==
    IF closed THEN UNCHANGED <<ending, pending>>
    ELSE closed' = TRUE /\ failing' = pending /\ pending' = {}

\* The outcomes that fail sends after it released the lock.
NotifyFailed(c) ==
    /\ c \in failing /\ failing' = failing \ {c}
    /\ outcome' = [outcome EXCEPT ![c] = "failed"] /\ sends' = [sends EXCEPT ![c] = @ + 1]
    /\ UNCHANGED <<callVars, pending, intime, sending, reading, closed, initialized, peer>>

-----------------------------------------------------------------------------
(* A call *)

\* callValidated up to the pending table.  Initialize has looked at `initialized'
\* before, and may go on although it has become true meanwhile.  A subscription
\* whose context ends between its first check and this one has a tail as well.
Reserve(c) ==
    LET initialization == Kind[c] = "initialize"
        ready == initialization \/ initialized
        full == Cardinality(pending) >= MaxInFlightRequests
        refuse(what) == Return(c, what, "done") /\ UNCHANGED pending
    IN /\ pc[c] = "idle"
       /\ \/ c \in ctxDone /\ refuse("failed")
          \/ /\ c \in ctxDone /\ Kind[c] = "subscribe" /\ ready
             /\ Return(c, "failed", "tail") /\ UNCHANGED pending
          \/ ~ready /\ refuse("refused")
          \/ initialization /\ initialized /\ refuse("refused")
          \/ ready /\ closed /\ refuse("failed")
          \/ ready /\ ~closed /\ full /\ refuse("refused")
          \/ /\ c \notin ctxDone /\ ready /\ ~closed /\ ~full
             /\ pending' = pending \cup {c} /\ Goto(c, "queue") /\ UNCHANGED result
       /\ UNCHANGED <<ctxDone, outcome, sends, intime, sending, reading, ending, initialized,
                      peer>>

ContextEnds(c) ==
    /\ c \notin ctxDone /\ pc[c] # "done"
    /\ ctxDone' = ctxDone \cup {c}
    /\ UNCHANGED <<pc, result, table, sending, reading, ending, initialized, peer>>

\* write: a place in the writer's queue, or the end of the context or the client.
QueueWrite(c) ==
    /\ pc[c] = "queue"
    /\ \/ /\ Len(writes) < MaxOutboundQueue
          /\ writes' = Append(writes, Request(c)) /\ Goto(c, "written")
       \/ (c \in ctxDone \/ closed) /\ Goto(c, "unwritten") /\ UNCHANGED writes
    /\ UNCHANGED <<result, ctxDone, table, ack, writer, frame, wire, reading, ending, initialized,
                   peer>>

\* write: the writer's report.  A context that ends first ends the client, since
\* part of the frame may have been written.
WriteReturns(c) ==
    /\ pc[c] = "written"
    /\ \/ ack[c] = "ok" /\ Goto(c, "await") /\ UNCHANGED <<ending, pending>>
       \/ (ack[c] = "error" \/ closed) /\ Goto(c, "unwritten") /\ UNCHANGED <<ending, pending>>
       \/ c \in ctxDone /\ Fail /\ Goto(c, "unwritten")
    /\ UNCHANGED <<result, ctxDone, outcome, sends, intime, sending, reading, initialized, peer>>

Responses == {"ok", "error"}

\* finishClientOutcome: a result may still be refused by local validation.
Take(c) ==
    \E what \in {outcome[c]} \cup (IF outcome[c] = "ok" THEN {"error"} ELSE {}) :
        Return(c, what, "tail")

\* Mutant: the failed write is reported whatever has arrived.
WriteFailedAnyway(c) ==
    /\ pc[c] = "unwritten"
    /\ Return(c, "failed", "remove")
    /\ UNCHANGED <<ctxDone, table, sending, reading, ending, initialized, peer>>

\* A write that failed: a response that has arrived all the same is kept.
WriteFailed(c) ==
    /\ pc[c] = "unwritten"
    /\ IF outcome[c] \in Responses THEN Take(c)
       ELSE Return(c, "failed", "remove")
    /\ UNCHANGED <<ctxDone, table, sending, reading, ending, initialized, peer>>

\* removePending.
RemovePending(c) ==
    /\ pc[c] = "remove" /\ Goto(c, "tail")
    /\ pending' = pending \ {c}
    /\ UNCHANGED <<result, ctxDone, outcome, sends, intime, sending, reading, ending, initialized,
                   peer>>

\* The wait for the outcome.
Outcome(c) ==
    /\ pc[c] = "await" /\ outcome[c] # "none" /\ Take(c)
    /\ UNCHANGED <<ctxDone, table, sending, reading, ending, initialized, peer>>

\* The context ended and nothing has arrived: enqueueNotification sends $mc/cancel,
\* and a full queue ends the client.
GiveUp(c) ==
    /\ pc[c] = "await" /\ outcome[c] = "none" /\ c \in ctxDone
    /\ Return(c, "failed", "remove")
    /\ IF Len(writes) < MaxOutboundQueue
       THEN writes' = Append(writes, Cancel(c)) /\ UNCHANGED <<ending, pending>>
       ELSE Fail /\ UNCHANGED writes
    /\ UNCHANGED <<ctxDone, outcome, sends, intime, ack, writer, frame, wire, reading, initialized,
                   peer>>

\* Mutant: a call waits for its outcome or its context only.
NeverClosed(c) == FALSE

\* The client ended and nothing has arrived.
Closed(c) ==
    /\ pc[c] = "await" /\ outcome[c] = "none" /\ closed
    /\ Return(c, "failed", "remove")
    /\ UNCHANGED <<ctxDone, table, sending, reading, ending, initialized, peer>>

\* Mutant: the result is stored without looking whether another call was first.
ConcludeUnchecked(c) ==
    /\ pc[c] = "tail" /\ Goto(c, "done")
    /\ initialized' = (initialized \/ (Kind[c] = "initialize" /\ result[c] = "ok"))
    /\ UNCHANGED <<result, ctxDone, table, sending, reading, ending, peer>>

\* What the caller of callValidated does with the result: Initialize stores it if
\* it is the first, a subscription with an ambiguous outcome ends the client.
Conclude(c) ==
    /\ pc[c] = "tail" /\ Goto(c, "done")
    /\ \/ /\ Kind[c] = "initialize" /\ result[c] = "ok"
          /\ result' = [result EXCEPT ![c] = IF initialized THEN "refused" ELSE "ok"]
          /\ initialized' = TRUE /\ UNCHANGED <<ending, pending>>
       \/ /\ Kind[c] = "subscribe" /\ result[c] \in {"error", "failed"}
          /\ Fail /\ UNCHANGED <<result, initialized>>
       \/ /\ Kind[c] = "initialize" => result[c] # "ok"
          /\ Kind[c] = "subscribe" => result[c] \in {"ok", "error"}
          /\ UNCHANGED <<result, initialized, ending, pending>>
    /\ UNCHANGED <<ctxDone, outcome, sends, intime, sending, reading, peer>>

-----------------------------------------------------------------------------
(* The writer *)

\* writeLoop: a request whose context ended is not written.
WriterTake ==
    /\ writer = "idle" /\ writes # <<>> /\ writes' = Tail(writes)
    /\ LET f == Head(writes)
           skip == f.type = "request" /\ f.call \in ctxDone
       IN IF skip THEN ack' = [ack EXCEPT ![f.call] = "error"] /\ UNCHANGED <<writer, frame>>
          ELSE writer' = "writing" /\ frame' = {f} /\ UNCHANGED ack
    /\ UNCHANGED <<callVars, table, wire, reading, ending, initialized, peer>>

Report(f, what) == ack' = IF f.type = "request" THEN [ack EXCEPT ![f.call] = what] ELSE ack

\* A write that fails leaves no complete frame behind.
WriterDone ==
    /\ writer = "writing" /\ frame' = {}
    /\ \E f \in frame :
        \/ wire' = Append(wire, f) /\ Report(f, "ok") /\ writer' = "idle"
        \/ Report(f, "error") /\ writer' = "failing" /\ UNCHANGED wire
    /\ UNCHANGED <<callVars, table, writes, reading, ending, initialized, peer>>

\* A write error ends the client after it was reported; so does the end of the
\* client the writer.
WriterEnds ==
    /\ \/ writer = "failing" /\ Fail
       \/ writer = "idle" /\ closed /\ UNCHANGED <<ending, pending>>
    /\ writer' = "ended"
    /\ UNCHANGED <<callVars, outcome, sends, intime, ack, writes, frame, wire, reading,
                   initialized, peer>>

-----------------------------------------------------------------------------
(* The reader, the provider and Close *)

\* The provider answers a request it has read (external).
Answer(c) ==
    /\ (\E i \in DOMAIN wire : wire[i] = Request(c)) /\ answered[c] < MaxAnswers[c]
    /\ \E what \in Responses : answers' = answers \cup {[call |-> c, what |-> what]}
    /\ answered' = [answered EXCEPT ![c] = @ + 1]
    /\ UNCHANGED <<callVars, table, sending, reading, ending, initialized>>

\* Mutant: the pending request is removed only after its outcome was sent.
ReadKeepsPending(m) ==
    /\ reader = "idle" /\ m \in answers /\ answers' = answers \ {m}
    /\ IF m.call \in pending THEN reader' = "delivering" /\ got' = {m} ELSE UNCHANGED reading
    /\ UNCHANGED <<callVars, table, sending, ending, initialized, answered>>

\* readLoop takes the pending request of a response out of the table; a response
\* without one is dropped.
ReadResponse(m) ==
    /\ reader = "idle" /\ m \in answers /\ answers' = answers \ {m}
    /\ IF m.call \in pending THEN reader' = "delivering" /\ got' = {m} ELSE UNCHANGED reading
    /\ pending' = pending \ {m.call}
    /\ UNCHANGED <<callVars, outcome, sends, intime, sending, ending, initialized, answered>>

Deliver ==
    /\ reader = "delivering" /\ reader' = "idle" /\ got' = {}
    /\ \E m \in got :
        /\ outcome' = [outcome EXCEPT ![m.call] = m.what]
        /\ sends' = [sends EXCEPT ![m.call] = @ + 1]
        /\ intime' = IF closed THEN intime ELSE intime \cup {m.call}
    /\ UNCHANGED <<callVars, pending, sending, ending, initialized, peer>>

\* End of input, or a frame the client does not accept.
ReaderEnds ==
    /\ reader = "idle" /\ reader' = "ended" /\ Fail
    /\ UNCHANGED <<got, callVars, outcome, sends, intime, sending, initialized, peer>>

Close ==
    /\ ~closed /\ Fail
    /\ UNCHANGED <<callVars, outcome, sends, intime, sending, reading, initialized, peer>>

CallStep(c) ==
    \/ QueueWrite(c) \/ WriteReturns(c) \/ WriteFailed(c) \/ RemovePending(c)
    \/ Outcome(c) \/ GiveUp(c) \/ Closed(c) \/ Conclude(c)
Next ==
    \/ \E c \in Calls :
        Reserve(c) \/ ContextEnds(c) \/ CallStep(c) \/ NotifyFailed(c) \/ Answer(c)
    \/ \E m \in answers : ReadResponse(m)
    \/ WriterTake \/ WriterDone \/ WriterEnds \/ Deliver \/ ReaderEnds \/ Close
Spec == Init /\ [][Next]_vars

\* Calls make progress when they can.  Nothing is assumed of the writer, the
\* reader, the provider or the contexts.
Fairness == \A c \in Calls : WF_vars(CallStep(c))
FairSpec == Spec /\ Fairness

-----------------------------------------------------------------------------
(* Properties *)

\* Types, and the limits on pending requests and queued writes.
TypeOK ==
    /\ pc \in [Calls -> {"idle", "queue", "written", "unwritten", "await", "remove", "tail",
                         "done"}]
    /\ result \in [Calls -> {"none", "ok", "error", "failed", "refused"}]
    /\ Cardinality(pending) <= MaxInFlightRequests /\ Len(writes) <= MaxOutboundQueue
    /\ pending \cup failing \cup ctxDone \cup intime \subseteq Calls
    /\ outcome \in [Calls -> {"none", "failed"} \cup Responses]

\* A place in the pending table belongs to a call in progress, and a closed client
\* has none: whatever a call waits for when it gives up, its place is freed.
PendingOwned ==
    /\ \A c \in pending : pc[c] \in {"queue", "written", "unwritten", "await", "remove"}
    /\ closed => pending = {}

\* readLoop and fail never send two outcomes for one call: the channel holds one,
\* and a second send would block the reader, or whoever ends the client, for ever.
OutcomeOnce == \A c \in Calls : sends[c] <= 1

\* A call whose response arrived while the client was open returns that response,
\* even if the client ends before the call looks, unless its own context ended
\* (the comment in callValidated: preserve that completed RPC).
CompletedKept == \A c \in intime \ ctxDone :
    pc[c] \in {"tail", "done"} => result[c] \in {"ok", "error", "refused"}

\* The provider reads $mc/cancel for a request only after the request.
CancelFollowsRequest == \A j \in DOMAIN wire : wire[j].type = "cancel" =>
    \E i \in 1..(j - 1) : wire[i] = Request(wire[j].call)

\* Initialize negotiates the protocol exactly once, even when called concurrently.
NegotiatedOnce ==
    Cardinality({c \in Calls : Kind[c] = "initialize" /\ pc[c] = "done" /\ result[c] = "ok"}) <= 1

\* Close unblocks every pending request: once the client has ended, each call in
\* progress returns, whether or not its context ends or the provider answers.
CloseUnblocks == <>[](~closed \/ \A c \in Calls : pc[c] \in {"idle", "done"})

\* The pending table and the wire: types and limits, a place only for a call in
\* progress, at most one outcome for each, and a cancellation only behind its
\* request (callValidated, readLoop and fail).
CallsSound == TypeOK /\ PendingOwned /\ OutcomeOnce /\ CancelFollowsRequest
=============================================================================
