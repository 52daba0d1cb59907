--------------------------- MODULE MutationLedger ---------------------------
(***************************************************************************)
(* The mutation path of the Go provider server (provider/server.go).       *)
(*                                                                         *)
(* Every mutating request runs in its own goroutine.  It looks its command *)
(* up in the server-wide ledger (two maps under Server.mu), creates a      *)
(* record or waits for the one it found, dispatches the handler, and hands *)
(* its response to the connection's writer.  The record is finalised only  *)
(* once the outcome of the write is known.  Requests are cancelled, their  *)
(* command deadlines expire, connections end and release the records bound *)
(* to them, all concurrently.                                              *)
(*                                                                         *)
(* A record is named after the request that created it, so the pointer     *)
(* comparisons of the code are comparisons of requests.                    *)
(***************************************************************************)
EXTENDS Integers, FiniteSets, Folds

CONSTANTS
    Requests,              \* request goroutines
    Conns,                 \* connections; identifiers are never reused
    Workloads,             \* <<cmd, on>>: what the peers send, and where
    Commands,              \* raw commands; equal digests mean equal commands
    Attach,                \* the commands whose capability is terminal.attach
    KeyOf,                 \* (capability, idempotency key) of a command
    CommandIDOf,           \* command ID of a command
    NoConn, NoRecord,
    Maximum,               \* negotiated envelope limit of a connection
    ResultSizes,           \* sizes of the results handlers return
    Overhead,              \* bytes a response envelope adds to a result
    MaxIdempotencyEntries, MaxIdempotencyBytes, MaxOutboundQueue

ASSUME LedgerAssumption ==
    /\ Attach \subseteq Commands
    /\ NoConn \notin Conns
    /\ NoRecord \notin Requests
    /\ Maximum \in [Conns -> Nat]
    /\ ResultSizes \subseteq Nat
    /\ Overhead \in Nat
    /\ MaxIdempotencyEntries \in Nat
    /\ MaxIdempotencyBytes \in Nat
    /\ MaxOutboundQueue \in Nat \ {0}

\* The byte counter is a sum over the requests.
ASSUME FiniteAssumption == IsFiniteSet(Requests)

VARIABLES
    idempotency,   \* Server.idempotency: record ID -> record
    commands,      \* Server.commands: command ID -> record
    bytes,         \* Server.idempotencyBytes
    status,        \* record -> status; "none" while the record does not exist
    reserved,      \* record -> reservedBytes
    pc,            \* request -> where its goroutine is
    cmd, on,       \* request -> its command, its connection
    ctx,           \* request -> live, expired (command deadline) or cancelled
    record,        \* request -> the record it created or found
    reply,         \* request -> the response it settled on
    frame,         \* request -> what became of its response frame
    size,          \* request -> size of the handler's result
    handler,       \* request -> what its handler did (history)
    conn,          \* connection -> phase of serve
    collected,     \* connection -> records gathered by releaseConnection
    drained        \* connection -> no request was left when it was released

ledger == <<idempotency, commands, bytes, status, reserved>>
request == <<pc, cmd, on, ctx, record, reply, frame, size, handler>>
connection == <<conn, collected, drained>>
vars == <<ledger, request, connection>>

Reservations(records) ==
    MapThenFoldSet(+, 0, LAMBDA r : reserved[r], LAMBDA S : CHOOSE r \in S : TRUE, records)

Statuses == {"none", "pending", "succeeded", "failed", "unknown"}
Replies == {"none", "succeeded", "failed", "unknown", "conflict", "exhausted", "context"}
Final == {"succeeded", "failed", "unknown"}
PCs == {"idle", "lookup", "waiting", "admit", "dispatch", "running",
        "respond", "enqueue", "flushing", "done"}
Keys == {KeyOf[k] : k \in Commands}
CommandIDs == {CommandIDOf[k] : k \in Commands}
RecordIDs == Keys \X (Conns \cup {NoConn})

\* mutationRecordIDs: an attach is keyed by its connection as well.
MutationRecordID(k, c) == <<KeyOf[k], IF k \in Attach THEN c ELSE NoConn>>
IDOf(r) == MutationRecordID(cmd[r], on[r])
Owner(r) == record[r] = r
Retained(r) == status[r] # "none" /\ idempotency[IDOf(r)] = r

\* The contexts of a request: its own (a child of the connection's), and the
\* command's, which also ends at the command's deadline.
CtxDone(r) == ctx[r] = "cancelled" \/ conn[on[r]] # "open"
CommandDone(r) == ctx[r] # "live" \/ conn[on[r]] # "open"
FrameDone(r) == IF reply[r] = "succeeded" THEN CommandDone(r) ELSE CtxDone(r)

Init ==
    /\ idempotency = [i \in RecordIDs |-> NoRecord]
    /\ commands = [i \in CommandIDs |-> NoRecord]
    /\ bytes = 0
    /\ status = [r \in Requests |-> "none"]
    /\ reserved = [r \in Requests |-> 0]
    /\ pc = [r \in Requests |-> "idle"]
    /\ cmd \in [Requests -> Commands]
    /\ on \in [Requests -> Conns]
    /\ <<cmd, on>> \in Workloads
    /\ ctx = [r \in Requests |-> "live"]
    /\ record = [r \in Requests |-> NoRecord]
    /\ reply = [r \in Requests |-> "none"]
    /\ frame = [r \in Requests |-> "none"]
    /\ size = [r \in Requests |-> 0]
    /\ handler = [r \in Requests |-> "none"]
    /\ conn = [c \in Conns |-> IF \E r \in Requests : on[r] = c THEN "open" ELSE "released"]
    /\ collected = [c \in Conns |-> {}]
    /\ drained = [c \in Conns |-> FALSE]

-----------------------------------------------------------------------------
(* The ledger's operations *)

Goto(r, label) == pc' = [pc EXCEPT ![r] = label]
ReplyWith(r, what) == reply' = [reply EXCEPT ![r] = what] /\ Goto(r, "enqueue")
Forget(map, key, r) == IF map[key] = r THEN [map EXCEPT ![key] = NoRecord] ELSE map

\* Mutant: no sync.Once, so a later call overwrites the settled record.
FinalizeAgain(r, s, remove) ==
    /\ status' = [status EXCEPT ![r] = s]
    /\ idempotency' = IF remove THEN Forget(idempotency, IDOf(r), r) ELSE idempotency
    /\ commands' = IF remove THEN Forget(commands, CommandIDOf[cmd[r]], r) ELSE commands
    /\ UNCHANGED <<bytes, reserved>>

\* Mutant: a removed record stays in the command map.
FinalizeHalfRemoved(r, s, remove) ==
    IF status[r] # "pending" THEN UNCHANGED ledger
    ELSE LET kept == IF s = "succeeded" THEN size[r] ELSE 0 IN
        /\ status' = [status EXCEPT ![r] = s]
        /\ bytes' = bytes - (reserved[r] - kept)
        /\ reserved' = [reserved EXCEPT ![r] = kept]
        /\ idempotency' = IF remove THEN Forget(idempotency, IDOf(r), r) ELSE idempotency
        /\ UNCHANGED commands

\* finalizeMutation: the first call settles the record, the others do nothing.
\* Only a successful record keeps bytes, those of its result.
FinalizeMutation(r, s, remove) ==
    IF status[r] # "pending" THEN UNCHANGED ledger
    ELSE LET kept == IF s = "succeeded" THEN size[r] ELSE 0 IN
        /\ status' = [status EXCEPT ![r] = s]
        /\ bytes' = IF kept <= reserved[r] THEN bytes - (reserved[r] - kept) ELSE bytes
        /\ reserved' = [reserved EXCEPT ![r] = kept]
        /\ idempotency' = IF remove THEN Forget(idempotency, IDOf(r), r) ELSE idempotency
        /\ commands' = IF remove THEN Forget(commands, CommandIDOf[cmd[r]], r) ELSE commands

\* commandResult: what command.get_result answers for a command ID.
CommandResult(i) == IF commands[i] = NoRecord THEN "unavailable" ELSE status[commands[i]]

-----------------------------------------------------------------------------
(* A request *)

\* readLoop starts a goroutine and execute checks the request's context and the
\* command's deadline before the ledger is touched.  On a non-owned stream
\* requests are still read after the connection's context ended.
Receive(r) ==
    /\ pc[r] = "idle"
    /\ \/ conn[on[r]] = "open" /\ Goto(r, "lookup") /\ UNCHANGED <<ctx, reply>>
       \/ /\ conn[on[r]] = "open"
          /\ \E why \in {"expired", "cancelled"} : ctx' = [ctx EXCEPT ![r] = why]
          /\ ReplyWith(r, "context")
       \/ conn[on[r]] # "open" /\ ReplyWith(r, "context") /\ UNCHANGED ctx
    /\ UNCHANGED <<ledger, cmd, on, record, frame, size, handler, connection>>

\* $mc/cancel for a request that is still active.
Cancel(r) ==
    /\ pc[r] \notin {"idle", "done"} /\ ~CtxDone(r)
    /\ ctx' = [ctx EXCEPT ![r] = "cancelled"]
    /\ UNCHANGED <<ledger, pc, cmd, on, record, reply, frame, size, handler, connection>>

\* The clock passes Command.Deadline.
Expire(r) ==
    /\ pc[r] \notin {"idle", "done"} /\ ~CommandDone(r)
    /\ ctx' = [ctx EXCEPT ![r] = "expired"]
    /\ UNCHANGED <<ledger, pc, cmd, on, record, reply, frame, size, handler, connection>>

Found(r) == idempotency[IDOf(r)] # NoRecord
Colliding(r) == commands[CommandIDOf[cmd[r]]] # NoRecord
EntriesFull == Cardinality({i \in RecordIDs : idempotency[i] # NoRecord}) >= MaxIdempotencyEntries
BytesFull(r) == Maximum[on[r]] > MaxIdempotencyBytes - bytes

\* executeMutation under Server.mu, a record exists for this ID: a different
\* command conflicts, the same command waits for the record.
LookupFound(r) ==
    /\ pc[r] = "lookup" /\ Found(r)
    /\ LET prior == idempotency[IDOf(r)] IN
        \/ cmd[prior] # cmd[r] /\ ReplyWith(r, "conflict") /\ UNCHANGED record
        \/ /\ cmd[prior] = cmd[r]
           /\ Goto(r, "waiting")
           /\ record' = [record EXCEPT ![r] = prior]
           /\ UNCHANGED reply
    /\ UNCHANGED <<ledger, cmd, on, ctx, frame, size, handler, connection>>

\* executeMutation under Server.mu, no record: refuse, or create one with the
\* largest result reserved for it.
LookupRefuse(r) ==
    /\ pc[r] = "lookup" /\ ~Found(r)
    /\ \/ Colliding(r) /\ ReplyWith(r, "conflict")
       \/ ~Colliding(r) /\ (EntriesFull \/ BytesFull(r)) /\ ReplyWith(r, "exhausted")
    /\ UNCHANGED <<ledger, cmd, on, ctx, record, frame, size, handler,
                   connection>>

LookupInsert(r) ==
    /\ pc[r] = "lookup" /\ ~Found(r) /\ ~Colliding(r) /\ ~EntriesFull /\ ~BytesFull(r)
    /\ idempotency' = [idempotency EXCEPT ![IDOf(r)] = r]
    /\ commands' = [commands EXCEPT ![CommandIDOf[cmd[r]]] = r]
    /\ bytes' = bytes + Maximum[on[r]]
    /\ status' = [status EXCEPT ![r] = "pending"]
    /\ reserved' = [reserved EXCEPT ![r] = Maximum[on[r]]]
    /\ record' = [record EXCEPT ![r] = r]
    /\ Goto(r, IF cmd[r] \in Attach THEN "admit" ELSE "dispatch")
    /\ UNCHANGED <<cmd, on, ctx, reply, frame, size, handler, connection>>

\* A duplicate returns what the record settled on, or gives up with its context.
WaitPrior(r) ==
    /\ pc[r] = "waiting"
    /\ \/ /\ status[record[r]] = "succeeded"
          /\ reply' = [reply EXCEPT ![r] = "succeeded"] /\ Goto(r, "respond")
       \/ status[record[r]] \in {"failed", "unknown"} /\ ReplyWith(r, status[record[r]])
       \/ CommandDone(r) /\ ReplyWith(r, "context")
    /\ UNCHANGED <<ledger, cmd, on, ctx, record, frame, size, handler,
                   connection>>

\* The admission of a terminal.attach; a refused one (subscription limit,
\* stream already attached) removes the record again.
Admit(r) ==
    /\ pc[r] = "admit"
    /\ \/ Goto(r, "dispatch") /\ UNCHANGED <<ledger, reply>>
       \/ FinalizeMutation(r, "failed", TRUE) /\ ReplyWith(r, "failed")
    /\ UNCHANGED <<cmd, on, ctx, record, frame, size, handler, connection>>

\* Mutant: the handler is dispatched without looking at its context.
DispatchUnchecked(r) ==
    /\ pc[r] = "dispatch"
    /\ handler' = [handler EXCEPT ![r] = "running"]
    /\ Goto(r, "running")
    /\ UNCHANGED <<ledger, cmd, on, ctx, record, reply, frame, size, connection>>

\* Mutant: a command whose context ended before dispatch is forgotten.
DispatchForgets(r) ==
    /\ pc[r] = "dispatch"
    /\ \/ CommandDone(r) /\ FinalizeMutation(r, "failed", TRUE) /\ ReplyWith(r, "failed")
          /\ UNCHANGED handler
       \/ /\ ~CommandDone(r)
          /\ handler' = [handler EXCEPT ![r] = "running"]
          /\ Goto(r, "running") /\ UNCHANGED <<ledger, reply>>
    /\ UNCHANGED <<cmd, on, ctx, record, frame, size, connection>>

\* The handler runs only if its context is still live.
Dispatch(r) ==
    /\ pc[r] = "dispatch"
    /\ \/ CommandDone(r) /\ FinalizeMutation(r, "failed", FALSE) /\ ReplyWith(r, "failed")
          /\ UNCHANGED handler
       \/ /\ ~CommandDone(r)
          /\ handler' = [handler EXCEPT ![r] = "running"]
          /\ Goto(r, "running") /\ UNCHANGED <<ledger, reply>>
    /\ UNCHANGED <<cmd, on, ctx, record, frame, size, connection>>

\* The handler returns an error, or a result that does not validate.
HandlerFails(r) ==
    /\ pc[r] = "running"
    /\ \/ /\ handler' = [handler EXCEPT ![r] = "error"]
          /\ FinalizeMutation(r, "failed", FALSE) /\ ReplyWith(r, "failed")
       \/ /\ handler' = [handler EXCEPT ![r] = "ok"]
          /\ FinalizeMutation(r, "unknown", FALSE) /\ ReplyWith(r, "unknown")
    /\ UNCHANGED <<cmd, on, ctx, record, frame, size, connection>>

\* Mutant: a success that cannot be answered is reported as a failure.
HandlerSucceedsAsFailed(r) ==
    /\ pc[r] = "running"
    /\ handler' = [handler EXCEPT ![r] = "ok"]
    /\ FinalizeMutation(r, "failed", FALSE) /\ ReplyWith(r, "failed")
    /\ UNCHANGED <<cmd, on, ctx, record, frame, size, connection>>

\* The handler succeeds.  The record stays pending for the response when the
\* context is live and the subscription and the envelope can be prepared.
HandlerSucceeds(r) ==
    /\ pc[r] = "running"
    /\ handler' = [handler EXCEPT ![r] = "ok"]
    /\ \E n \in ResultSizes :
        \/ /\ CommandDone(r) \/ n + Overhead > Maximum[on[r]] \/ cmd[r] \in Attach
           /\ FinalizeMutation(r, "unknown", FALSE) /\ ReplyWith(r, "unknown")
           /\ UNCHANGED size
        \/ /\ ~CommandDone(r) /\ n + Overhead <= Maximum[on[r]]
           /\ size' = [size EXCEPT ![r] = n]
           /\ reply' = [reply EXCEPT ![r] = "succeeded"] /\ Goto(r, "respond")
           /\ UNCHANGED ledger
    /\ UNCHANGED <<cmd, on, ctx, record, frame, connection>>

\* A duplicate's recorded result was measured against the owner's connection;
\* Overhead is that of the longest request ID, so it may or may not fit here.
MayNotFit(r) == size[record[r]] + Overhead > Maximum[on[r]]
MayFit(r) == size[record[r]] <= Maximum[on[r]]

\* Mutant: the rollback is left to the end of the request.
RespondUnrolled(r) ==
    /\ pc[r] = "respond"
    /\ \/ (CommandDone(r) \/ MayNotFit(r)) /\ ReplyWith(r, "context")
       \/ ~CommandDone(r) /\ MayFit(r) /\ Goto(r, "enqueue") /\ UNCHANGED reply
    /\ UNCHANGED <<ledger, cmd, on, ctx, record, frame, size, handler, connection>>

\* processRequest: a success whose context ended, or that does not fit the
\* connection's envelope, becomes an error, and the record of its owner is rolled
\* back before the error can be seen.
Respond(r) ==
    /\ pc[r] = "respond"
    /\ \/ /\ CommandDone(r) \/ MayNotFit(r)
          /\ ReplyWith(r, "context")
          /\ IF Owner(r) THEN FinalizeMutation(r, "unknown", FALSE) ELSE UNCHANGED ledger
       \/ ~CommandDone(r) /\ MayFit(r) /\ Goto(r, "enqueue") /\ UNCHANGED <<reply, ledger>>
    /\ UNCHANGED <<cmd, on, ctx, record, frame, size, handler, connection>>

\* Mutant: an uncommitted action is dropped without its rollback.
RollbackLost(r) == UNCHANGED ledger

\* The deferred rollback of an action that was not committed.
Rollback(r) ==
    IF Owner(r) /\ reply[r] = "succeeded"
    THEN FinalizeMutation(r, "unknown", FALSE) ELSE UNCHANGED ledger

Queue(c) == {r \in Requests : on[r] = c /\ frame[r] = "queued"}

\* enqueueControl: room in the queue, or one of the contexts ends the wait.
Enqueue(r) ==
    /\ pc[r] = "enqueue"
    /\ \/ /\ Cardinality(Queue(on[r])) < MaxOutboundQueue
          /\ frame' = [frame EXCEPT ![r] = "queued"]
          /\ Goto(r, "flushing") /\ UNCHANGED ledger
       \/ FrameDone(r) /\ Rollback(r) /\ Goto(r, "done") /\ UNCHANGED frame
    /\ UNCHANGED <<cmd, on, ctx, record, reply, size, handler, connection>>

CancelConn(c) == IF conn[c] = "open" THEN [conn EXCEPT ![c] = "cancelled"] ELSE conn

\* The response was written: commit.
FlushOK(r) ==
    /\ pc[r] = "flushing" /\ frame[r] = "written"
    /\ IF Owner(r) /\ reply[r] = "succeeded"
       THEN FinalizeMutation(r, "succeeded", FALSE) ELSE UNCHANGED ledger
    /\ Goto(r, "done")
    /\ UNCHANGED <<cmd, on, ctx, record, reply, frame, size, handler,
                   connection>>

\* The frame was skipped for its context, or its write failed and ends the
\* connection: the deferred rollback runs.
FlushFailed(r) ==
    /\ pc[r] = "flushing" /\ frame[r] \in {"skipped", "broken"}
    /\ Rollback(r) /\ Goto(r, "done")
    /\ conn' = IF frame[r] = "broken" THEN CancelConn(on[r]) ELSE conn
    /\ UNCHANGED <<cmd, on, ctx, record, reply, frame, size, handler,
                   collected, drained>>

\* The wait for the flush ends first.  When the connection is over, the select
\* may take this branch although the response has been written.
FlushAbandoned(r) ==
    /\ pc[r] = "flushing"
    /\ \/ conn[on[r]] # "open" /\ UNCHANGED conn
       \/ /\ FrameDone(r) /\ frame[r] \in {"queued", "writing"}
          /\ conn' = IF reply[r] = "succeeded" THEN CancelConn(on[r]) ELSE conn
    /\ Rollback(r) /\ Goto(r, "done")
    /\ UNCHANGED <<cmd, on, ctx, record, reply, frame, size, handler,
                   collected, drained>>

-----------------------------------------------------------------------------
(* The connection *)

\* writeLoop takes a frame; one whose context has ended is skipped.  After a
\* failed write the loop is over; it may also be over because a data frame
\* could not be written, and then this action just never happens again.
WriterTake(r) ==
    /\ frame[r] = "queued"
    /\ \A q \in Requests : on[q] = on[r] => frame[q] \notin {"writing", "broken"}
    /\ frame' = [frame EXCEPT ![r] = IF FrameDone(r) THEN "skipped" ELSE "writing"]
    /\ UNCHANGED <<ledger, pc, cmd, on, ctx, record, reply, size, handler, connection>>

WriterDone(r) ==
    /\ frame[r] = "writing"
    /\ \E result \in {"written", "broken"} : frame' = [frame EXCEPT ![r] = result]
    /\ UNCHANGED <<ledger, pc, cmd, on, ctx, record, reply, size, handler, connection>>

\* End of input, a read error, shutdown or the caller's context.
Disconnect(c) ==
    /\ conn[c] = "open"
    /\ conn' = CancelConn(c)
    /\ UNCHANGED <<ledger, request, collected, drained>>

\* Mutant: only records that are still pending are collected.
ReleaseCollectPending(c) ==
    /\ conn[c] = "cancelled"
    /\ conn' = [conn EXCEPT ![c] = "releasing"]
    /\ collected' = [collected EXCEPT ![c] =
           {r \in Requests : Retained(r) /\ cmd[r] \in Attach /\ on[r] = c
                             /\ status[r] = "pending"}]
    /\ drained' = [drained EXCEPT ![c] =
           \A r \in Requests : on[r] = c => pc[r] \in {"idle", "done"}]
    /\ UNCHANGED <<ledger, request>>

\* serve stops waiting, its requests having drained or the timer having fired,
\* and releaseConnection collects the records bound to the connection.
ReleaseCollect(c) ==
    /\ conn[c] = "cancelled"
    /\ conn' = [conn EXCEPT ![c] = "releasing"]
    /\ collected' = [collected EXCEPT ![c] =
           {r \in Requests : Retained(r) /\ cmd[r] \in Attach /\ on[r] = c}]
    /\ drained' = [drained EXCEPT ![c] =
           \A r \in Requests : on[r] = c => pc[r] \in {"idle", "done"}]
    /\ UNCHANGED <<ledger, request>>

ReleaseFinalize(c, r) ==
    /\ conn[c] = "releasing" /\ r \in collected[c] /\ status[r] = "pending"
    /\ FinalizeMutation(r, "unknown", FALSE)
    /\ UNCHANGED <<request, connection>>

\* The records collected are removed with the bytes they hold.  The code takes a
\* record's bytes off only if the counter holds as much, which Accounting shows.
ReleaseDelete(c) ==
    /\ conn[c] = "releasing" /\ \A r \in collected[c] : status[r] # "pending"
    /\ conn' = [conn EXCEPT ![c] = "released"]
    /\ idempotency' = [i \in RecordIDs |->
           IF idempotency[i] \in collected[c] THEN NoRecord ELSE idempotency[i]]
    /\ commands' = [i \in CommandIDs |->
           IF commands[i] \in collected[c] THEN NoRecord ELSE commands[i]]
    /\ bytes' = bytes - Reservations(collected[c])
    /\ reserved' = [r \in Requests |-> IF r \in collected[c] THEN 0 ELSE reserved[r]]
    /\ UNCHANGED <<status, request, collected, drained>>

RequestStep(r) ==
    \/ LookupFound(r) \/ LookupRefuse(r) \/ LookupInsert(r) \/ WaitPrior(r)
    \/ Admit(r) \/ Dispatch(r) \/ Respond(r) \/ Enqueue(r)
    \/ FlushOK(r) \/ FlushFailed(r) \/ FlushAbandoned(r)

Next ==
    \/ \E r \in Requests :
        \/ Receive(r) \/ Cancel(r) \/ Expire(r) \/ RequestStep(r)
        \/ HandlerFails(r) \/ HandlerSucceeds(r) \/ WriterTake(r) \/ WriterDone(r)
    \/ \E c \in Conns :
        \/ Disconnect(c) \/ ReleaseCollect(c) \/ ReleaseDelete(c)
        \/ \E r \in Requests : ReleaseFinalize(c, r)

Spec == Init /\ [][Next]_vars

\* Goroutines run when they can, handlers return, and clocks pass deadlines.
\* Nothing is assumed of the peer, of the writer or of cancellation.
Fairness == \A r \in Requests :
    /\ WF_vars(RequestStep(r))
    /\ WF_vars(HandlerFails(r) \/ HandlerSucceeds(r))
    /\ WF_vars(Expire(r))
FairSpec == Spec /\ Fairness

-----------------------------------------------------------------------------
(* Properties *)

ControlTypeOK ==
    /\ idempotency \in [RecordIDs -> Requests \cup {NoRecord}]
    /\ commands \in [CommandIDs -> Requests \cup {NoRecord}]
    /\ status \in [Requests -> Statuses]
    /\ pc \in [Requests -> PCs]
    /\ cmd \in [Requests -> Commands] /\ on \in [Requests -> Conns]
    /\ ctx \in [Requests -> {"live", "expired", "cancelled"}]
    /\ record \in [Requests -> Requests \cup {NoRecord}]
    /\ reply \in [Requests -> Replies]
    /\ frame \in [Requests -> {"none", "queued", "writing", "written", "skipped", "broken"}]
    /\ handler \in [Requests -> {"none", "running", "ok", "error"}]
    /\ conn \in [Conns -> {"open", "cancelled", "releasing", "released"}]
    /\ collected \in [Conns -> SUBSET Requests]
    /\ drained \in [Conns -> BOOLEAN]

\* Every variable keeps its type; the byte counters of the ledger never leave
\* the naturals (they are uint64 in the code).
TypeOK ==
    /\ ControlTypeOK
    /\ bytes \in Nat
    /\ reserved \in [Requests -> Nat]
    /\ size \in [Requests -> Nat]

\* A handler is dispatched at most once per record ID, whatever retries,
\* cancellations, deadlines and connection releases happen around it; for an
\* attach, whose record a release deletes, because no request of a released
\* connection passes the context check in front of dispatch.
AtMostOnce == \A r, q \in Requests :
    handler[r] # "none" /\ handler[q] # "none" /\ IDOf(r) = IDOf(q) => r = q

\* What the peer reads agrees with what the handler did: a written success
\* comes from a handler that succeeded and whose record is not Failed, a
\* written failure from one that did not succeed.
TruthfulReply == \A r \in Requests : frame[r] = "written" =>
    /\ reply[r] = "succeeded" => handler[record[r]] = "ok" /\ status[record[r]] # "failed"
    /\ reply[r] = "failed" => handler[record[r]] # "ok"

\* Two requests for the same non-attach command are never told succeeded and
\* failed: the ledger keeps every such record for the life of the server.
ConsistentReplies == \A r, q \in Requests :
    /\ cmd[r] = cmd[q] /\ cmd[r] \notin Attach
    /\ frame[r] = "written" /\ frame[q] = "written" /\ reply[r] = "succeeded"
    => reply[q] # "failed"

\* An error a request's peer can observe never leaves that request's own record
\* pending (the rollback precedes the enqueue), so an immediate retry does not
\* wait on it.
RollbackBeforeError == \A r \in Requests :
    frame[r] # "none" /\ reply[r] # "succeeded" /\ Owner(r) => status[r] # "pending"

\* Server.idempotencyBytes is exactly what the records hold, only records in
\* the map hold bytes, and both limits are respected: the subtractions of
\* finalizeMutation and releaseConnection never wrap.
Accounting ==
    /\ bytes = Reservations(Requests)
    /\ bytes <= MaxIdempotencyBytes
    /\ Cardinality({i \in RecordIDs : idempotency[i] # NoRecord}) <= MaxIdempotencyEntries
    /\ \A r \in Requests : reserved[r] > 0 => Retained(r)

\* The two maps hold the same records: what command.get_result can see is what
\* a retry would find.
MapsAgree == \A r \in Requests : status[r] # "none" =>
    (idempotency[IDOf(r)] = r <=> commands[CommandIDOf[cmd[r]]] = r)

\* A connection whose requests drained leaves none of its records behind.
ReleaseComplete == \A c \in Conns : conn[c] = "released" /\ drained[c] =>
    \A r \in Requests : cmd[r] \in Attach /\ on[r] = c => ~Retained(r)

\* command.get_result never changes a final answer; it may only forget it when
\* the connection of an attach is released.
ResultStable == [][\A i \in CommandIDs : CommandResult(i) \in Final =>
    \/ CommandResult(i)' = CommandResult(i)
    \/ /\ CommandResult(i)' = "unavailable"
       /\ conn'[on[commands[i]]] = "released"]_vars

\* The ledger implements CommandOutcome for every identity that is not bound to
\* a connection.  The abstract effect is the handler of the one request of that
\* identity that was dispatched.
GlobalIDs == {MutationRecordID(k, NoConn) : k \in Commands \ Attach}
Dispatched(i) == {r \in Requests : handler[r] # "none" /\ IDOf(r) = i}
OutcomeOf(i) == IF idempotency[i] = NoRecord THEN "fresh" ELSE status[idempotency[i]]
EffectOf(i) == IF Dispatched(i) = {} THEN "none" ELSE handler[CHOOSE r \in Dispatched(i) : TRUE]
Abstract == INSTANCE CommandOutcome WITH
    IDs <- GlobalIDs,
    outcome <- [i \in GlobalIDs |-> OutcomeOf(i)],
    effect <- [i \in GlobalIDs |-> EffectOf(i)]

\* Every step of the ledger is a step of the write-once, truthful outcome or
\* leaves it unchanged.
ImplementsOutcome == Abstract!Spec

\* No record stays pending: the deadline every command carries ends each wait of
\* the request that owns it, even behind a writer that is gone.
RecordResolves == <>[](\A r \in Requests : status[r] # "pending")

\* The ledger's books: every variable keeps its type, the byte counter is what the
\* records hold, and a drained connection leaves nothing behind (finalizeMutation
\* and releaseConnection on every path that reaches them).
LedgerSound == TypeOK /\ Accounting /\ ReleaseComplete
=============================================================================
