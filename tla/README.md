# TLA+ models of mission-control-edge

This directory specifies the provider SDK, its authorization checks and its conformance
runner in TLA+. TLC
checks the specifications on small instances, and TLAPS proves the central
theorems for every instance. `PROJECT.json` is the index: which source lines each
definition models, what each run checks, and the mutation that each property is
known to catch.

    tlc -workers 2 -config MutationLedger_races.cfg MCMutationLedger
    tlapm MutationLedgerProofs.tla    # then MutationLedgerBooks.tla
    tlapm ServerConnectionProofs.tla
    tlapm ClientRPCProofs.tla
    tlapm TerminalFlowProofs.tla
    tlapm TerminalRegistryProofs.tla
    tlapm EventJournalProofs.tla
    tlapm AuthorizationProofs.tla

Each proof module is checked from nothing in one to eleven minutes.

## The system

A *provider* is a separate process that serves JSON-RPC, one JSON object per
line, over stdio or a Unix socket. The repository holds

| Part | State | Operations | Hard behaviour |
|---|---|---|---|
| Go server, mutation ledger (`provider/server.go`) | two maps of idempotency records, a byte counter | look up, wait, create, dispatch, settle, release | retries, cancellation, deadlines, disconnects and failed writes between any two steps |
| Go server, connection (`provider/server.go`, `subscription.go`) | active requests, slots, admissions, two outbound queues, negotiation state | read, execute, respond, commit or roll back, publish, drain | one goroutine per request and per stream, one reader, one writer |
| Terminal flow control (`subscription.go`, `client.go`) | a window and an offset at each end | admit a chunk, wait for credit, send and apply credit, detach | two views of one window separated by queues |
| Go client (`client.go`) | pending table, write queue, terminal flows | call, cancel, read, fail, close | outcomes, contexts and the end of the client race |
| Event sequencing, mock control plane, fault plan (`protocol/event.go`, `mock/`) | cursors, journal, held frames | observe, ingest, replay, apply faults | duplicated, reordered, altered and interrupted deliveries |
| Authorization records (`protocol/approval.go`, `custody.go`, `isolation.go`, `verification.go`) | consumed nonces, run nonces bound to evidence | check and consume, evaluate evidence | concurrent use of one nonce, moving clocks and policies |
| Negotiation and dispatch (`provider/handler.go`, `provider.go`, `protocol/manifest.go`, `capability.go`) | none | validate, select, dispatch | four tables and three limits that must agree |
| Framing, limits, errors (`provider/jsonrpc.go`, `limits.go`, `protocol/error.go`, `mock/gateway.go`) | none | read and write a frame, relay it, normalise an error | boundaries |
| Conformance runner (`conformance/`, `mock/provider.go`) | sessions, the discovered contract, the report | run cases, classify outcomes | providers that change, fail or die |
| TypeScript server and client (`sdk/typescript/src`) | as the Go ones, on an event loop | as the Go ones | interleaving at each await |
| Unix socket, field validation, schema generator, commands | none | | |

## Modules

| Module | Models |
|---|---|
| `MutationLedger` | the path of a mutating request through the ledger, the writer and the release of its connection |
| `CommandOutcome` | abstract: an effect that starts at most once and an outcome that is written once and is truthful |
| `MutationLedgerProofs` | the inductive invariant of `MutationLedger`, the lemmas for its actions, and the theorems |
| `MutationLedgerBooks` | sums over finite sets, and the proof that the ledger's byte counter is one |
| `ServerConnection` | one connection: reader, request goroutines, subscriptions, writer, heartbeat, drain |
| `ServerConnectionProofs` | the inductive invariant and theorems of `ServerConnection` |
| `TerminalFlow` | both ends of one terminal stream, with the server's queues and the transport |
| `TerminalFlowProofs` | sums over queues and parts of queues, and the inductive invariant and theorems of `TerminalFlow` |
| `ClientRPC` | calls of the Go client, its writer and reader, and its end |
| `ClientRPCProofs` | the inductive invariant and theorems of `ClientRPC` |
| `Faults` | operators for `mock/faults.go`: what a call of `Apply` does to frames |
| `EventJournal` | `SequenceTracker.Observe`, `ControlPlane.Ingest` and `Replay` behind `Faults` |
| `EventJournalProofs` | what `Apply` does for a plan of any length, and the inductive invariant and theorems of `EventJournal` |
| `TerminalRegistry` | the client's registry of terminal flows: subscribe, attach and its retries, detach, credit and chunks against each other |
| `TerminalRegistryProofs` | the inductive invariant of `TerminalRegistry` with the effect of each step, and the theorems |
| `Authorization` | approvals, custody and isolation evidence and the verification projection, for concurrent callers that share a nonce store and a replay guard |
| `AuthorizationProofs` | the inductive invariant and theorems about `Authorization` |
| `Capabilities` | the four tables of capabilities, each read off its own source |
| `Negotiation` | what `NewServer` accepts, what `initialize` selects, what the client accepts, which handler a request reaches, `Limits.Validate` |
| `Wire` | `readFrame` and `writeFrame`, the gateway's relay without faults, errors on the wire, extension values |
| `Conformance` | the conformance runner, its sessions and processes, with a provider made of `Negotiation` |
| `MC...` | constants for TLC; `MCConformance` also holds the properties of the pure functions |

The modules meet at well defined places. `ServerConnection` treats a mutation's
handler as a choice; what it records is `MutationLedger`'s subject, which in turn
reduces the connection to its phase and to the fate of a response frame.
`TerminalFlow` takes up a stream after its response has been flushed, which
`ResponseBeforeStream` of `ServerConnection` justifies. `TerminalRegistry` decides which flow
a chunk or a credit meets and leaves the window to `TerminalFlow`. `EventJournal` extends
`Faults`. `Conformance` extends `Negotiation`: the process it launches answers what
`Initialize` and `Execute` compute, so the runner and the server it probes are checked
against each other.

### How state and actions correspond to the code

* **A goroutine is a `pc`.** Its steps are cut where it takes or releases a lock,
  sends or receives on a channel, or calls a handler. Everything between two cuts
  is one action, including what a deferred function does on an early return.
* **A `select` is a disjunction.** Where several cases are ready each one can be
  taken. Where the code looks at a channel again inside a case (the flush of a
  response, the outcome of a call) the guard says so.
* **Contexts** are a flag per request and a flag for the connection. In
  `MutationLedger`, `ctx` also separates a passed deadline from a cancellation,
  because the response of a failed command waits on the request's context and
  that of a successful one on the command's.
* **Records are named by the request that created them**, so the code's pointer
  comparisons are comparisons of requests.
* **Payloads** are reduced to what decisions depend on: the identity and digest of a
  command, the size of a result, the size, offset, sequence, truncation and
  declared credit of a chunk, the ID, number and digest of an event. Validation of
  fields is a choice between success and failure.
* **History variables**: `handler` and `drained` (`MutationLedger`), `sends` and
  `intime` (`ClientRPC`), `outcomes` and `replay.faults` (`EventJournal`), `sent`
  (`ServerConnection`), `pulled` (`TerminalFlow`), `grants` (`Authorization`), `detached` of a
  flow (`TerminalRegistry`), `seen` (`Conformance`).
* **Mutexes** that are held over a wait are variables (a flow's mutex in
  `TerminalRegistry`); those that are not are the atomicity of an action.
* **Documents** of `Authorization` are records. `form` stands for the checks of single
  fields and `scope` for fields that are only compared. A signature is what was signed,
  the key with the preimage, so it verifies exactly when neither has changed. Lists are
  sequences and are sorted where the code sorts them.
* **Pure functions** (`Negotiation`, `Wire`) are operators. Their properties quantify over
  every small input and are evaluated in one initial state of the suite's run.
* Definitions whose comment starts with *Mutant* are plausible bugs; no
  specification uses them. Each property is violated when one of them replaces the
  definition it imitates.

## What is checked

One run covers several scenarios of its component: the initial state picks one from a
constant set (`Workloads`, `Applications`, `Scripts`) that the `MC` module defines. A
workload without an initialize starts on an initialized connection or client.

Some properties that a run checks are conjunctions of named parts; the sections below speak
of the parts.

| Checked | Parts |
|---|---|
| `LedgerSound` | `TypeOK`, `Accounting`, `ReleaseComplete` of `MutationLedger` |
| `PlacesAccounted`, `WindsDown` | `TypeOK`, `RequestsAccounted`, `AdmissionsAccounted`; `RequestsFinish`, `AdmissionsEnd` of `ServerConnection` |
| `WindowKept`, `FaultsEarned` | `TypeOK`, `WindowConserved`; `ClientAccepts`, `NeverOverflows`, `OnlyProviderFaults` of `TerminalFlow` |
| `CallsSound` | `TypeOK`, `PendingOwned`, `OutcomeOnce`, `CancelFollowsRequest` of `ClientRPC` |
| `RegistryCounted` | `TypeOK`, `PendingCounted` of `TerminalRegistry` |
| `JournalSound` | `TypeOK`, `JournalExact` of `EventJournal` |
| `AuthorizesGenuine` | `GrantsGenuine`, `GenuineAccepted` of `Authorization` |
| `SessionsClosed`, `PassMeans`, `SkipsReported` | `TypeOK`, `NoProcessLeft`; `OneContract`, `RedactionSound`; `SkipsRight`, `MappedCasesRan` of `Conformance` |
| `CapabilitiesServed`, `NegotiationSound`, `WireExact` | `TablesAgree`, `AdvertisedServed`, `DeliveryTargetsRight`; `NegotiationExact`, `LimitsAgree`, `LimitsBound`; the five properties of `Wire` |

### MutationLedger

| Run | Scenarios | Properties |
|---|---|---|
| `MutationLedger_races` | a command retried on the same and on another connection, an attach repeated on its connection, a reused key, a reused command ID, a command and an attach competing for the limits | `AtMostOnce`, `TruthfulReply`, `ConsistentReplies`, `RollbackBeforeError`, `MapsAgree`, `LedgerSound`, `ResultStable` |
| `MutationLedger_live` | a retry, a reused key, a command and an attach, on one connection | `RecordResolves`, `ImplementsOutcome` |

Two requests suffice for every pairwise race (owner and duplicate, two owners, owner
and release). The connections have envelope limits 3 and 2; with one byte of overhead a
result of one byte fits both and one of two bytes only the wider, and the byte and entry
limits are reached. The queue holds
one frame so that it is full when the other request responds. Requests are symmetric
in `races`, whose workloads are closed under swapping them.

`ImplementsOutcome` is refinement: for identities that are not bound to a connection
the ledger implements `CommandOutcome`, with the outcome read off the map and the
effect off the one dispatched handler.

### ServerConnection

`ServerConnection_races` runs two initializations with a query behind them, for which
there are only two slots, and a subscription against a second one to its stream, against
an unsubscribe that repeats its request ID and against a shutdown. Slots, `active`, subscription places and both maps agree with the
goroutines that exist on every path (`RequestsAccounted`, `AdmissionsAccounted`); no
notification precedes its response (`ResponseBeforeStream`); one negotiation succeeds and
stays (`NegotiationStable`). `ServerConnection_live` checks `RequestsFinish` and
`AdmissionsEnd` for the pairs. A write to the client may fail and may also never return: when the
transport is closed, `serve` and its goroutines end all the same. `RequestsFinish` has one exception
that the code really has: on a connection that stays open, a request that nobody cancels waits for ever
for a writer that has died on a data frame or is stuck in a write, since nothing cancels the
connection and `serve` does not look at `writerDone` before it stops for another reason.
`AdmissionsEnd` says that no subscription outlives a connection that has stopped. `MaxFrames` and `MaxHeartbeats` bound the
notifications. The bounded wait of `serve` for its goroutines changes nothing they see
and has no action of its own.

### TerminalFlow

An element of `Applications` is a window and what the applications do. `TerminalFlow_flow`
checks three: a window of three bytes, more than the queues hold in small chunks, with
everything allowed; a window of two with a cautious client; and an uninterrupted
stream on a connection that also carries other notifications. Heartbeats, events, topology
snapshots and the chunks of other streams enter the same data queue of the server and the same
`notificationInput` of the client; `PublishOther` and `ReadOther` stand for all of them and may come
between any two steps of the stream. No byte of the window is lost or made up while the connection lives
(`WindowConserved`). A cautious client, which returns credit only once no further chunk fits
its window, never meets a chunk it rejects (`ClientAccepts`); `notificationInput`, which ends the
connection when it is full, is full only with more other notifications than the window leaves it
places (`NeverOverflows`); on an uninterrupted stream only the provider's own declarations and that
queue can end the connection, and with a window that fits the queue only when another notification
is in it (`OnlyProviderFaults`); and credit wakes
the producer that waits for it (`ChunksArrive`). Chunks of one and two bytes leave a chunk
that does not fit, an exact fit and a partly used window; three chunks are one more than
a queue holds, and `MaxOthers`, two other notifications, fill it alone or with chunks in every
order. Only one of the cases shares the connection, to keep the run short; the proofs cover
sharing in all of them.

### ClientRPC

`ClientRPC_calls` runs a query against a subscription, two initializations against each
other, a query against an initialization, and a subscription that is answered twice,
with one place in the pending table and in the write queue. The pending table is not
leaked (`PendingOwned`), a channel of capacity one gets one outcome (`OutcomeOnce`), a
response that came in time is returned even if the client ends first
(`CompletedKept`), a cancellation follows its request on the wire
(`CancelFollowsRequest`), at most one Initialize succeeds (`NegotiatedOnce`), and the end
of the client unblocks every call (`CloseUnblocks`). One place is enough for the race of
two initializations: the reader frees it before the first call has concluded.

### TerminalRegistry

`TerminalRegistry_calls` runs three calls at a time on two streams with room for one: an
attach that is retried, another attach command or a subscription for the same stream, a
detach, a credit, and up to two chunks from a provider that may stop reading at any time.
`attachPending` counts exactly the attaches that have not been completed
(`PendingCounted`); a flow leaves the registry only when the provider refused every attach
that shares it or a detach named it (`NoStreamForgotten`); a flow that was closed or replaced
is never written to, although both the reader and `sendTerminalCredit` check first and
change later (`OnlyCurrentFlows`); every call returns, also when a credit waits for a
stalled peer with the flow's mutex (`AllReturn`). Two attaches of one command and one
further call reach every order of complete, retire and reserve.

### Authorization

`Authorization_checks` gives two verifiers every pair of requests from approvals (approved,
rejected, expired, for older revisions, decided later), custody and isolation evidence
(genuine, with its list in another order, for an older scope, of the other kind, altered
after signing), or evidence lists for one run (two live verifications, a contract
verification, a reordered and an altered copy, and verifications signed over a run authorization or a
receipt whose own signature does not fit), evaluated for the run, for a contract only and for a live
scope that lacks its nonce. The clock, the withdrawal of evidence and
the trust epoch move until the last call has started. A nonce authorizes once (`SingleUse`), a
refusal spends nothing (`RefusalKeepsNonce`), only what was issued authorizes
(`GrantsGenuine`) and all of it does (`GenuineAccepted`), a run is bound to one
evidence (`RunBound`), and an evaluation projects what its definition says although other
callers' admissions come in between (`ProjectionRight`): a live scope counts when its four
fields are given, `Validate` refuses some without the others, and without them only contract
evidence is projected. `Consume` and `Accept` belong to the
caller; they are taken to be atomic and to remember, as their documentation asks. Callers always
supply a nonce store, a replay guard, a trust set and a positive epoch; the code refuses
the call otherwise.

### Conformance, Negotiation, Wire

`Conformance_suite` takes the committed matrix and four others through the runner against
twelve good providers and five sets of providers that change between launches, whose
processes, negotiations and calls may fail at every step. Every process is closed before the
next step (`NoProcessLeft`); a provider whose contract changes passes nothing after the change
(`OneContract`); a case is skipped exactly when its capability is missing (`SkipsRight`), and the
report's map lists no such case (`MappedCasesRan`); a good provider fails nothing if it takes
what `initializeRequest` offers, the authentication `none` and this platform, and else
fails every case (`GoodPasses`); stderr that is cut by the buffer hides no marker (`RedactionSound`); the
run ends (`Completes`). `MappedCasesRan` leaves out conditional `capability_mapping` cases and
conditional cases with two selectors: `CapabilityCaseMap` overlooks these selectors and lists such a
case although it was skipped. No committed matrix has one; the last of the other matrices does.

The same run compares the pure functions with reference definitions:

| Property | Inputs | Shows |
|---|---|---|
| `TablesAgree` | the four tables | no capability is missing from one of them |
| `AdvertisedServed` | 29 configurations, every capability | an advertised capability reaches a handler of its kind, any other is refused |
| `DeliveryTargetsRight` | the same, every delivery class | the command of a delivery case has the class and a role that the catalogue and the manifest give it |
| `NegotiationExact` | configurations and 864 offers | `initialize` succeeds exactly when an acceptable selection exists |
| `LimitsAgree` | the same with three client limits | the client sends no frame that the server refuses, the server none above the offer, and the limits are equal when the offer is within the client's own limit |
| `LimitsBound` | 500 limit records | the divisions in `Limits.Validate` bound the bytes |
| `ReadsWholeLines` | all streams up to seven bytes, a two byte buffer | `readFrame` depends on the line and not on its fragments |
| `FramesRoundTrip` | pairs of envelopes, partial writes | what is written is read back |
| `ProxyTransparent` | the same streams, cut anywhere | the gateway changes nothing when it has no faults |
| `ErrorsSound` | every code with messages and capability lists | what the server sends passes the client's check |
| `AuthorityKept` | values of depth two | reserved names are found at every depth and nowhere else |

A gateway that offers more than its own client reads may be sent a frame that this client refuses;
`LimitsAgree` does not say otherwise, as nothing in the code compares the two.

Three bytes (letter, newline, carriage return) are all that framing tells apart; seven bytes
hold a frame over the limit of three and another one behind it.

The runner's model assumes that a killed process takes no further request and is reaped
within the five seconds that `Provider.Close` waits. What the sequence tracker says of an
event is a choice; `EventJournal` is about the tracker. A report is kept as its last
entry and whether a required case failed.

### EventJournal

`EventJournal_journal` ingests three times and replays twice under two fault plans. A replay goes
through its snapshot one record per step, skips what its caller has and sends the rest
through the plan; `Apply` is a recursive function over the steps of the plan. One
event reuses the ID of a second and the number of a third, and one has the largest
sequence number of three bits. The journal is exactly what the tracker has seen
(`JournalExact`); a gap is reported exactly when a number is
missing, and for every further event of a stream that has reached the largest number, where the
sum in `Observe` wraps (`GapMeansHole`); a Replay returns all of its snapshot (`ReplayComplete`).
The snapshot is taken under the control plane's mutex, in one step.

### Disagreements between text and code

Two runs are expected to end in a violation; `PROJECT.json` quotes the lines.

* `TerminalFlow_eager`: credit that `SendTerminalCredit` accepts ends the connection,
  because the server compares it with an offset that a chunk in flight has moved. The
  model reaches the same rejection through a truncated chunk that waits for this very
  credit, and through a stream that has ended meanwhile.
* `ServerConnection_initfirst`: a request pipelined behind `provider.initialize` is accepted
  before the initialization has been answered, and even if it never is.

### Deadlock and fairness

Every run turns deadlock checking off: requests, chunks and calls are bounded, and a
system that has served them or whose connection has ended may stop.

Fairness is weak and on goroutine steps only: the Go scheduler runs what can run, and
a `select` with a ready case proceeds. `MutationLedger` also assumes that handlers return
(they are given a context with a deadline) and that the clock passes deadlines, and
nothing of the writer. `ServerConnection` assumes returning handlers and a `serve` that ends once its
reader has or its context is cancelled, and nothing of the peer or of writes to it.
`TerminalFlow` assumes an application that takes its notifications and
returns credit, and a transport that moves frames. `ClientRPC` assumes nothing but steps of the calls themselves.
`TerminalRegistry` assumes that a call's context ends when its peer has stalled, and nothing of
the peer. `Conformance` assumes steps of the runner only, the end of a case's context among
them: the provider need not answer.

Liveness properties have the form `<>[]P`. Requests, chunks and calls are bounded and what
ends stays ended, so this says that each of them is eventually served or given up.

## What is proved

### The ledger

`MutationLedgerProofs` proves, for any sets of requests, connections and commands and
from `LedgerAssumption` alone, that

* `DispatchedAtMostOnce`: no identity's handler is dispatched twice;
* `MapsAlwaysAgree`: both maps hold the same records;
* `RepliesAreTruthful` and `RepliesAreConsistent`: what peers read agrees with the handler and
  with what other peers read;
* `ErrorsFollowRollback`: an observable error has been rolled back;
* `ReleasesAreComplete`: a connection that drained before its release leaves no record behind;
* `ResultsAreStable`: no step changes a final answer of `command.get_result`;
* `ImplementsTheOutcome`: the ledger implements `CommandOutcome`;
* `ControlTypes` and `LedgerInvariant`: types and the inductive invariant itself.

None of the others is inductive. `LedgerInv` adds where each goroutine is and what it then
owns, replied and ran (`ControlInv`, one predicate `Placed` of those values), that map
entries are filed under their own identity (`MapInv`), the
only two ways a record leaves the maps (`RetainInv`), that a reply speaks of a record whose
handler cannot change any more (`ReplyInv`), that a request shares records of its own
command only (`RecordInv`), and that a connection which drained gets no record afterwards
(`DrainInv`). At-most-once rests on `RetainInv`: a second request of the same identity
finds the first record, unless the first never ran its handler or its connection was
released, and then the second, being on the same connection, fails the context check
before dispatch.

Most actions move one goroutine and settle at most its own record. `MoveInv` shows once that
such a move preserves the invariant if it is `Legal`, a condition on the new values of that
goroutine only, and each action is shown to be such a move. The few that change the
maps have proofs of their own. Each lemma shows more than the invariant, namely `Sound`: the
step also is one of a handful of changes to handlers, statuses and maps (`Changes`). The
last two properties are about steps, and follow from `Changes` without another case per
action. For the refinement, `Shifts` says what a step does to the outcome and the effect of
each identity. The effect is read off the one dispatched handler by `CHOOSE`, and
`Effects` shows that this is the handler of the record in the map.

`MutationLedgerBooks` adds `BooksBalance`, which is `LedgerSound`: for any finite set of requests
(`FiniteAssumption`, since the counter is compared with a sum over them) the byte counter is
exactly what the records hold, only records in the map hold bytes, and the limits on bytes and
entries are kept. The counter alone is not inductive. `BooksInv` adds that a pending record holds
the whole envelope limit of its connection and that no result is larger than that, so
`finalizeMutation` only ever gives bytes back, and that a record outside the map holds none, so
`releaseConnection` takes off no more than the counter has. What the fold in `Reservations`
computes is proved first, by induction on finite sets (`TotalAny`: any member can be taken out
of a sum).

### The connection

`ServerConnectionProofs` proves, for any finite set of requests of any kinds, with any IDs and
streams, and for any positive limits, that

* `PlacesAreAccounted`: slots, active IDs, places of subscriptions and both maps of them belong
  to goroutines and admissions that exist, and stay within their limits;
* `ResponsesPrecedeStreams`: no notification is queued before its response was written;
* `NegotiationIsStable`: one initialization succeeds at most, and stays in force while the
  connection is open;
* `ConnectionInvariant`: the inductive invariant itself.

`ConnectionAssumption` asks for a finite set of requests, since the counters are compared
with cardinalities, and for requests that differ from the few strings that stand beside them in a
variable's range. `ConnectionInv` has a part per resource. `RequestInv` says that the place of
a goroutine determines its answer, its frame and its admission (`Placed`); it gives
`ResponseBeforeStream`, because an admission streams only after its frame was written.
`SlotInv`, `PlaceInv` and `CountInv` tie the maps and counters to the requests in flight and the
open admissions. They need `RequestInv`: that no admission is released twice or
forgotten depends on where the goroutine was. `QueueInv` says that a frame is in one place, with
the reader, once in the queue, or with the writer, so no frame is written twice. `NegotiationInv` is what two pipelined initializations need: one that has begun and
was not rolled back is unique and is protected by `initializing` until its response is built, by
`initialized` after that, and by the end of the connection where its response may
or may not have arrived. A step is shown to keep the parts and to take or free at
most one slot and one place (`Kept`); `CountStep` turns this into the cardinalities.

### The client's calls

`ClientRPCProofs` proves, for any set of calls of any kinds, any limits and any number of duplicated
answers and from `ClientAssumption` alone, that

* `CallsAreSound`: the pending table and the write queue keep their limits, a place belongs to a
  call in progress and to none in a closed client, a call gets at most one outcome, and a
  cancellation follows its request on the wire;
* `CompletedIsKept`: a response that was delivered before the client ended is what its call
  returns, unless the call's own context ended;
* `InitializeNegotiatesOnce`: at most one `Initialize` returns a negotiated result.

`IInv` follows a request and its outcome. `Tracked` says that a request frame is in the queue, with
the writer or on the wire, in this order and once, and that the writer's report says where it
ended; neither a cancellation nor an answer runs ahead of it. `Placed` treats the right to send an
outcome as a token that lies in the pending table, with the reader or with `fail`: this is why the
channel of capacity one never blocks its sender. `Kept` is what makes the second look at the
channel necessary: a call whose write failed or whose client ended has either no response in
time or finds it there. The steps of a call are first shown to be moves of the control flow of
`callValidated` (`Legal`).

### The window of a terminal stream

`TerminalFlowProofs` proves, for any window, any sizes of chunks, any declared credit, any capacity
of the queues, streams of any length and from `FlowAssumption` alone, that

* `WindowIsKept`: while the connection lives, what the client believes may still come is what
  the server may still send plus the chunks and the credit on their way, and no queue outgrows
  its capacity;
* `FaultsAreEarned`: whatever other notifications the connection carries, a cautious client never
  meets a chunk it rejects, the client's queue overflows only with more other notifications than the
  window leaves it places, and an uninterrupted stream ends its connection only by a chunk that the
  provider declared wrongly or by that queue.

`FlowAssumption` asks for chunks that are not empty, as `TerminalChunk.Validate` does, and lets a
chunk be larger than the window. The chunks in flight are spread over the transport, the data queue and
the producer, and the window is compared with sums over them. What such a sum and such a selection
are for a queue of any length is proved first (`SumAppend`, `SumTail`, `KeepAppend`, `KeepTail`), and
then what each step does to what is in flight: one step adds its youngest chunk, one takes its
oldest, and every other step that touches a queue moves chunks within it (`RestQuiet`) or is about another
notification, which has no size (`OtherFlight`).

`WindowConserved` is inductive with the types; `ClientAccepts` is not, because it says nothing of
the chunks on their way. `ChainInv` does: they lead from the client's flow to the server's, each
one fits the flow that the one before leaves behind (`Chain`, `Joined`), and credit is on
its way only when no chunk is (`Needed`). The last part is where caution and
conservation meet: the client sent that credit when not even the smallest chunk fitted its
window, so until the server has read all of it none fits the server's either. `Joined` has the
one exception that the code has: `consume` takes over the offset of a truncated
chunk before the chunk is admitted. `InboxInv` charges each chunk that waits in the client's
queue with the smallest size, and leaves the other notifications there uncharged; when the queue is full
it bounds the chunks among them. And `SteadyInv` says that an uninterrupted stream stays one.

### The client's terminal flows

`TerminalRegistryProofs` proves, for any finite set of calls, any streams and any limits and from
`RegistryAssumption` alone, that

* `RegistryIsCounted`: types, limits, who holds a flow's mutex, and that `attachPending` is exactly
  the number of attaches that share the flow and have not been completed;
* `NoStreamIsForgotten`: a flow that an attach created leaves the registry only when a detach
  named it or no attach that shared it was accepted, left in doubt or is still to be completed;
* `OnlyCurrentFlowsChange`: no step changes what a flow is owed unless it is open and its stream's
  flow.

The last one is an action property about a check and a change in different steps. It rests on
`Mutex` and `Current` of `IInv`: who has made the check holds the flow's mutex, and a flow is closed with
the mutex before it is deleted, so the check still holds at the change. `Remembered` says of a
flow that is being taken down why it may go; `retiring` keeps a
retry from sharing it meanwhile. `Counted` compares a counter with a cardinality, hence the finite set. Each
of the eighteen steps of a call is first reduced to how the call moves and what it does to
one flow, the registry and one mutex (`Effect`), and each part of the invariant is shown once to
survive an effect.

### The event journal

`EventJournalProofs` proves, for any events, streams, fault plans, limits and width of the sequence
numbers, that

* `JournalIsSound`: the journal numbers its records without a hole, holds exactly what the tracker
  has seen, and binds an ID and a number of a stream to one content;
* `GapsAreHoles`: a gap is reported exactly when a number is missing or the stream has reached the
  largest number;
* `ReplayIsComplete`: a Replay that no fault dropped from, altered or failed returns every record of
  its snapshot that its caller lacks;
* `ApplyLosesNothing`: a call of `Apply` that does not fail and in which no step that drops or
  alters frames fires delivers or holds back every frame it was given or held.

`EventAssumption` says what an event is and that its number fits the width, and `CopiesAssumption`
that a duplication makes at least two frames. `2^Width` is positive by assumption because the
provers know no facts about powers. `Apply` goes through its plan as a recursive function;
`ApplyLosesNothing` is proved by induction on the steps of a plan of any length. `IInv` adds to the
properties that the tracker's set is unique in IDs and numbers (`Unique`), that `highest` is the
largest number of its stream and zero before the first one (`Highest`), and that a running Replay has returned
or holds back every record it has passed (`Kept`).

### Authorization

`AuthorizationProofs` proves, for any number of verifiers with any documents, policies and
evidence lists and from `AuthorizationAssumption` alone, that

* `NonceSingleUse`: a nonce authorizes at most one call;
* `NonceKept`: the consumed nonces are exactly those of the authorized calls;
* `RunsBound`: all live projections of a run name one evidence;
* `ProjectionIsRight`: a finished evaluation projects the last admissible live evidence, else
  the first admissible contract evidence, else nothing, for evidence lists of any length and
  whatever other callers admit between its iterations, and nothing for an
  expectation that gives its live scope in part;
* `TypeCorrect`: types, and that no call uses a clock reading or a withdrawal from the future.

`IInv` adds to these that a call's place fits its kind of request (`CallInv`) and that the
evidence of a live projection is what the replay guard has bound its run to
(`BoundInv`). `RunBound` is not inductive without `BoundInv`: it does not say that the next
evaluation meets the binding. What a check says of a document stays opaque except for two
facts, each a lemma: evidence that applies has a tier (`AppliesTier`), and the receipt of a
live run that applies carries the expected nonce (`LiveNonce`).

`ProjectionIsRight` rests on `LoopInv`, an invariant of the loop after any number of
iterations: the projection is the best of the admissible evidence seen so far
(`Projects`), and the guard has bound every run the loop has offered. Without the second
part evidence that was passed over could become admissible later, when another caller
binds its run. As the loop counts its own iterations, no induction over lists is needed.

### Only model-checked

* `GrantsGenuine` and `GenuineAccepted`: sorting is defined by choice, and what it does to a list of
  any length was not proved.
* Every liveness property: fairness and ENABLED are out of the prover's reach.
* The recursive functions of `Wire`, and what `Conformance`, `Negotiation` and `Capabilities` compute:
  they are defined with recursive operators, which the prover does not support.

### How the proofs are written

Induction over data cannot use the library's induction theorems, whose parameter is an operator.
It uses a set in its place: the least member of a set of natural numbers (`LeastNatural`) gives
induction on lengths in `EventJournalProofs` and `TerminalFlowProofs` and, by way of cardinalities, on finite sets in
`MutationLedgerBooks` (`FiniteInduction`). Every module starts with `USE Zenon`, and a leaf that
needs arithmetic or sequences cites `SMTT(30)`; such a leaf usually speaks of a few numbers
that were given names with `PICK`. Each inductive invariant was checked with TLC on
the component's run before it was proved.

## Plan

1. Proofs: the sorted lists of `Authorization` behind `GrantsGenuine` and `GenuineAccepted`.
2. The mock gateway with `Faults` in both directions at once.
3. The TypeScript server and client with awaits as the only cuts, against `CommandOutcome` too.

## Not modelled

* **The TypeScript SDK.** It implements the same protocol in its own code; each
  Go module would need a counterpart with other atomic steps.
* **The Unix socket listener.** What it does is decided by the file system (permissions, stale
  files, links), about which the code says nothing that could be checked.
* **A transport that fills up.** Queues inside the program are bounded, the transport is not, so
  a circular wait of two peers that both write is out of reach. One end against a peer that stalls is
  modelled: a write in `ServerConnection` may never return, and a credit in `TerminalRegistry` waits with a
  flow's mutex.
* **Field validation, JSON decoding, the report's form, the schema generator, command line
  tools and version strings** have no state that interleaves.
