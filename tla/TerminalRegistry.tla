-------------------------- MODULE TerminalRegistry --------------------------
(* The Go client's registry of terminal flows (provider/client.go): which   *)
(* call may use which flow while subscriptions, attaches and their retries, *)
(* detaches, credit and incoming chunks run concurrently.                   *)
(*                                                                          *)
(* Client.mu is held only inside single actions.  A flow's own mutex is a   *)
(* variable, because sendTerminalCredit keeps it while it waits for the     *)
(* writer and the reader keeps it while it asks whether the flow is active. *)
(* A flow is named by the call that created it.  What the bytes of a stream *)
(* do to its window is the subject of TerminalFlow: here a flow counts the  *)
(* chunks that were not credited yet.                                       *)
EXTENDS Integers, FiniteSets

CONSTANTS
    Calls,              \* the calls an application may make
    Workloads,          \* the sets of calls to start from
    Op, Key, Digest,    \* what a call does, its stream and its command's digest
    Keys,               \* native session and stream ID of a terminal
    Subs,               \* subscription IDs the provider hands out
    MaxSubscriptions,
    MaxChunks,          \* bound: chunks the provider sends
    None

ASSUME RegistryAssumption ==
    /\ IsFiniteSet(Calls) /\ None \notin Calls /\ "reader" \notin Calls \cup {None}
    /\ Workloads \subseteq SUBSET Calls
    /\ Op \in [Calls -> {"subscribe", "attach", "detach", "credit"}]
    /\ Key \in [Calls -> Keys]
    /\ MaxSubscriptions \in Nat /\ MaxChunks \in Nat

VARIABLES
    workload,
    registry,           \* registry[k]: Client.terminalFlows
    flow,               \* flow[f]: the clientTerminalFlow that call f created
    holder,             \* holder[f]: who holds its mutex
    call,               \* call[c]: where it is, the flow it uses, what it was told
    reader,             \* the read loop: idle, or with a chunk for a flow
    peer,               \* the provider reads and answers, or has stalled
    streaming,          \* streams the provider has opened
    chunks,             \* chunks sent
    failed              \* Client.fail has run

vars == <<workload, registry, flow, holder, call, reader, peer, streaming, chunks, failed>>

NoFlow == [digest |-> None, pending |-> 0, established |-> FALSE, unknown |-> FALSE,
           retiring |-> FALSE, closed |-> FALSE, sub |-> None, owed |-> 0, detached |-> FALSE]
Idle == [pc |-> "idle", on |-> None]

Init == /\ workload \in Workloads
        /\ registry = [k \in Keys |-> None]
        /\ flow = [f \in Calls |-> NoFlow]
        /\ holder = [f \in Calls |-> None]
        /\ call = [c \in Calls |-> [pc |-> IF c \in workload THEN "start" ELSE "returned",
                                    on |-> None, told |-> None, sub |-> None, scan |-> {}]]
        /\ reader = Idle
        /\ peer = "responsive"
        /\ streaming = {}
        /\ chunks = 0
        /\ failed = FALSE

Goto(c, pc) == call' = [call EXCEPT ![c].pc = pc]
Return(c, told) == call' = [call EXCEPT ![c].pc = "returned", ![c].told = told]
Registered(f) == registry[Key[f]] = f
Count == Cardinality({k \in Keys : registry[k] # None})
Fail == failed' = TRUE
other == <<workload, peer, chunks>>

(***************************** reservation *********************************)

\* reserveTerminalFlow: a stream has one flow.
ReserveTerminalFlow(c) ==
    LET k == Key[c]
    IN /\ call[c].pc = "start" /\ Op[c] = "subscribe"
       /\ \/ /\ registry[k] # None \/ Count >= MaxSubscriptions
             /\ Return(c, "refused") /\ UNCHANGED <<registry, flow>>
          \/ /\ registry[k] = None /\ Count < MaxSubscriptions
             /\ registry' = [registry EXCEPT ![k] = c]
             /\ call' = [call EXCEPT ![c].pc = "calling", ![c].on = c]
             /\ UNCHANGED flow
       /\ UNCHANGED <<holder, reader, streaming, failed, other>>

\* Mutant: a retry joins a flow that is being retired.
ReserveRetiring(c) ==
    LET k == Key[c]
        f == registry[k]
    IN /\ call[c].pc = "start" /\ Op[c] = "attach"
       /\ \/ /\ f # None /\ flow[f].digest = Digest[c]
             /\ flow' = [flow EXCEPT ![f].pending = @ + 1]
             /\ call' = [call EXCEPT ![c].pc = "calling", ![c].on = f] /\ UNCHANGED registry
          \/ /\ f = None /\ Count < MaxSubscriptions
             /\ registry' = [registry EXCEPT ![k] = c]
             /\ flow' = [flow EXCEPT ![c].digest = Digest[c], ![c].pending = 1]
             /\ call' = [call EXCEPT ![c].pc = "calling", ![c].on = c]
       /\ UNCHANGED <<holder, reader, streaming, failed, other>>

\* reserveAttachedTerminalFlow: a retry of the same command shares its flow.
ReserveAttachedTerminalFlow(c) ==
    LET k == Key[c]
        f == registry[k]
        shares == f # None /\ ~flow[f].retiring /\ flow[f].digest = Digest[c]
        fresh == f = None /\ Count < MaxSubscriptions
    IN /\ call[c].pc = "start" /\ Op[c] = "attach"
       /\ \/ /\ ~shares /\ ~fresh
             /\ Return(c, "refused") /\ UNCHANGED <<registry, flow>>
          \/ /\ shares
             /\ flow' = [flow EXCEPT ![f].pending = @ + 1]
             /\ call' = [call EXCEPT ![c].pc = "calling", ![c].on = f]
             /\ UNCHANGED registry
          \/ /\ fresh
             /\ registry' = [registry EXCEPT ![k] = c]
             /\ flow' = [flow EXCEPT ![c].digest = Digest[c], ![c].pending = 1]
             /\ call' = [call EXCEPT ![c].pc = "calling", ![c].on = c]
       /\ UNCHANGED <<holder, reader, streaming, failed, other>>

\* A detach names a subscription that some call was given.
SendDetach(c) ==
    /\ call[c].pc = "start" /\ Op[c] = "detach"
    /\ \/ \E d \in Calls : /\ call[d].told = "ok" /\ call[d].sub # None
                           /\ call' = [call EXCEPT ![c].pc = "calling", ![c].sub = call[d].sub]
       \/ /\ \A d \in Calls : Op[d] \in {"subscribe", "attach"} => call[d].pc = "returned"
          /\ Return(c, "refused")
    /\ UNCHANGED <<registry, flow, holder, reader, streaming, failed, other>>

(******************************* outcomes **********************************)

\* Where a call goes with the outcome of callValidated: an ambiguous error or an
\* invalid answer to a subscription ends the client, a failed attach is completed.
Concluded(c, told) ==
    IF Op[c] = "subscribe" THEN IF told = "ok" THEN "bind" ELSE "mark"
    ELSE IF Op[c] = "attach" THEN IF told = "ok" THEN "bind" ELSE "complete"
    ELSE IF told = "ok" THEN "snapshot" ELSE "returned"
Fatal(c, told) == \/ told = "invalid" /\ Op[c] # "detach"
                  \/ told = "ambiguous" /\ Op[c] = "subscribe"
Conclude(c, told, sub) ==
    /\ call' = [call EXCEPT ![c].pc = Concluded(c, told), ![c].told = told, ![c].sub = sub]
    /\ failed' = (failed \/ Fatal(c, told))

\* The read loop hands an answer to its call: accepted with a subscription,
\* accepted with a result the client does not understand, or an error, which may be
\* one that leaves the outcome open (ambiguousTerminalFlowError).
Answer(c) ==
    /\ peer = "responsive" /\ ~failed /\ reader = Idle /\ call[c].pc = "calling"
    /\ \/ /\ Op[c] = "detach" /\ Conclude(c, "ok", call[c].sub) /\ UNCHANGED streaming
       \/ /\ Op[c] # "detach"
          /\ \E s \in Subs, told \in {"ok", "invalid"} : Conclude(c, told, s)
          /\ streaming' = streaming \cup {Key[c]}
       \/ /\ \E told \in {"refused", "ambiguous"} : Conclude(c, told, call[c].sub)
          /\ UNCHANGED streaming
    /\ UNCHANGED <<registry, flow, holder, reader, other>>

\* The context ends, or the client has failed, before an answer.  A context that ends
\* is seen here and in WriteAbandoned; elsewhere it changes nothing.  The error that fail
\* passes on may be a definite one.
GiveUp(c) ==
    /\ call[c].pc = "calling"
    /\ \E told \in {"ambiguous"} \cup (IF failed THEN {"refused"} ELSE {}) : Conclude(c, told, call[c].sub)
    /\ UNCHANGED <<registry, flow, holder, reader, streaming, other>>

\* bindSubscription, with the flow's mutex; a subscription that cannot be bound
\* ends the client, an attach is completed with the conflict.
BindSubscription(c) ==
    LET f == call[c].on
        clash == flow[f].closed \/ flow[f].sub \notin {None, call[c].sub}
    IN /\ call[c].pc = "bind" /\ holder[f] = None
       /\ \/ /\ clash
             /\ call' = [call EXCEPT ![c].told = "refused",
                            ![c].pc = IF Op[c] = "attach" THEN "complete" ELSE "mark"]
             /\ failed' = (failed \/ Op[c] = "subscribe") /\ UNCHANGED flow
          \/ /\ ~clash
             /\ flow' = [flow EXCEPT ![f].sub = call[c].sub]
             /\ Goto(c, IF Op[c] = "attach" THEN "complete" ELSE "returned") /\ UNCHANGED failed
       /\ UNCHANGED <<registry, holder, reader, streaming, other>>

\* Mutant: a completed call is not taken off the pending count.
CompleteUncounted(c) ==
    LET f == call[c].on
    IN /\ call[c].pc = "complete"
       /\ flow' = [flow EXCEPT ![f].established = @ \/ call[c].told = "ok",
                               ![f].unknown = @ \/ call[c].told = "ambiguous"]
       /\ Goto(c, "returned")
       /\ UNCHANGED <<registry, holder, reader, streaming, failed, other>>

\* completeAttachedTerminalFlow's section under Client.mu: the last call on a flow
\* that nothing established and nothing left in doubt takes it down.
CompleteAttached(c) ==
    LET f == call[c].on
        told == call[c].told
        pending == flow[f].pending - 1
        remove == /\ told \in {"refused", "invalid"} /\ pending = 0
                  /\ ~flow[f].established /\ ~flow[f].unknown /\ Registered(f)
    IN /\ call[c].pc = "complete"
       /\ flow' = [flow EXCEPT ![f].pending = pending, ![f].established = @ \/ told = "ok",
                               ![f].unknown = @ \/ told = "ambiguous", ![f].retiring = @ \/ remove]
       /\ Goto(c, IF remove THEN "mark" ELSE "returned")
       /\ UNCHANGED <<registry, holder, reader, streaming, failed, other>>

(****************************** retirement *********************************)

\* removeTerminalFlowForCommand: a snapshot of the flows under Client.mu, then each
\* in turn under its own mutex until one has the subscription.
Snapshot(c) ==
    /\ call[c].pc = "snapshot"
    /\ call' = [call EXCEPT ![c].pc = "scan", ![c].scan = {registry[k] : k \in Keys} \ {None}]
    /\ UNCHANGED <<registry, flow, holder, reader, streaming, failed, other>>
Scan(c) ==
    /\ call[c].pc = "scan"
    /\ \/ \E f \in call[c].scan :
             /\ holder[f] = None
             /\ IF flow[f].sub = call[c].sub
                THEN /\ call' = [call EXCEPT ![c].pc = "mark", ![c].on = f, ![c].scan = {}]
                     /\ flow' = [flow EXCEPT ![f].detached = TRUE]
                ELSE call' = [call EXCEPT ![c].scan = @ \ {f}] /\ UNCHANGED flow
       \/ call[c].scan = {} /\ Goto(c, "returned") /\ UNCHANGED flow
    /\ UNCHANGED <<registry, holder, reader, streaming, failed, other>>

\* retireTerminalFlow: mark under Client.mu, close under the flow's mutex, delete
\* under Client.mu.
Mark(c) ==
    LET f == call[c].on
    IN /\ call[c].pc = "mark"
       /\ flow' = [flow EXCEPT ![f].retiring = @ \/ Registered(f)]
       /\ Goto(c, "close")
       /\ UNCHANGED <<registry, holder, reader, streaming, failed, other>>

\* Mutant: close does not take the flow's mutex.
CloseUnlocked(c) ==
    /\ call[c].pc = "close"
    /\ flow' = [flow EXCEPT ![call[c].on].closed = TRUE]
    /\ Goto(c, "delete")
    /\ UNCHANGED <<registry, holder, reader, streaming, failed, other>>

CloseFlow(c) ==
    LET f == call[c].on
    IN /\ call[c].pc = "close" /\ holder[f] = None
       /\ flow' = [flow EXCEPT ![f].closed = TRUE]
       /\ Goto(c, "delete")
       /\ UNCHANGED <<registry, holder, reader, streaming, failed, other>>

DeleteFlow(c) ==
    LET f == call[c].on
    IN /\ call[c].pc = "delete"
       /\ registry' = IF Registered(f) THEN [registry EXCEPT ![Key[f]] = None] ELSE registry
       /\ Goto(c, "returned")
       /\ UNCHANGED <<flow, holder, reader, streaming, failed, other>>

(******************************** credit ***********************************)

\* SendTerminalCredit looks the flow up; sendTerminalCredit locks it.
Lookup(k) == IF registry[k] # None /\ flow[registry[k]].retiring THEN None ELSE registry[k]
Active(f) == Registered(f) /\ ~flow[f].retiring

FindFlow(c) ==
    /\ call[c].pc = "start" /\ Op[c] = "credit" /\ Key[c] \in streaming
    /\ IF Lookup(Key[c]) = None THEN Return(c, "refused")
       ELSE call' = [call EXCEPT ![c].pc = "lock", ![c].on = Lookup(Key[c])]
    /\ UNCHANGED <<registry, flow, holder, reader, streaming, failed, other>>

LockFlow(c) ==
    LET f == call[c].on
    IN /\ call[c].pc = "lock" /\ holder[f] = None
       /\ holder' = [holder EXCEPT ![f] = c]
       /\ Goto(c, "active")
       /\ UNCHANGED <<registry, flow, reader, streaming, failed, other>>

\* The flow is open and active; the credit may still not name what was received.
CheckCredit(c) ==
    LET f == call[c].on
        good == ~flow[f].closed /\ Active(f) /\ flow[f].owed > 0
    IN /\ call[c].pc = "active"
       /\ \/ good /\ Goto(c, "writing") /\ UNCHANGED holder
          \/ Return(c, "refused") /\ holder' = [holder EXCEPT ![f] = None]
       /\ UNCHANGED <<registry, flow, reader, streaming, failed, other>>

\* The writer has written the frame: the window grows and the flow is unlocked.
Written(c) ==
    LET f == call[c].on
    IN /\ call[c].pc = "writing" /\ peer = "responsive" /\ ~failed
       /\ flow' = [flow EXCEPT ![f].owed = @ - 1]
       /\ holder' = [holder EXCEPT ![f] = None]
       /\ Return(c, "ok")
       /\ UNCHANGED <<registry, reader, streaming, failed, other>>

\* Mutant: a cancelled write leaves without the deferred unlock.
WriteAbandonedLocked(c) ==
    /\ call[c].pc = "writing"
    /\ Return(c, "ambiguous") /\ Fail
    /\ UNCHANGED <<registry, flow, holder, reader, streaming, other>>

\* The client is done, or the context ends in Client.write: before the frame is queued
\* the credit is not sent, afterwards the client ends.
WriteAbandoned(c) ==
    /\ call[c].pc = "writing"
    /\ Return(c, "ambiguous") /\ failed' \in {failed, TRUE}
    /\ holder' = [holder EXCEPT ![call[c].on] = None]
    /\ UNCHANGED <<registry, flow, reader, streaming, other>>

(******************************** reader ***********************************)

\* A chunk arrives: consumeTerminalChunk looks its flow up.  One for no flow, or for
\* one that is being retired, ends the client, as any invalid notification does.
ReadChunk(k) ==
    /\ peer = "responsive" /\ ~failed /\ reader = Idle /\ k \in streaming /\ chunks < MaxChunks
    /\ chunks' = chunks + 1
    /\ IF Lookup(k) = None THEN Fail /\ UNCHANGED reader
       ELSE reader' = [pc |-> "lock", on |-> Lookup(k)] /\ UNCHANGED failed
    /\ UNCHANGED <<workload, registry, flow, holder, call, peer, streaming>>

LockForChunk ==
    /\ reader.pc = "lock" /\ holder[reader.on] = None
    /\ holder' = [holder EXCEPT ![reader.on] = "reader"]
    /\ reader' = [reader EXCEPT !.pc = "active"]
    /\ UNCHANGED <<registry, flow, call, streaming, failed, other>>

\* consume's first check, under the flow's mutex: closed, or not active any more.
CheckChunk ==
    LET f == reader.on
    IN /\ reader.pc = "active"
       /\ \/ /\ ~flow[f].closed /\ Active(f)
             /\ reader' = [reader EXCEPT !.pc = "apply"] /\ UNCHANGED <<holder, failed>>
          \/ /\ flow[f].closed \/ ~Active(f)
             /\ reader' = Idle /\ holder' = [holder EXCEPT ![f] = None] /\ Fail
       /\ UNCHANGED <<registry, flow, call, streaming, other>>

ApplyChunk ==
    LET f == reader.on
    IN /\ reader.pc = "apply"
       /\ flow' = [flow EXCEPT ![f].owed = @ + 1]
       /\ holder' = [holder EXCEPT ![f] = None]
       /\ reader' = Idle
       /\ UNCHANGED <<registry, call, streaming, failed, other>>

(***************************** environment *********************************)

\* A credit that finds no stream open is not sent; the application gives up on it.
Forgo(c) == /\ call[c].pc = "start" /\ Op[c] = "credit"
            /\ \A d \in workload : Op[d] \in {"subscribe", "attach"} => call[d].pc = "returned"
            /\ Key[c] \notin streaming
            /\ Return(c, "refused")
            /\ UNCHANGED <<registry, flow, holder, reader, streaming, failed, other>>

\* The provider stops reading and answering.
Stall == /\ peer = "responsive" /\ peer' = "stalled"
         /\ UNCHANGED <<workload, registry, flow, holder, call, reader, streaming, chunks, failed>>

Proceed(c) == \/ ReserveTerminalFlow(c) \/ ReserveAttachedTerminalFlow(c) \/ SendDetach(c)
              \/ Answer(c) \/ BindSubscription(c) \/ CompleteAttached(c)
              \/ Snapshot(c) \/ Scan(c) \/ Mark(c) \/ CloseFlow(c) \/ DeleteFlow(c)
              \/ FindFlow(c) \/ LockFlow(c) \/ CheckCredit(c) \/ Written(c) \/ Forgo(c)
Abandon(c) == GiveUp(c) \/ WriteAbandoned(c)
ReaderStep == LockForChunk \/ CheckChunk \/ ApplyChunk

Next == \/ \E c \in Calls : Proceed(c) \/ Abandon(c)
        \/ \E k \in Keys : ReadChunk(k)
        \/ ReaderStep
        \/ Stall

Spec == Init /\ [][Next]_vars

\* Goroutines run, and a responsive provider answers and reads; once it has stalled the
\* contexts of the calls end, and once the client has failed they are told.
FairSpec == /\ Spec
            /\ \A c \in Calls : /\ WF_vars(Proceed(c))
                                /\ WF_vars((peer = "stalled" \/ failed) /\ Abandon(c))
            /\ WF_vars(ReaderStep)

(****************************** properties *********************************)

\* The variables' types; the registry stays within MaxSubscriptions and a mutex is
\* held only by who is between its lock and its unlock (client.go:1036, 1069, 534).
TypeOK ==
    /\ workload \in Workloads
    /\ registry \in [Keys -> Calls \cup {None}] /\ Count <= MaxSubscriptions
    /\ \A k \in Keys : registry[k] # None => Key[registry[k]] = k
    /\ \A f \in Calls : /\ flow[f].pending \in 0..Cardinality(Calls)
                        /\ flow[f].owed \in 0..MaxChunks
                        /\ flow[f].sub \in Subs \cup {None}
                        /\ holder[f] \in Calls => call[holder[f]].on = f /\ call[holder[f]].pc \in {"active", "writing"}
                        /\ holder[f] = "reader" => reader.on = f /\ reader.pc \in {"active", "apply"}
    /\ streaming \subseteq Keys /\ chunks \in 0..MaxChunks /\ failed \in BOOLEAN

\* attachPending counts exactly the attaches that share the flow and have not been
\* completed, through retries, refusals and detaches (client.go:1064, 1115).
PendingCounted ==
    \A f \in Calls : flow[f].pending =
        Cardinality({c \in Calls : /\ Op[c] = "attach" /\ call[c].on = f
                                   /\ call[c].pc \in {"calling", "bind", "complete"}})

\* The registry does not let go of a stream the provider may be sending on: as long
\* as the client has not failed, a flow leaves it only when the provider refused
\* every attach that shared it, or when a detach named its subscription.
NoStreamForgotten ==
    \A f \in Calls : Op[f] = "attach" /\ flow[f].digest # None /\ ~Registered(f) /\ ~failed
        /\ ~flow[f].detached => flow[f].pending = 0 /\ ~flow[f].established /\ ~flow[f].unknown

\* Chunks and credit change a flow only while it is its stream's flow: a closed or
\* replaced flow is never written to, whatever runs between the check that it is
\* active and the change (consume and sendTerminalCredit against retireTerminalFlow).
OnlyCurrentFlows ==
    [][\A f \in Calls : flow'[f].owed # flow[f].owed => Registered(f) /\ ~flow[f].closed]_vars

\* Every call returns: while the provider answers and reads, and also when it stalls
\* and the contexts end, although a credit then waits with a flow's mutex on which the
\* reader, a detach or a retirement waits (client.go:533).
AllReturn == <>[](\A c \in Calls : call[c].pc = "returned")

\* The registry's books: limits, the discipline of the flows' mutexes, and the count
\* of attaches that share a flow (reserve, complete and retire).
RegistryCounted == TypeOK /\ PendingCounted
=============================================================================
