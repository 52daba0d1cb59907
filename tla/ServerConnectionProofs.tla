----------------------- MODULE ServerConnectionProofs -----------------------
(***************************************************************************)
(* What holds in every behaviour of a connection of the provider server,   *)
(* for any set of requests and any limits: the inductive invariant, the    *)
(* steps that preserve it, and the theorems.                               *)
(***************************************************************************)
EXTENDS ServerConnection, FiniteSetTheorems, TLAPS

Labels == {"unsent", "refused", "execute", "running", "respond", "enqueue", "flushing", "exit", "done"}

\* A request that holds a slot, and an admission that holds a place.
Flying(p) == p \notin {"unsent", "refused", "done"}
Holding(a) == a \in {"open", "streaming"}

\* Where a request is (p) determines its answer (s), what became of its frame (f), the
\* state of its admission (a), and whether it may have sent notifications (n).
Placed(r, p, s, f, a, n) ==
    /\ p \in Labels /\ s \in {"none", "ok", "error"}
    /\ f \in {"none", "queued", "writing", "written", "skipped", "failed"}
    /\ a \in {"none", "open", "streaming", "closed"} /\ n \in Nat
    /\ a # "none" => Kind[r] = "subscribe" /\ p \notin {"unsent", "refused", "execute"}
    /\ f # "none" => p \in {"refused", "flushing", "exit", "done"}
    /\ s = "ok" => p \in {"respond", "enqueue", "flushing", "exit", "done"}
    /\ p \in {"respond", "enqueue", "flushing"} => s # "none"
    /\ a = "open" <=> /\ Kind[r] = "subscribe"
                      /\ p = "running" \/ (s = "ok" /\ p \in {"respond", "enqueue", "flushing"})
    /\ a = "streaming" \/ n > 0 => f = "written" /\ s = "ok" /\ p \in {"exit", "done"}

\* An initialization that has begun and was not undone (r, p, s and f as above), and what
\* protects it from a second one: i is initialized, g is initializing, u is up.
Engaged(r, p, s, f) ==
    /\ Kind[r] = "initialize"
    /\ \/ p = "running"
       \/ s = "ok" /\ (p \in {"respond", "enqueue", "flushing"} \/ f \in {"queued", "writing", "written"})
Secured(r, p, s, f, i, g, u) == Engaged(r, p, s, f) =>
    /\ p = "running" \/ p = "respond" => g
    /\ p \in {"enqueue", "flushing"} => i
    /\ p \in {"exit", "done"} => i \/ ~u

LoopTypes ==
    /\ reader \in {"reading", "ended"} \cup Requests
    /\ up \in BOOLEAN /\ closing \in BOOLEAN
    /\ writer \in {"top", "select", "notifying", "ended"} \cup Requests
    /\ control \in Seq(Requests) /\ Len(control) <= MaxOutboundQueue
    /\ data \in Seq(Requests \cup {Heartbeat}) /\ Len(data) <= MaxOutboundQueue
    /\ ended \subseteq Requests /\ cancelled \subseteq Requests

RequestInv ==
    /\ pc \in [Requests -> Labels]
    /\ reply \in [Requests -> {"none", "ok", "error"}]
    /\ frame \in [Requests -> {"none", "queued", "writing", "written", "skipped", "failed"}]
    /\ admission \in [Requests -> {"none", "open", "streaming", "closed"}]
    /\ sent \in [Requests \cup {Heartbeat} -> Nat]
    /\ \A r \in Requests : Placed(r, pc[r], reply[r], frame[r], admission[r], sent[r])

SlotInv ==
    /\ active \in [IDs -> Requests \cup {None}]
    /\ \A i \in IDs : active[i] # None => active[i] \in InFlight /\ RequestID[active[i]] = i
    /\ \A r \in InFlight : active[RequestID[r]] = r

PlaceInv ==
    /\ terminalStreams \in [Streams -> Admitted \cup {None}]
    /\ subscriptionCancels \in [SubscriptionIDs -> Admitted \cup {None}]
    /\ \A r \in Admitted : Stream[r] # None => terminalStreams[Stream[r]] = r

\* Each frame is in one place: with the reader, once in the control queue, or with the
\* writer.
QueueInv ==
    /\ reader \in Requests => pc[reader] = "refused" /\ frame[reader] = "none"
    /\ \A k \in 1..Len(control) : frame[control[k]] = "queued"
    /\ \A k, l \in 1..Len(control) : control[k] = control[l] => k = l
    /\ writer \in Requests => frame[writer] = "writing"

NegotiationInv ==
    /\ initialized \in BOOLEAN /\ initializing \in BOOLEAN /\ negotiated = initialized
    /\ ~(initialized /\ initializing)
    /\ \A r \in Requests : Secured(r, pc[r], reply[r], frame[r], initialized, initializing, up)
    /\ \A r, q \in Requests : Engaged(r, pc[r], reply[r], frame[r]) /\ Engaged(q, pc[q], reply[q], frame[q]) => r = q

\* What the two counters count.
CountInv ==
    /\ slots = Cardinality(InFlight) /\ slots <= MaxInFlightRequests
    /\ subscriptions = Cardinality(Admitted) /\ subscriptions <= MaxSubscriptions

ConnectionInv ==
    LoopTypes /\ RequestInv /\ SlotInv /\ PlaceInv /\ QueueInv /\ NegotiationInv /\ CountInv

\* A step preserves the invariant, and takes or frees at most one slot and one place,
\* within the limits.
SlotStep ==
    /\ SlotInv'
    /\ \/ InFlight' = InFlight /\ slots' = slots
       \/ \E r \in Requests \ InFlight : /\ InFlight' = InFlight \cup {r} /\ slots' = slots + 1
                                         /\ slots < MaxInFlightRequests
       \/ \E r \in InFlight : InFlight' = InFlight \ {r} /\ slots' = slots - 1
PlaceStep ==
    /\ PlaceInv'
    /\ \/ Admitted' = Admitted /\ subscriptions' = subscriptions
       \/ \E r \in Requests \ Admitted : /\ Admitted' = Admitted \cup {r} /\ subscriptions' = subscriptions + 1
                                         /\ subscriptions < MaxSubscriptions
       \/ \E r \in Admitted : /\ Admitted' = Admitted \ {r}
                              /\ subscriptions' = IF subscriptions > 0 THEN subscriptions - 1 ELSE subscriptions
Kept == LoopTypes' /\ RequestInv' /\ SlotStep /\ PlaceStep /\ QueueInv' /\ NegotiationInv'

-----------------------------------------------------------------------------
(* The parts of the invariant, each under the steps that touch it *)

\* The definitions most leaves need.
USE Zenon DEF Flying, Holding

\* What a step does to one request.
Moved(r, p, s, f, a, n) ==
    /\ pc' = [pc EXCEPT ![r] = p] /\ reply' = [reply EXCEPT ![r] = s]
    /\ frame' = [frame EXCEPT ![r] = f] /\ admission' = [admission EXCEPT ![r] = a]
    /\ sent' = [sent EXCEPT ![r] = n]

\* The invariant of one request.
LEMMA Here == ASSUME RequestInv, NEW r \in Requests
              PROVE  Placed(r, pc[r], reply[r], frame[r], admission[r], sent[r])
BY DEF RequestInv

\* A request that keeps its values is as good as assigned them.
LEMMA Same ==
    ASSUME RequestInv, NEW r \in Requests
    PROVE  /\ pc = [pc EXCEPT ![r] = pc[r]] /\ reply = [reply EXCEPT ![r] = reply[r]]
           /\ frame = [frame EXCEPT ![r] = frame[r]]
           /\ admission = [admission EXCEPT ![r] = admission[r]]
           /\ sent = [sent EXCEPT ![r] = sent[r]]
BY DEF RequestInv

\* The moved request has its new values, and every other request its old ones.
LEMMA Apart ==
    ASSUME RequestInv, NEW r \in Requests, NEW p, NEW s, NEW f, NEW a, NEW n,
           Moved(r, p, s, f, a, n)
    PROVE  /\ pc'[r] = p /\ reply'[r] = s /\ frame'[r] = f /\ admission'[r] = a /\ sent'[r] = n
           /\ \A q \in Requests \ {r} :
                /\ pc'[q] = pc[q] /\ reply'[q] = reply[q] /\ frame'[q] = frame[q]
                /\ admission'[q] = admission[q] /\ sent'[q] = sent[q]
BY DEF RequestInv, Moved

\* A move of one request to values that belong together preserves RequestInv.
LEMMA RequestMove ==
    ASSUME RequestInv, NEW r \in Requests, NEW p, NEW s, NEW f, NEW a, NEW n,
           Moved(r, p, s, f, a, n), Placed(r, p, s, f, a, n)
    PROVE  RequestInv'
<1>1. \A q \in Requests : Placed(q, pc'[q], reply'[q], frame'[q], admission'[q], sent'[q])
    BY SMTT(30), Apart, Here
<1>2. /\ pc' \in [Requests -> Labels]
      /\ reply' \in [Requests -> {"none", "ok", "error"}]
      /\ frame' \in [Requests -> {"none", "queued", "writing", "written", "skipped", "failed"}]
      /\ admission' \in [Requests -> {"none", "open", "streaming", "closed"}]
      /\ sent' \in [Requests \cup {Heartbeat} -> Nat]
    BY DEF RequestInv, Moved, Placed
<1>. QED BY <1>1, <1>2 DEF RequestInv

\* Slots: a request that stays in flight, or out of it, keeps the books; one more or one
\* less in flight takes a slot or frees it.
LEMMA SlotsKept ==
    ASSUME RequestInv, SlotInv, NEW r \in Requests, NEW p, pc' = [pc EXCEPT ![r] = p],
           Flying(p) <=> Flying(pc[r]), UNCHANGED <<active, slots>>
    PROVE  SlotStep
<1>1. InFlight' = InFlight
    BY DEF InFlight, RequestInv
<1>. QED BY <1>1 DEF SlotInv, SlotStep

\* A request read with a free ID takes a slot.
LEMMA SlotTaken ==
    ASSUME RequestInv, SlotInv, NEW r \in Requests, pc[r] = "unsent", pc' = [pc EXCEPT ![r] = "execute"],
           active[RequestID[r]] = None, slots < MaxInFlightRequests,
           active' = [active EXCEPT ![RequestID[r]] = r], slots' = slots + 1
    PROVE  SlotStep
<1>1. InFlight' = InFlight \cup {r} /\ r \notin InFlight /\ InFlight \subseteq Requests
    BY DEF InFlight, RequestInv
<1>2. RequestID[r] \in IDs /\ \A q \in InFlight : RequestID[q] \in IDs /\ RequestID[q] # RequestID[r]
    BY SMTT(30), <1>1, ConnectionAssumption DEF SlotInv, IDs
<1>3. SlotInv'
    BY <1>1, <1>2 DEF SlotInv
<1>. QED BY <1>1, <1>3 DEF SlotStep

\* A request that exits frees it.
LEMMA SlotFreed ==
    ASSUME RequestInv, SlotInv, NEW r \in Requests, pc[r] = "exit", pc' = [pc EXCEPT ![r] = "done"],
           active' = [active EXCEPT ![RequestID[r]] = None], slots' = slots - 1
    PROVE  SlotStep
<1>1. InFlight' = InFlight \ {r} /\ r \in InFlight /\ InFlight \subseteq Requests
    BY DEF InFlight, RequestInv
<1>2. /\ RequestID[r] \in IDs /\ active[RequestID[r]] = r
      /\ \A q \in InFlight : RequestID[q] \in IDs /\ (q # r => RequestID[q] # RequestID[r])
    BY <1>1 DEF SlotInv, IDs
<1>3. SlotInv'
    BY <1>1, <1>2 DEF SlotInv
<1>. QED BY <1>1, <1>3 DEF SlotStep

\* Places of subscriptions, likewise.
LEMMA PlacesKept ==
    ASSUME RequestInv, PlaceInv, NEW r \in Requests, NEW a, admission' = [admission EXCEPT ![r] = a],
           Holding(a) <=> Holding(admission[r]),
           UNCHANGED <<subscriptions, terminalStreams, subscriptionCancels>>
    PROVE  PlaceStep
<1>1. Admitted' = Admitted
    BY DEF Admitted, RequestInv
<1>. QED BY <1>1 DEF PlaceInv, PlaceStep

\* subscriptionAdmission.prepare names an admission that is open.
LEMMA PlacePrepared ==
    ASSUME PlaceInv, NEW r \in Requests, admission[r] = "open",
           UNCHANGED <<admission, subscriptions, terminalStreams>>,
           NEW s \in SubscriptionIDs, subscriptionCancels' = [subscriptionCancels EXCEPT ![s] = r]
    PROVE  PlaceStep
<1>1. Admitted' = Admitted /\ r \in Admitted
    BY DEF Admitted
<1>. QED BY <1>1 DEF PlaceInv, PlaceStep

\* beginSubscription takes a place, and the stream if there is one.
LEMMA PlaceBegun ==
    ASSUME RequestInv, PlaceInv, NEW r \in Requests, admission[r] = "none", BeginSubscription(r)
    PROVE  PlaceStep
<1>1. Admitted' = Admitted \cup {r} /\ r \notin Admitted /\ Admitted \subseteq Requests
    BY DEF Admitted, RequestInv, BeginSubscription
<1>2. \A q \in Requests : Stream[q] # None => Stream[q] \in Streams
    BY DEF Streams
<1>3. PlaceInv'
  <2>1. CASE Stream[r] = None
      BY <1>1, <2>1 DEF PlaceInv, BeginSubscription
  <2>2. CASE Stream[r] # None
      BY SMTT(30), <1>1, <1>2, <2>2, ConnectionAssumption DEF PlaceInv, BeginSubscription, MayAdmit
  <2>. QED BY <2>1, <2>2
<1>. QED BY <1>1, <1>3 DEF PlaceStep, BeginSubscription, MayAdmit

\* cleanup leaves no admission behind, and releases the place of an open one once.
Over(a) == IF a \in {"none", "closed"} THEN a ELSE "closed"

\* An admission is cleaned up, whatever its state.
LEMMA PlaceReleased ==
    ASSUME LoopTypes, RequestInv, PlaceInv, NEW r \in Requests, Cleanup(r)
    PROVE  /\ PlaceStep /\ ended' \subseteq Requests
           /\ admission' = [admission EXCEPT ![r] = Over(admission[r])]
<1>1. CASE admission[r] \in {"none", "closed"}
  <2>1. /\ UNCHANGED <<subscriptions, terminalStreams, subscriptionCancels, ended>>
        /\ admission' = admission /\ Over(admission[r]) = admission[r]
      BY <1>1 DEF Cleanup, Over, admissions
  <2>2. admission' = [admission EXCEPT ![r] = Over(admission[r])]
      BY <2>1 DEF RequestInv
  <2>3. PlaceStep
      BY <2>1, <2>2, PlacesKept
  <2>4. ended' \subseteq Requests
      BY <2>1 DEF LoopTypes
  <2>. QED BY <2>2, <2>3, <2>4
<1>2. CASE admission[r] \notin {"none", "closed"}
  <2>1. /\ admission' = [admission EXCEPT ![r] = "closed"] /\ ended' = ended \cup {r}
        /\ terminalStreams' = Clear(terminalStreams, r)
        /\ subscriptionCancels' = Clear(subscriptionCancels, r)
        /\ subscriptions' = IF subscriptions > 0 THEN subscriptions - 1 ELSE subscriptions
        /\ Over(admission[r]) = "closed"
      BY <1>2 DEF Cleanup, Over
  <2>2. Admitted' = Admitted \ {r} /\ r \in Admitted /\ Admitted \subseteq Requests
      BY <1>2, <2>1 DEF Admitted, RequestInv
  <2>3. \A q \in Requests : Stream[q] # None => Stream[q] \in Streams
      BY DEF Streams
  <2>4. PlaceInv'
      BY SMTT(30), <2>1, <2>2, <2>3, ConnectionAssumption DEF PlaceInv, Clear
  <2>. QED BY <2>1, <2>2, <2>4 DEF PlaceStep, LoopTypes
<1>. QED BY <1>1, <1>2

\* A step that touches none of this.
LEMMA Still ==
    ASSUME SlotInv, PlaceInv
    PROVE  /\ UNCHANGED <<pc, active, slots>> => SlotStep
           /\ UNCHANGED <<admission, subscriptions, terminalStreams, subscriptionCancels>> => PlaceStep
<1>1. /\ UNCHANGED pc => InFlight' = InFlight
      /\ UNCHANGED admission => Admitted' = Admitted
    BY DEF InFlight, Admitted
<1>2. ASSUME UNCHANGED <<pc, active, slots>> PROVE SlotStep
    BY <1>1, <1>2 DEF SlotInv, SlotStep
<1>3. ASSUME UNCHANGED <<admission, subscriptions, terminalStreams, subscriptionCancels>> PROVE PlaceStep
    BY <1>1, <1>3 DEF PlaceInv, PlaceStep
<1>. QED BY <1>2, <1>3

\* The queues: a request that is not being refused may move.
LEMMA QueueKept ==
    ASSUME RequestInv, QueueInv, NEW r \in Requests, NEW p, pc' = [pc EXCEPT ![r] = p],
           pc[r] # "refused", UNCHANGED <<reader, control, writer, frame>>
    PROVE  QueueInv'
BY SMTT(30) DEF QueueInv, RequestInv

\* A frame that is nowhere yet enters the control queue.
LEMMA QueueAppended ==
    ASSUME RequestInv, LoopTypes, QueueInv, NEW r \in Requests, NEW p,
           pc' = [pc EXCEPT ![r] = p], frame[r] = "none", frame' = [frame EXCEPT ![r] = "queued"],
           control' = Append(control, r), writer' = writer,
           reader' \notin Requests \/ (reader' = reader /\ pc[r] # "refused")
    PROVE  QueueInv'
<1>1. \A q \in Requests : frame'[q] = IF q = r THEN "queued" ELSE frame[q]
    BY DEF RequestInv
<1>2. /\ Len(control') = Len(control) + 1 /\ Len(control) \in Nat
      /\ \A k \in 1..Len(control') : control'[k] = IF k = Len(control) + 1 THEN r ELSE control[k]
      /\ \A k \in 1..Len(control) : control[k] \in Requests
    BY SMTT(30) DEF LoopTypes
<1>3. \A k \in 1..Len(control) : control[k] # r /\ frame'[control[k]] = "queued"
    BY SMTT(30), <1>1, <1>2 DEF QueueInv
<1>4. /\ \A k \in 1..Len(control') : frame'[control'[k]] = "queued"
      /\ \A k, l \in 1..Len(control') : control'[k] = control'[l] => k = l
    BY SMTT(30), <1>1, <1>2, <1>3 DEF QueueInv
<1>5. /\ writer' \in Requests => frame'[writer'] = "writing"
      /\ reader' \in Requests => pc'[reader'] = "refused" /\ frame'[reader'] = "none"
    BY <1>1 DEF QueueInv, RequestInv
<1>. QED BY <1>4, <1>5 DEF QueueInv

\* The writer takes the first frame of the queue.
LEMMA QueueTaken ==
    ASSUME RequestInv, LoopTypes, QueueInv, control # <<>>, control' = Tail(control),
           NEW f, frame' = [frame EXCEPT ![Head(control)] = f], UNCHANGED <<reader, pc>>,
           \/ writer' \notin Requests
           \/ writer' = Head(control) /\ f = "writing"
    PROVE  QueueInv'
<1> DEFINE r == Head(control)
<1>1. /\ Len(control') = Len(control) - 1 /\ Len(control) \in Nat \ {0}
      /\ \A k \in 1..Len(control') : control'[k] = control[k + 1] /\ k + 1 \in 1..Len(control)
      /\ \A k \in 1..Len(control) : control[k] \in Requests
      /\ r = control[1] /\ r \in Requests
    BY SMTT(30) DEF LoopTypes
<1> HIDE DEF r
<1>2. \A q \in Requests : frame'[q] = IF q = r THEN f ELSE frame[q]
    BY <1>1 DEF RequestInv, r
<1>3. \A k \in 2..Len(control) : control[k] # r
    BY SMTT(30), <1>1 DEF QueueInv
<1>4. frame[r] = "queued" /\ (writer' \in Requests => frame'[writer'] = "writing")
    BY SMTT(30), <1>1, <1>2 DEF QueueInv, r
<1>5. /\ \A k \in 1..Len(control') : frame'[control'[k]] = "queued"
      /\ \A k, l \in 1..Len(control') : control'[k] = control'[l] => k = l
    BY SMTT(30), <1>1, <1>2, <1>3 DEF QueueInv
<1>6. reader' \in Requests => pc'[reader'] = "refused" /\ frame'[reader'] = "none"
    BY <1>2, <1>4 DEF QueueInv
<1>. QED BY <1>4, <1>5, <1>6 DEF QueueInv

\* What a step may do to the negotiation: only a request that is engaged, or one that
\* begins while nobody is, changes it.
Negotiates(r, p, s, f) ==
    /\ initialized' \in BOOLEAN /\ initializing' \in BOOLEAN /\ negotiated' = initialized'
    /\ ~(initialized' /\ initializing') /\ (up' => up)
    /\ Secured(r, p, s, f, initialized', initializing', up')
    /\ \/ Engaged(r, pc[r], reply[r], frame[r])
       \/ UNCHANGED <<initialized, initializing>> /\ ~Engaged(r, p, s, f)
       \/ ~initialized /\ ~initializing /\ up

\* A move that takes care of its own initialization preserves NegotiationInv.
LEMMA NegotiationMove ==
    ASSUME RequestInv, NegotiationInv, NEW r \in Requests, NEW p, NEW s, NEW f, NEW a, NEW n,
           Moved(r, p, s, f, a, n), Negotiates(r, p, s, f)
    PROVE  NegotiationInv'
<1> DEFINE E(q) == Engaged(q, pc[q], reply[q], frame[q])
<1>1. \A q \in Requests \ {r} : pc'[q] = pc[q] /\ reply'[q] = reply[q] /\ frame'[q] = frame[q]
    BY DEF RequestInv, Moved
<1>2. pc'[r] = p /\ reply'[r] = s /\ frame'[r] = f
    BY DEF RequestInv, Moved
<1>3. \A q \in Requests : E(q) => pc[q] \in Labels \ {"unsent", "refused", "execute"}
    BY Here DEF Placed, Engaged, Labels
<1>4. ~initialized /\ ~initializing /\ up => \A q \in Requests : ~E(q)
    BY <1>3 DEF NegotiationInv, Secured, Labels
<1>5. \A q \in Requests \ {r} :
        Secured(q, pc[q], reply[q], frame[q], initialized', initializing', up')
  <2>1. ASSUME NEW q \in Requests \ {r}, E(q) PROVE UNCHANGED <<initialized, initializing>> /\ (up' => up)
      BY <1>4, <2>1 DEF Negotiates, NegotiationInv
  <2>. QED BY <2>1 DEF Secured, NegotiationInv
<1>6. \A q \in Requests \ {r} : E(q) => ~Engaged(r, p, s, f)
    BY <1>4 DEF Negotiates, NegotiationInv
<1>7. \A q \in Requests : Secured(q, pc'[q], reply'[q], frame'[q], initialized', initializing', up')
    BY <1>1, <1>2, <1>5 DEF Negotiates
<1>8. /\ \A q, t \in Requests : E(q) /\ E(t) => q = t
      /\ \A q \in Requests \ {r} : Engaged(q, pc'[q], reply'[q], frame'[q]) => E(q)
      /\ Engaged(r, pc'[r], reply'[r], frame'[r]) => Engaged(r, p, s, f)
    BY <1>1, <1>2 DEF NegotiationInv
<1> HIDE DEF E
<1>9. \A q, t \in Requests :
        Engaged(q, pc'[q], reply'[q], frame'[q]) /\ Engaged(t, pc'[t], reply'[t], frame'[t]) => q = t
    BY <1>6, <1>8
<1>. QED BY <1>7, <1>9 DEF Negotiates, NegotiationInv

\* A frame that moves on without the negotiation.
LEMMA NegotiationStays ==
    ASSUME NegotiationInv, UNCHANGED negotiation, up' => up, NEW r \in Requests, NEW f,
           Engaged(r, pc[r], reply[r], f) => Engaged(r, pc[r], reply[r], frame[r])
    PROVE  Negotiates(r, pc[r], reply[r], f)
<1>1. Secured(r, pc[r], reply[r], frame[r], initialized, initializing, up)
    BY DEF NegotiationInv
<1>2. Secured(r, pc[r], reply[r], f, initialized', initializing', up')
    BY <1>1 DEF Secured, negotiation
<1>. QED BY <1>2 DEF Negotiates, NegotiationInv, negotiation

-----------------------------------------------------------------------------
(* Steps that move one request, or none *)

\* The goroutine of r goes on in flight at p, with the answer s and its admission at a.
Runs(r, p, s, a) ==
    /\ Flying(pc[r]) /\ Flying(p)
    /\ Moved(r, p, s, frame[r], a, sent[r])
    /\ UNCHANGED <<reader, writer, control, data, active, slots, cancelled>>
    /\ up' \in BOOLEAN /\ closing' \in BOOLEAN /\ ended' \subseteq Requests

\* The negotiation as one request sees it.
LEMMA NegotiationHere ==
    ASSUME NegotiationInv, NEW r \in Requests
    PROVE  /\ initialized \in BOOLEAN /\ initializing \in BOOLEAN /\ negotiated = initialized
           /\ ~(initialized /\ initializing)
           /\ Secured(r, pc[r], reply[r], frame[r], initialized, initializing, up)
BY DEF NegotiationInv

\* A goroutine that goes on in flight preserves the invariant.
LEMMA GoroutineStep ==
    ASSUME LoopTypes, RequestInv, SlotInv, PlaceInv, QueueInv, NegotiationInv,
           NEW r \in Requests, NEW p, NEW s, NEW a, Runs(r, p, s, a),
           Placed(r, p, s, frame[r], a, sent[r]), Negotiates(r, p, s, frame[r]), PlaceStep
    PROVE  Kept
<1>1. Moved(r, p, s, frame[r], a, sent[r]) /\ UNCHANGED <<active, slots>>
    BY DEF Runs
<1>2. LoopTypes'
    BY DEF LoopTypes, Runs
<1>3. RequestInv' /\ NegotiationInv'
    BY <1>1, RequestMove, NegotiationMove
<1>4. pc' = [pc EXCEPT ![r] = p] /\ (Flying(p) <=> Flying(pc[r])) /\ pc[r] # "refused"
      /\ UNCHANGED <<reader, control, writer, frame>>
    BY Same DEF Runs, Moved
<1>5. SlotStep /\ QueueInv'
    BY <1>1, <1>4, SlotsKept, QueueKept
<1>. QED BY <1>2, <1>3, <1>5 DEF Kept

\* What a step of one request must keep besides the request itself.
Around(r, p, s, f) == LoopTypes' /\ SlotStep /\ PlaceStep /\ QueueInv' /\ Negotiates(r, p, s, f)

\* A step of one request preserves the invariant if it keeps what is around it.
LEMMA Step ==
    ASSUME LoopTypes, RequestInv, SlotInv, PlaceInv, QueueInv, NegotiationInv,
           NEW r \in Requests, NEW p, NEW s, NEW f, NEW a, NEW n,
           Moved(r, p, s, f, a, n), Placed(r, p, s, f, a, n), Around(r, p, s, f)
    PROVE  Kept
<1>1. RequestInv' /\ NegotiationInv'
    BY RequestMove, NegotiationMove DEF Around
<1>. QED BY <1>1 DEF Kept, Around

\* A step that moves no request: the reader or the writer ends, the context ends, data
\* frames come and go.
LEMMA QuietStep ==
    ASSUME LoopTypes, RequestInv, SlotInv, PlaceInv, QueueInv, NegotiationInv,
           LoopTypes', up' => up, UNCHANGED <<pc, reply, frame, admission, control>>,
           UNCHANGED <<active, slots, subscriptions, terminalStreams, subscriptionCancels>>,
           UNCHANGED <<initialized, initializing, negotiated>>,
           reader' \in {reader, "ended"}, writer' \in {writer, "top", "select", "notifying", "ended"},
           sent' \in [Requests \cup {Heartbeat} -> Nat], \A r \in Requests : sent'[r] = sent[r]
    PROVE  Kept
<1>1. SlotStep /\ PlaceStep
    BY Still
<1>2. QueueInv'
    BY ConnectionAssumption DEF QueueInv
<1>3. NegotiationInv'
    BY DEF NegotiationInv, Secured
<1>4. RequestInv'
    BY DEF RequestInv
<1>. QED BY <1>1, <1>2, <1>3, <1>4 DEF Kept

\* A queue within its capacity stays so.
LEMMA Bounded ==
    ASSUME NEW S, NEW q \in Seq(S), Len(q) <= MaxOutboundQueue
    PROVE  /\ q # <<>> => Tail(q) \in Seq(S) /\ Len(Tail(q)) <= MaxOutboundQueue
           /\ \A x \in S : Len(q) < MaxOutboundQueue =>
                Append(q, x) \in Seq(S) /\ Len(Append(q, x)) <= MaxOutboundQueue
BY SMTT(30), ConnectionAssumption

\* The rollback of an action, on its way to an error response (p is enqueue) or out
\* (p is exit).  An initialization whose response may still arrive ends the connection.
LEMMA RollbackStep ==
    ASSUME LoopTypes, RequestInv, SlotInv, PlaceInv, QueueInv, NegotiationInv,
           NEW r \in Requests, pc[r] \in {"respond", "enqueue", "flushing"},
           Rollback(r), NEW p, NEW s,
           \/ p = "enqueue" /\ s = "error" /\ pc[r] = "respond"
           \/ p = "exit" /\ s = reply[r],
           pc' = [pc EXCEPT ![r] = p], reply' = [reply EXCEPT ![r] = s],
           UNCHANGED <<reader, closing, queues, active, slots, frame, cancelled, sent>>,
           up' \in BOOLEAN, up' => up, Engaged(r, p, s, frame[r]) => ~up'
    PROVE  Kept
<1>1. Placed(r, pc[r], reply[r], frame[r], admission[r], sent[r])
    BY Here
<1>2. /\ PlaceStep /\ ended' \subseteq Requests
      /\ admission' = [admission EXCEPT ![r] = Over(admission[r])]
  <2>1. CASE reply[r] = "ok"
      BY <2>1, PlaceReleased DEF Rollback
  <2>2. CASE reply[r] # "ok"
    <3>1. Over(admission[r]) = admission[r] /\ UNCHANGED admissions
        BY <1>1, <2>2 DEF Placed, Over, Rollback
    <3>2. admission = [admission EXCEPT ![r] = Over(admission[r])]
        BY <3>1, Same
    <3>. QED BY <3>1, <3>2, Still DEF admissions, LoopTypes
  <2>. QED BY <2>1, <2>2
<1>3. Runs(r, p, s, Over(admission[r]))
    BY <1>2, Same DEF queues, Runs, Moved, LoopTypes
<1>4. Placed(r, p, s, frame[r], Over(admission[r]), sent[r])
    BY <1>1 DEF Placed, Labels, Over
<1>5. Negotiates(r, p, s, frame[r])
  <2>1. /\ initialized \in BOOLEAN /\ initializing \in BOOLEAN /\ negotiated = initialized
        /\ ~(initialized /\ initializing)
      BY NegotiationHere
  <2>2. Secured(r, p, s, frame[r], initialized', initializing', up')
      BY DEF Secured, Engaged
  <2>3. CASE reply[r] = "ok" /\ Kind[r] = "initialize"
    <3>1. /\ initialized' \in BOOLEAN /\ initializing' \in BOOLEAN /\ negotiated' = initialized'
          /\ ~(initialized' /\ initializing')
        BY <2>3 DEF Rollback
    <3>2. Engaged(r, pc[r], reply[r], frame[r])
        BY <2>3 DEF Engaged
    <3>. QED BY <2>2, <3>1, <3>2 DEF Negotiates
  <2>4. CASE ~(reply[r] = "ok" /\ Kind[r] = "initialize")
    <3>1. initialized' = initialized /\ initializing' = initializing /\ negotiated' = negotiated
          /\ ~Engaged(r, p, s, frame[r])
        BY <2>4 DEF Rollback, negotiation, Engaged
    <3>. QED BY <2>1, <2>2, <3>1 DEF Negotiates
  <2>. QED BY <2>3, <2>4
<1>. QED BY <1>2, <1>3, <1>4, <1>5, GoroutineStep

\* Steps of the reader, the writer and the context that move no request.
LEMMA LoopsStep ==
    ASSUME LoopTypes, RequestInv, SlotInv, PlaceInv, QueueInv, NegotiationInv,
           \/ ReaderEnds \/ SendHeartbeat \/ FallThrough \/ TakeData \/ NotificationWritten
           \/ WriterEnds \/ ContextEnds \/ StopServing \/ (\E i \in IDs : CancelRequest(i)) \/ UNCHANGED vars
    PROVE  Kept
<1>1. /\ UNCHANGED <<pc, reply, frame, admission, control>>
      /\ UNCHANGED <<active, slots, subscriptions, terminalStreams, subscriptionCancels>>
      /\ UNCHANGED <<initialized, initializing, negotiated>>
    BY DEF ReaderEnds, SendHeartbeat, FallThrough, TakeData, NotificationWritten, WriterEnds,
           ContextEnds, StopServing,
          CancelRequest, vars, requests, queues, negotiation, admissions, loops
<1>2. /\ reader' = reader \/ reader' = "ended"
      /\ writer' = writer \/ writer' = "select" \/ writer' = "notifying" \/ writer' \in {"top", "ended"}
    BY DEF ReaderEnds, SendHeartbeat, FallThrough, TakeData, NotificationWritten, WriterEnds,
           ContextEnds, StopServing,
          CancelRequest, vars, queues, loops
<1>3. /\ up' = up \/ (up' \in BOOLEAN /\ ~up')
      /\ closing' = closing /\ ended' = ended
    BY DEF ReaderEnds, SendHeartbeat, FallThrough, TakeData, NotificationWritten, WriterEnds,
           ContextEnds, StopServing,
          CancelRequest, vars, admissions, loops
<1>4. sent' \in [Requests \cup {Heartbeat} -> Nat] /\ \A r \in Requests : sent'[r] = sent[r]
    BY SMTT(30), ConnectionAssumption DEF RequestInv,
           ReaderEnds, SendHeartbeat, FallThrough, TakeData, NotificationWritten, WriterEnds,
           ContextEnds, StopServing,
           CancelRequest, vars
<1>5. data' \in Seq(Requests \cup {Heartbeat}) /\ Len(data') <= MaxOutboundQueue
  <2>1. \/ data' = data
        \/ Len(data) < MaxOutboundQueue /\ data' = Append(data, Heartbeat)
        \/ data # <<>> /\ data' = Tail(data)
      BY DEF ReaderEnds, SendHeartbeat, FallThrough, TakeData, NotificationWritten, WriterEnds,
           ContextEnds, StopServing,
           CancelRequest, vars, queues
  <2>2. data \in Seq(Requests \cup {Heartbeat}) /\ Len(data) <= MaxOutboundQueue
      BY DEF LoopTypes
  <2>3. Heartbeat \in Requests \cup {Heartbeat}
      OBVIOUS
  <2>. QED BY <2>1, <2>2, <2>3, Bounded
<1>6. cancelled' \subseteq Requests
    BY SMTT(30), ConnectionAssumption DEF LoopTypes, SlotInv,
           ReaderEnds, SendHeartbeat, FallThrough, TakeData, NotificationWritten, WriterEnds,
           ContextEnds, StopServing,
           CancelRequest, vars, requests
<1>7. LoopTypes'
    BY <1>1, <1>2, <1>3, <1>5, <1>6 DEF LoopTypes
<1>. QED BY SMTT(30), <1>1, <1>2, <1>3, <1>4, <1>7, QuietStep

\* readLoop gives a request a slot, or refuses it.
LEMMA ReadStep ==
    ASSUME LoopTypes, RequestInv, SlotInv, PlaceInv, QueueInv, NegotiationInv,
           NEW r \in Requests, Read(r)
    PROVE  Kept
<1>1. /\ pc[r] = "unsent" /\ Placed(r, pc[r], reply[r], frame[r], admission[r], sent[r])
      /\ reader = "reading"
    BY Here DEF Read
<1>2. /\ UNCHANGED <<up, closing, writer, control, data, reply, frame, cancelled, sent>>
      /\ UNCHANGED <<initialized, initializing, negotiated>>
      /\ UNCHANGED <<subscriptions, terminalStreams, subscriptionCancels, admission, ended>>
    BY DEF Read, queues, negotiation, admissions
<1>3. PlaceStep
    BY <1>2, Still
<1>4. CASE /\ active[RequestID[r]] = None /\ slots < MaxInFlightRequests
           /\ active' = [active EXCEPT ![RequestID[r]] = r] /\ slots' = slots + 1
           /\ pc' = [pc EXCEPT ![r] = "execute"] /\ UNCHANGED reader
  <2>1. Moved(r, "execute", reply[r], frame[r], admission[r], sent[r])
      BY <1>2, <1>4, Same DEF Moved
  <2>2. Placed(r, "execute", reply[r], frame[r], admission[r], sent[r])
      BY <1>1 DEF Placed, Labels
  <2>3. SlotStep
      BY <1>1, <1>4, SlotTaken
  <2>4. pc[r] # "refused" /\ LoopTypes'
      BY <1>1, <1>2, <1>4 DEF LoopTypes
  <2>5. QueueInv'
      BY <1>2, <1>4, <2>4, QueueKept
  <2>6. Negotiates(r, "execute", reply[r], frame[r])
      BY <1>1, <1>2, NegotiationHere DEF Negotiates, Secured, Engaged, Placed
  <2>. QED BY <1>3, <2>1, <2>2, <2>3, <2>4, <2>5, <2>6, Step DEF Around
<1>5. CASE /\ pc' = [pc EXCEPT ![r] = "refused"] /\ reader' \in {r, "ended"} /\ UNCHANGED <<active, slots>>
  <2>1. Moved(r, "refused", reply[r], frame[r], admission[r], sent[r])
      BY <1>2, <1>5, Same DEF Moved
  <2>2. Placed(r, "refused", reply[r], frame[r], admission[r], sent[r])
      BY <1>1 DEF Placed, Labels
  <2>3. (Flying("refused") <=> Flying(pc[r])) /\ LoopTypes'
      BY <1>1, <1>2, <1>5 DEF LoopTypes
  <2>4. QueueInv'
      BY SMTT(30), <1>1, <1>2, <1>5, ConnectionAssumption DEF QueueInv, RequestInv, Placed
  <2>5. SlotStep
      BY <1>5, <2>3, SlotsKept
  <2>6. Negotiates(r, "refused", reply[r], frame[r])
      BY <1>1, <1>2, NegotiationHere DEF Negotiates, Secured, Engaged, Placed
  <2>. QED BY <1>3, <2>1, <2>2, <2>3, <2>4, <2>5, <2>6, Step DEF Around
<1>. QED BY <1>4, <1>5 DEF Read, Goto

\* execute: a refusal, the start of an initialization, an admission, or a plain call.
LEMMA ExecuteStep ==
    ASSUME LoopTypes, RequestInv, SlotInv, PlaceInv, QueueInv, NegotiationInv,
           NEW r \in Requests, Execute(r)
    PROVE  Kept
<1>1. /\ pc[r] = "execute" /\ reply[r] # "ok" /\ frame[r] = "none" /\ admission[r] = "none"
      /\ sent[r] = 0 /\ reply[r] \in {"none", "error"}
    BY SMTT(30), Here DEF Execute, Placed
<1>2. /\ UNCHANGED <<reader, up, closing, writer, control, data, active, slots, frame, cancelled, sent>>
      /\ UNCHANGED <<initialized, negotiated>>
    BY DEF Execute, loops, queues
<1>3. CASE /\ reply' = [reply EXCEPT ![r] = "error"] /\ pc' = [pc EXCEPT ![r] = "respond"]
           /\ UNCHANGED <<initializing, subscriptions, terminalStreams, subscriptionCancels, admission, ended>>
  <2>1. Runs(r, "respond", "error", admission[r])
      BY <1>1, <1>2, <1>3, Same DEF Runs, Moved, LoopTypes
  <2>2. Placed(r, "respond", "error", frame[r], admission[r], sent[r]) /\ Negotiates(r, "respond", "error", frame[r])
      BY SMTT(30), <1>1, <1>2, <1>3 DEF Placed, Labels, Negotiates, Engaged, Secured, NegotiationInv
  <2>3. PlaceStep
      BY <1>3, Still
  <2>. QED BY <2>1, <2>2, <2>3, GoroutineStep
<1>4. CASE /\ Kind[r] = "initialize" /\ ~initialized /\ ~initializing /\ up /\ initializing' = TRUE
           /\ pc' = [pc EXCEPT ![r] = "running"]
           /\ UNCHANGED <<reply, subscriptions, terminalStreams, subscriptionCancels, admission, ended>>
  <2>1. Runs(r, "running", reply[r], admission[r])
      BY <1>1, <1>2, <1>4, Same DEF Runs, Moved, LoopTypes
  <2>2. Placed(r, "running", reply[r], frame[r], admission[r], sent[r]) /\ Negotiates(r, "running", reply[r], frame[r])
      BY SMTT(30), <1>1, <1>2, <1>4 DEF Placed, Labels, Negotiates, Engaged, Secured, NegotiationInv
  <2>3. PlaceStep
      BY <1>4, Still
  <2>. QED BY <2>1, <2>2, <2>3, GoroutineStep
<1>5. CASE /\ Kind[r] = "subscribe" /\ BeginSubscription(r)
           /\ pc' = [pc EXCEPT ![r] = "running"] /\ UNCHANGED <<reply, initializing>>
  <2>1. Runs(r, "running", reply[r], "open")
      BY <1>1, <1>2, <1>5, Same DEF Runs, Moved, LoopTypes, BeginSubscription
  <2>2. Placed(r, "running", reply[r], frame[r], "open", sent[r]) /\ Negotiates(r, "running", reply[r], frame[r])
      BY SMTT(30), <1>1, <1>2, <1>5 DEF Placed, Labels, Negotiates, Engaged, Secured, NegotiationInv
  <2>3. PlaceStep
      BY <1>1, <1>5, PlaceBegun
  <2>. QED BY <2>1, <2>2, <2>3, GoroutineStep
<1>6. CASE /\ Kind[r] \notin {"initialize", "subscribe"} /\ pc' = [pc EXCEPT ![r] = "running"]
           /\ UNCHANGED <<reply, initializing, subscriptions, terminalStreams, subscriptionCancels, admission, ended>>
  <2>1. Runs(r, "running", reply[r], admission[r])
      BY <1>1, <1>2, <1>6, Same DEF Runs, Moved, LoopTypes
  <2>2. Placed(r, "running", reply[r], frame[r], admission[r], sent[r]) /\ Negotiates(r, "running", reply[r], frame[r])
      BY SMTT(30), <1>1, <1>2, <1>6 DEF Placed, Labels, Negotiates, Engaged, Secured, NegotiationInv
  <2>3. PlaceStep
      BY <1>6, Still
  <2>. QED BY <2>1, <2>2, <2>3, GoroutineStep
<1>. QED BY <1>3, <1>4, <1>5, <1>6
        DEF Execute, CtxDone, ReplyWith, Goto, BeginInitialization, admissions

\* A failed call: the initialization is aborted, or the admission cleaned up.
LEMMA HandlerFailsStep ==
    ASSUME LoopTypes, RequestInv, SlotInv, PlaceInv, QueueInv, NegotiationInv,
           NEW r \in Requests, HandlerFails(r)
    PROVE  Kept
<1>1. /\ pc[r] = "running" /\ reply[r] # "ok" /\ frame[r] = "none" /\ sent[r] = 0
      /\ admission[r] = IF Kind[r] = "subscribe" THEN "open" ELSE "none"
    BY SMTT(30), Here DEF HandlerFails, Placed
<1>2. /\ PlaceStep /\ ended' \subseteq Requests
      /\ admission' = [admission EXCEPT ![r] = Over(admission[r])]
    BY PlaceReleased DEF HandlerFails
<1>3. Runs(r, "respond", "error", Over(admission[r]))
    BY <1>1, <1>2, Same DEF HandlerFails, ReplyWith, Goto, loops, queues, Runs, Moved, LoopTypes
<1>4. Placed(r, "respond", "error", frame[r], Over(admission[r]), sent[r])
    BY SMTT(30), <1>1 DEF Placed, Labels, Over
<1>5. Negotiates(r, "respond", "error", frame[r])
  <2>1. /\ up' = up /\ initialized' = initialized /\ negotiated' = negotiated
        /\ \/ Kind[r] = "initialize" /\ initializing' \in BOOLEAN /\ ~initializing'
           \/ Kind[r] # "initialize" /\ initializing' = initializing
      BY DEF HandlerFails, loops
  <2>2. ~Engaged(r, "respond", "error", frame[r]) /\ (Kind[r] = "initialize" => Engaged(r, pc[r], reply[r], frame[r]))
      BY <1>1 DEF Engaged
  <2>3. /\ initialized \in BOOLEAN /\ initializing \in BOOLEAN /\ negotiated = initialized
        /\ ~(initialized /\ initializing)
      BY NegotiationHere
  <2>4. initializing' \in BOOLEAN /\ ~(initialized' /\ initializing')
      BY SMTT(30), <2>1, <2>3
  <2>5. Secured(r, "respond", "error", frame[r], initialized', initializing', up')
      BY <2>2 DEF Secured
  <2>. QED BY <2>1, <2>2, <2>3, <2>4, <2>5 DEF Negotiates
<1>. QED BY <1>2, <1>3, <1>4, <1>5, GoroutineStep

\* A successful call: prepare names the subscription.
LEMMA HandlerSucceedsStep ==
    ASSUME LoopTypes, RequestInv, SlotInv, PlaceInv, QueueInv, NegotiationInv,
           NEW r \in Requests, HandlerSucceeds(r)
    PROVE  Kept
<1>1. /\ pc[r] = "running" /\ reply[r] # "ok" /\ frame[r] = "none" /\ sent[r] = 0
      /\ admission[r] = IF Kind[r] = "subscribe" THEN "open" ELSE "none"
    BY SMTT(30), Here DEF HandlerSucceeds, Placed
<1>2. Runs(r, "respond", "ok", admission[r])
    BY <1>1, Same DEF HandlerSucceeds, ReplyWith, Goto, loops, queues, admissions, Runs, Moved, LoopTypes
<1>3. Placed(r, "respond", "ok", frame[r], admission[r], sent[r])
    BY SMTT(30), <1>1 DEF Placed, Labels
<1>4. Negotiates(r, "respond", "ok", frame[r])
  <2>1. Secured(r, pc[r], reply[r], frame[r], initialized, initializing, up)
      BY DEF NegotiationInv
  <2>. QED BY <1>1, <2>1 DEF HandlerSucceeds, loops, negotiation, Negotiates, Engaged, Secured, NegotiationInv
<1>5. PlaceStep
  <2>1. CASE Kind[r] = "subscribe"
      BY <1>1, <2>1, PlacePrepared DEF HandlerSucceeds
  <2>2. CASE Kind[r] # "subscribe"
      BY <2>2, Still DEF HandlerSucceeds, admissions
  <2>. QED BY <2>1, <2>2
<1>. QED BY <1>2, <1>3, <1>4, <1>5, GoroutineStep

\* The response is built: as it is, after a rollback, or not at all.
LEMMA RespondStep ==
    ASSUME LoopTypes, RequestInv, SlotInv, PlaceInv, QueueInv, NegotiationInv,
           NEW r \in Requests, Respond(r)
    PROVE  Kept
<1>1. pc[r] = "respond" /\ Placed(r, pc[r], reply[r], frame[r], admission[r], sent[r])
    BY Here DEF Respond
<1>2. UNCHANGED <<reader, closing, queues, active, slots, frame, cancelled, sent>>
    BY DEF Respond
<1>3. CASE /\ pc' = [pc EXCEPT ![r] = "enqueue"] /\ UNCHANGED <<up, reply, admissions>>
           /\ \/ reply[r] = "error" /\ UNCHANGED negotiation
              \/ /\ reply[r] = "ok"
                 /\ IF Kind[r] = "initialize"
                    THEN initialized' = TRUE /\ initializing' = FALSE /\ negotiated' = TRUE
                    ELSE UNCHANGED negotiation
  <2>1. Runs(r, "enqueue", reply[r], admission[r]) /\ PlaceStep
      BY <1>1, <1>2, <1>3, Same, Still DEF queues, admissions, Runs, Moved, LoopTypes
  <2>2. Placed(r, "enqueue", reply[r], frame[r], admission[r], sent[r])
      BY <1>1 DEF Placed, Labels
  <2>3. Negotiates(r, "enqueue", reply[r], frame[r])
    <3>1. CASE Kind[r] = "initialize" /\ reply[r] = "ok"
      <4>1. initialized' = TRUE /\ initializing' = FALSE /\ negotiated' = TRUE /\ up' = up
          BY <1>3, <3>1
      <4>2. Engaged(r, pc[r], reply[r], frame[r])
          BY <1>1, <3>1 DEF Engaged
      <4>3. Secured(r, "enqueue", reply[r], frame[r], TRUE, FALSE, up)
          BY DEF Secured
      <4>. QED BY <4>1, <4>2, <4>3 DEF Negotiates
    <3>2. CASE ~(Kind[r] = "initialize" /\ reply[r] = "ok")
      <4>1. UNCHANGED <<initialized, initializing, negotiated, up>> /\ ~Engaged(r, "enqueue", reply[r], frame[r])
          BY <1>3, <3>2 DEF negotiation, Engaged
      <4>. QED BY <4>1, NegotiationHere DEF Negotiates, Secured
    <3>. QED BY <3>1, <3>2
  <2>. QED BY <2>1, <2>2, <2>3, GoroutineStep
<1>4. CASE /\ pc' = [pc EXCEPT ![r] = "enqueue"] /\ reply' = [reply EXCEPT ![r] = "error"]
           /\ Rollback(r) /\ UNCHANGED up
  <2>1. ~Engaged(r, "enqueue", "error", frame[r]) /\ up' \in BOOLEAN
      BY <1>4 DEF Engaged, LoopTypes
  <2>. QED BY <1>1, <1>2, <1>4, <2>1, RollbackStep
<1>5. CASE pc' = [pc EXCEPT ![r] = "exit"] /\ Rollback(r) /\ up' = FALSE /\ UNCHANGED reply
  <2>1. reply' = [reply EXCEPT ![r] = reply[r]]
      BY <1>5, Same
  <2>2. up' \in BOOLEAN /\ ~up'
      BY <1>5
  <2>. QED BY <1>1, <1>2, <1>5, <2>1, <2>2, RollbackStep
<1>. QED BY <1>3, <1>4, <1>5 DEF Respond, Goto

\* enqueueControl, by the goroutine of a request.
LEMMA EnqueueStep ==
    ASSUME LoopTypes, RequestInv, SlotInv, PlaceInv, QueueInv, NegotiationInv,
           NEW r \in Requests, Enqueue(r)
    PROVE  Kept
<1>1. pc[r] = "enqueue" /\ Placed(r, pc[r], reply[r], frame[r], admission[r], sent[r])
    BY Here DEF Enqueue
<1>2. UNCHANGED <<reader, up, closing, writer, data, active, slots, reply, cancelled, sent>>
    BY DEF Enqueue, loops
<1>3. CASE /\ Len(control) < MaxOutboundQueue /\ control' = Append(control, r)
           /\ frame' = [frame EXCEPT ![r] = "queued"] /\ pc' = [pc EXCEPT ![r] = "flushing"]
           /\ UNCHANGED <<initialized, initializing, negotiated>>
           /\ UNCHANGED <<subscriptions, terminalStreams, subscriptionCancels, admission, ended>>
  <2>1. /\ Moved(r, "flushing", reply[r], "queued", admission[r], sent[r])
        /\ frame[r] = "none" /\ pc[r] # "refused" /\ (Flying("flushing") <=> Flying(pc[r]))
      BY <1>1, <1>2, <1>3, Same DEF Moved, Placed
  <2>2. Placed(r, "flushing", reply[r], "queued", admission[r], sent[r])
      BY <1>1 DEF Placed, Labels
  <2>3. LoopTypes'
      BY <1>2, <1>3, Bounded DEF LoopTypes
  <2>4. SlotStep /\ PlaceStep
      BY <1>2, <1>3, <2>1, SlotsKept, Still
  <2>5. QueueInv'
      BY <1>2, <1>3, <2>1, QueueAppended
  <2>6. Negotiates(r, "flushing", reply[r], "queued")
      BY <1>1, <1>2, <1>3, NegotiationHere DEF Negotiates, Secured, Engaged
  <2>. QED BY <2>1, <2>2, <2>3, <2>4, <2>5, <2>6, Step DEF Around
<1>4. CASE Rollback(r) /\ pc' = [pc EXCEPT ![r] = "exit"] /\ UNCHANGED <<control, frame>>
  <2>1. reply' = [reply EXCEPT ![r] = reply[r]] /\ UNCHANGED queues
      BY <1>2, <1>4, Same DEF queues
  <2>2. up' \in BOOLEAN /\ (up' => up) /\ ~Engaged(r, "exit", reply[r], frame[r])
      BY <1>1, <1>2 DEF LoopTypes, Engaged, Placed
  <2>. QED BY <1>1, <1>2, <1>4, <2>1, <2>2, RollbackStep
<1>. QED BY <1>3, <1>4 DEF Enqueue, Goto, negotiation, admissions

\* The response is on the wire.
LEMMA CommittedStep ==
    ASSUME LoopTypes, RequestInv, SlotInv, PlaceInv, QueueInv, NegotiationInv,
           NEW r \in Requests, Committed(r)
    PROVE  Kept
<1> DEFINE a == IF reply[r] = "ok" /\ Kind[r] = "subscribe" THEN "streaming" ELSE admission[r]
<1>1. /\ pc[r] = "flushing" /\ frame[r] = "written"
      /\ Placed(r, pc[r], reply[r], frame[r], admission[r], sent[r])
    BY Here DEF Committed
<1>2. ended' \subseteq Requests
    BY SMTT(30) DEF Committed, LoopTypes, PlaceInv, Admitted
<1>3. admission' = [admission EXCEPT ![r] = a]
  <2>1. CASE reply[r] = "ok" /\ Kind[r] = "subscribe"
      BY <2>1 DEF Committed
  <2>2. CASE ~(reply[r] = "ok" /\ Kind[r] = "subscribe")
      BY <2>2, Same DEF Committed
  <2>. QED BY <2>1, <2>2
<1>4. (Holding(a) <=> Holding(admission[r])) /\ Placed(r, "exit", reply[r], frame[r], a, sent[r])
    BY <1>1 DEF Placed, Labels
<1> HIDE DEF a
<1>5. Runs(r, "exit", reply[r], a) /\ (up' => up)
  <2>1. up' \in BOOLEAN /\ closing' \in BOOLEAN /\ (up' => up)
      BY DEF Committed
  <2>2. /\ UNCHANGED <<reader, writer, control, data, active, slots, reply, frame, cancelled, sent>>
        /\ pc' = [pc EXCEPT ![r] = "exit"]
      BY DEF Committed, Goto, queues
  <2>. QED BY <1>1, <1>2, <1>3, <2>1, <2>2, Same DEF Runs, Moved
<1>6. Negotiates(r, "exit", reply[r], frame[r])
  <2>1. UNCHANGED <<initialized, initializing, negotiated>>
      BY DEF Committed, negotiation
  <2>. QED BY <1>1, <1>5, <2>1, NegotiationHere DEF Negotiates, Engaged, Secured
<1>7. PlaceStep
    BY <1>3, <1>4, PlacesKept DEF Committed
<1>. QED BY <1>4, <1>5, <1>6, <1>7, GoroutineStep

\* The response is not on the wire, or nobody waits to know.
LEMMA UnflushedStep ==
    ASSUME LoopTypes, RequestInv, SlotInv, PlaceInv, QueueInv, NegotiationInv,
           NEW r \in Requests, NotFlushed(r) \/ Abandoned(r)
    PROVE  Kept
<1>1. /\ pc[r] = "flushing" /\ Rollback(r) /\ pc' = [pc EXCEPT ![r] = "exit"]
      /\ UNCHANGED <<reader, closing, queues, active, slots, reply, frame, cancelled, sent>>
    BY DEF NotFlushed, Abandoned, Goto
<1>2. up' \in BOOLEAN /\ (up' => up) /\ (Engaged(r, "exit", reply[r], frame[r]) => ~up')
  <2>1. up' \in BOOLEAN /\ (up' => up) /\ (up' => frame[r] = "skipped" \/ ~HasAction(r))
      BY DEF NotFlushed, Abandoned
  <2>2. Engaged(r, "exit", reply[r], frame[r]) => HasAction(r) /\ frame[r] # "skipped"
      BY DEF Engaged, HasAction
  <2>. QED BY <2>1, <2>2
<1>3. reply' = [reply EXCEPT ![r] = reply[r]]
    BY <1>1, Same
<1>. QED BY <1>1, <1>2, <1>3, RollbackStep

\* releaseRequest and the slot.
LEMMA ExitStep ==
    ASSUME LoopTypes, RequestInv, SlotInv, PlaceInv, QueueInv, NegotiationInv,
           NEW r \in Requests, Exit(r)
    PROVE  Kept
<1>1. /\ pc[r] = "exit" /\ pc[r] # "refused" /\ pc' = [pc EXCEPT ![r] = "done"]
      /\ active' = [active EXCEPT ![RequestID[r]] = None] /\ slots' = slots - 1
      /\ UNCHANGED <<reader, up, closing, writer, control, data, reply, frame, cancelled, sent>>
      /\ UNCHANGED <<initialized, initializing, negotiated>>
      /\ UNCHANGED <<subscriptions, terminalStreams, subscriptionCancels, admission, ended>>
    BY DEF Exit, Goto, loops, queues, negotiation, admissions
<1>2. Moved(r, "done", reply[r], frame[r], admission[r], sent[r])
    BY <1>1, Same DEF Moved
<1>3. Placed(r, "done", reply[r], frame[r], admission[r], sent[r])
    BY <1>1, Here DEF Placed, Labels
<1>4. LoopTypes'
    BY <1>1 DEF LoopTypes
<1>5. SlotStep /\ PlaceStep /\ QueueInv'
    BY <1>1, SlotFreed, QueueKept, Still
<1>6. Negotiates(r, "done", reply[r], frame[r])
    BY <1>1, NegotiationHere DEF Negotiates, Secured, Engaged
<1>. QED BY <1>2, <1>3, <1>4, <1>5, <1>6, Step DEF Around

-----------------------------------------------------------------------------
(* The reader's refusals, the writer, and the subscriptions *)

\* sendError, by the reader.
LEMMA SendErrorStep ==
    ASSUME LoopTypes, RequestInv, SlotInv, PlaceInv, QueueInv, NegotiationInv,
           NEW r \in Requests, SendError(r)
    PROVE  Kept
<1>1. /\ reader = r /\ pc[r] = "refused" /\ frame[r] = "none"
      /\ Placed(r, pc[r], reply[r], frame[r], admission[r], sent[r])
    BY Here DEF SendError, QueueInv
<1>2. /\ UNCHANGED <<up, closing, writer, data, active, slots, pc, cancelled, sent>>
      /\ UNCHANGED <<initialized, initializing, negotiated>>
      /\ UNCHANGED <<subscriptions, terminalStreams, subscriptionCancels, admission, ended>>
    BY DEF SendError, negotiation, admissions
<1>3. CASE /\ Len(control) < MaxOutboundQueue /\ control' = Append(control, r) /\ reader' = "reading"
           /\ reply' = [reply EXCEPT ![r] = "error"] /\ frame' = [frame EXCEPT ![r] = "queued"]
  <2>1. Moved(r, "refused", "error", "queued", admission[r], sent[r]) /\ reader' \notin Requests
      BY <1>1, <1>2, <1>3, Same, ConnectionAssumption DEF Moved
  <2>2. Placed(r, "refused", "error", "queued", admission[r], sent[r])
      BY <1>1 DEF Placed, Labels
  <2>3. LoopTypes'
      BY <1>2, <1>3, Bounded DEF LoopTypes
  <2>4. SlotStep /\ PlaceStep
      BY <1>2, Still
  <2>5. QueueInv'
      BY <1>1, <1>2, <1>3, <2>1, QueueAppended DEF Moved
  <2>6. Negotiates(r, "refused", "error", "queued")
      BY <1>2, NegotiationHere DEF Negotiates, Secured, Engaged
  <2>. QED BY <2>1, <2>2, <2>3, <2>4, <2>5, <2>6, Step DEF Around
<1>4. CASE reader' = "ended" /\ UNCHANGED <<control, reply, frame>>
  <2>1. LoopTypes' /\ (up' => up) /\ sent' \in [Requests \cup {Heartbeat} -> Nat]
      BY <1>2, <1>4 DEF LoopTypes, RequestInv
  <2>. QED BY <1>2, <1>4, <2>1, QuietStep
<1>. QED BY <1>3, <1>4 DEF SendError

\* A started subscription publishes, or its goroutine ends.
LEMMA SubscriptionStep ==
    ASSUME LoopTypes, RequestInv, SlotInv, PlaceInv, QueueInv, NegotiationInv,
           NEW r \in Requests, PublishNotification(r) \/ SubscriptionEnds(r)
    PROVE  Kept
<1>1. /\ admission[r] = "streaming" /\ Placed(r, pc[r], reply[r], frame[r], admission[r], sent[r])
      /\ UNCHANGED <<reader, closing, writer, control, active, slots, pc, reply, frame, cancelled>>
      /\ UNCHANGED <<initialized, initializing, negotiated>>
    BY Here DEF PublishNotification, SubscriptionEnds, loops, queues, requests, negotiation
<1>2. up' \in BOOLEAN /\ (up' => up)
  <2>1. up' = up \/ (up' \in BOOLEAN /\ ~up')
      BY DEF PublishNotification, SubscriptionEnds, loops
  <2>. QED BY SMTT(30), <2>1 DEF LoopTypes
<1>3. Negotiates(r, pc[r], reply[r], frame[r]) /\ SlotStep
    BY <1>1, <1>2, NegotiationStays, Still DEF negotiation
<1>4. QueueInv'
    BY <1>1 DEF QueueInv
<1>5. CASE PublishNotification(r)
  <2>1. /\ sent' = [sent EXCEPT ![r] = sent[r] + 1] /\ Len(data) < MaxOutboundQueue /\ data' = Append(data, r)
        /\ UNCHANGED <<subscriptions, terminalStreams, subscriptionCancels, admission, ended>>
      BY <1>5 DEF PublishNotification, admissions
  <2>2. LoopTypes'
    <3>1. /\ data \in Seq(Requests \cup {Heartbeat}) /\ Len(data) <= MaxOutboundQueue
          /\ r \in Requests \cup {Heartbeat}
        BY DEF LoopTypes
    <3>2. data' \in Seq(Requests \cup {Heartbeat}) /\ Len(data') <= MaxOutboundQueue
        BY <2>1, <3>1, Bounded
    <3>. QED BY <1>1, <1>2, <2>1, <3>2 DEF LoopTypes
  <2>3. PlaceStep
      BY <2>1, Still
  <2>4. Moved(r, pc[r], reply[r], frame[r], admission[r], sent[r] + 1)
      BY <1>1, <2>1, Same DEF Moved
  <2>5. Placed(r, pc[r], reply[r], frame[r], admission[r], sent[r] + 1)
      BY SMTT(30), <1>1 DEF Placed
  <2>. QED BY <1>3, <1>4, <2>2, <2>3, <2>4, <2>5, Step DEF Around
<1>6. CASE SubscriptionEnds(r)
  <2>1. PlaceStep /\ ended' \subseteq Requests /\ admission' = [admission EXCEPT ![r] = Over(admission[r])]
      BY <1>6, PlaceReleased DEF SubscriptionEnds
  <2>2. LoopTypes' /\ sent' = sent
      BY <1>1, <1>2, <1>6, <2>1 DEF LoopTypes, SubscriptionEnds, queues
  <2>3. Moved(r, pc[r], reply[r], frame[r], Over(admission[r]), sent[r])
      BY <1>1, <2>1, <2>2, Same DEF Moved
  <2>4. Placed(r, pc[r], reply[r], frame[r], Over(admission[r]), sent[r])
      BY <1>1 DEF Placed, Over
  <2>. QED BY <1>3, <1>4, <2>1, <2>2, <2>3, <2>4, Step DEF Around
<1>. QED BY <1>5, <1>6

\* writeLoop takes a control frame, and its write ends.
LEMMA WriterStep ==
    ASSUME LoopTypes, RequestInv, SlotInv, PlaceInv, QueueInv, NegotiationInv,
           TakeControl \/ \E q \in Requests : Written(q)
    PROVE  Kept
<1>1. /\ UNCHANGED <<reader, up, closing, data, active, slots, pc, reply, cancelled, sent>>
      /\ UNCHANGED <<initialized, initializing, negotiated>>
      /\ UNCHANGED <<subscriptions, terminalStreams, subscriptionCancels, admission, ended>>
    BY DEF TakeControl, Written, loops, negotiation, admissions
<1>2. SlotStep /\ PlaceStep
    BY <1>1, Still
<1>3. ASSUME NEW r \in Requests, NEW f, frame' = [frame EXCEPT ![r] = f], LoopTypes', QueueInv',
             \/ frame[r] = "queued" /\ f \in {"writing", "skipped"}
             \/ frame[r] = "writing" /\ f \in {"written", "failed"}
      PROVE  Kept
  <2>1. Placed(r, pc[r], reply[r], frame[r], admission[r], sent[r])
      BY Here
  <2>2. Placed(r, pc[r], reply[r], f, admission[r], sent[r])
      BY <1>3, <2>1 DEF Placed
  <2>3. Engaged(r, pc[r], reply[r], f) => Engaged(r, pc[r], reply[r], frame[r])
      BY <1>3 DEF Engaged
  <2>4. Negotiates(r, pc[r], reply[r], f)
      BY <1>1, <2>3, NegotiationStays DEF negotiation
  <2>5. Moved(r, pc[r], reply[r], f, admission[r], sent[r])
      BY <1>1, <1>3, Same DEF Moved
  <2>. QED BY <1>2, <1>3, <2>2, <2>4, <2>5, Step DEF Around
<1>4. CASE TakeControl
  <2> DEFINE r == Head(control)
             f == IF Skipped(r) THEN "skipped" ELSE "writing"
  <2>1. /\ control # <<>> /\ control' = Tail(control) /\ frame' = [frame EXCEPT ![r] = f]
        /\ writer' = "top" \/ (writer' = r /\ f = "writing")
      BY <1>4 DEF TakeControl
  <2>2. r \in Requests /\ frame[r] = "queued" /\ f \in {"writing", "skipped"} /\ "top" \notin Requests
      BY SMTT(30), <2>1, ConnectionAssumption DEF LoopTypes, QueueInv
  <2> HIDE DEF f
  <2>3. QueueInv'
      BY <1>1, <2>1, <2>2, QueueTaken
  <2> HIDE DEF r
  <2>4. LoopTypes'
      BY <1>1, <2>1, <2>2, Bounded DEF LoopTypes
  <2>. QED BY <1>3, <2>1, <2>2, <2>3, <2>4
<1>5. ASSUME NEW r \in Requests, Written(r) PROVE Kept
  <2>1. PICK f \in {"written", "failed"} : frame' = [frame EXCEPT ![r] = f]
      BY <1>5 DEF Written
  <2>2. writer = r /\ writer' \in {"top", "ended"} /\ control' = control
      BY <1>5 DEF Written
  <2>3. frame[r] = "writing" /\ LoopTypes' /\ writer' \notin Requests
      BY <1>1, <2>2, ConnectionAssumption DEF LoopTypes, QueueInv
  <2>4. QueueInv'
      BY SMTT(30), <1>1, <2>1, <2>2, <2>3 DEF QueueInv, RequestInv, LoopTypes
  <2>. QED BY <1>3, <2>1, <2>3, <2>4
<1>. QED BY <1>4, <1>5

-----------------------------------------------------------------------------
(* The counters *)

\* Counting requests one at a time.
LEMMA OneMore ==
    ASSUME NEW S, S \subseteq Requests, NEW r \in Requests, r \notin S, NEW T, T = S \cup {r}
    PROVE  Cardinality(S) \in Nat /\ Cardinality(T) = Cardinality(S) + 1
<1>1. IsFiniteSet(S) /\ Cardinality(S) \in Nat
    BY ConnectionAssumption, FS_Subset, FS_CardinalityType
<1>. QED BY <1>1, FS_AddElement

\* Counting one less.
LEMMA OneLess ==
    ASSUME NEW S, S \subseteq Requests, NEW r \in S, NEW T, T = S \ {r}
    PROVE  /\ Cardinality(S) \in Nat /\ Cardinality(T) \in Nat
           /\ Cardinality(T) = Cardinality(S) - 1
<1>1. IsFiniteSet(S) /\ Cardinality(S) \in Nat /\ IsFiniteSet(T) /\ Cardinality(T) \in Nat
    BY ConnectionAssumption, FS_Subset, FS_CardinalityType
<1>. QED BY <1>1, FS_RemoveElement

\* A step that keeps the books keeps the counters equal to what they count.
LEMMA CountStep ==
    ASSUME CountInv, Kept
    PROVE  CountInv'
<1>1. InFlight \subseteq Requests /\ Admitted \subseteq Requests
    BY DEF InFlight, Admitted
<1>2. slots' = Cardinality(InFlight') /\ slots' <= MaxInFlightRequests
  <2>1. CASE InFlight' = InFlight /\ slots' = slots
      BY <2>1 DEF CountInv
  <2>2. ASSUME NEW r \in Requests \ InFlight, InFlight' = InFlight \cup {r}, slots' = slots + 1,
               slots < MaxInFlightRequests
        PROVE  slots' = Cardinality(InFlight') /\ slots' <= MaxInFlightRequests
    <3>1. Cardinality(InFlight') = Cardinality(InFlight) + 1 /\ Cardinality(InFlight) \in Nat
        BY <1>1, <2>2, OneMore
    <3>. QED BY SMTT(30), <2>2, <3>1, ConnectionAssumption DEF CountInv
  <2>3. ASSUME NEW r \in InFlight, InFlight' = InFlight \ {r}, slots' = slots - 1
        PROVE  slots' = Cardinality(InFlight') /\ slots' <= MaxInFlightRequests
    <3>1. Cardinality(InFlight') = Cardinality(InFlight) - 1 /\ Cardinality(InFlight) \in Nat
        BY <1>1, <2>3, OneLess
    <3>. QED BY SMTT(30), <2>3, <3>1, ConnectionAssumption DEF CountInv
  <2>. QED BY <2>1, <2>2, <2>3 DEF Kept, SlotStep
<1>3. subscriptions' = Cardinality(Admitted') /\ subscriptions' <= MaxSubscriptions
  <2>1. CASE Admitted' = Admitted /\ subscriptions' = subscriptions
      BY <2>1 DEF CountInv
  <2>2. ASSUME NEW r \in Requests \ Admitted, Admitted' = Admitted \cup {r},
               subscriptions' = subscriptions + 1, subscriptions < MaxSubscriptions
        PROVE  subscriptions' = Cardinality(Admitted') /\ subscriptions' <= MaxSubscriptions
    <3>1. Cardinality(Admitted') = Cardinality(Admitted) + 1 /\ Cardinality(Admitted) \in Nat
        BY <1>1, <2>2, OneMore
    <3>. QED BY SMTT(30), <2>2, <3>1, ConnectionAssumption DEF CountInv
  <2>3. ASSUME NEW r \in Admitted, Admitted' = Admitted \ {r},
               subscriptions' = IF subscriptions > 0 THEN subscriptions - 1 ELSE subscriptions
        PROVE  subscriptions' = Cardinality(Admitted') /\ subscriptions' <= MaxSubscriptions
    <3>1. /\ Cardinality(Admitted') = Cardinality(Admitted) - 1
          /\ Cardinality(Admitted) \in Nat /\ Cardinality(Admitted') \in Nat
        BY <1>1, <2>3, OneLess
    <3>. QED BY SMTT(30), <2>3, <3>1, ConnectionAssumption DEF CountInv
  <2>. QED BY <2>1, <2>2, <2>3 DEF Kept, PlaceStep
<1>. QED BY <1>2, <1>3 DEF CountInv

-----------------------------------------------------------------------------
(* The theorems *)

\* A new connection satisfies the invariant.
LEMMA InitConnection == Init => ConnectionInv
<1> SUFFICES ASSUME Init PROVE ConnectionInv
    OBVIOUS
<1> USE ConnectionAssumption
<1>1. PICK sending \in Workloads : pc = [r \in Requests |-> IF r \in sending THEN "unsent" ELSE "done"]
    BY DEF Init
<1>2. InFlight = {} /\ Admitted = {}
    BY <1>1 DEF Init, InFlight, Admitted
<1>3. LoopTypes
  <2>1. up \in BOOLEAN /\ closing \in BOOLEAN
      BY DEF Init
  <2>2. /\ reader = "reading" /\ writer = "top" /\ control = <<>> /\ data = <<>>
        /\ ended = {} /\ cancelled = {}
      BY DEF Init
  <2>. QED BY SMTT(30), <2>1, <2>2 DEF LoopTypes
<1>4. RequestInv
    BY SMTT(30), <1>1 DEF Init, RequestInv, Labels, Placed
<1>5. SlotInv /\ PlaceInv /\ CountInv
    BY SMTT(30), <1>2, FS_EmptySet DEF Init, SlotInv, PlaceInv, CountInv
<1>6. QueueInv
    BY SMTT(30) DEF Init, QueueInv
<1>7. NegotiationInv
  <2>1. \A r \in Requests : ~Engaged(r, pc[r], reply[r], frame[r])
      BY <1>1 DEF Init, Engaged
  <2>2. initialized \in BOOLEAN /\ initializing \in BOOLEAN /\ negotiated = initialized /\ ~initializing
      BY DEF Init
  <2>. QED BY <2>1, <2>2 DEF NegotiationInv, Secured
<1>. QED BY <1>3, <1>4, <1>5, <1>6, <1>7 DEF ConnectionInv

\* ConnectionInv is inductive, so every reachable state of a connection satisfies it.
THEOREM ConnectionInvariant == Spec => []ConnectionInv
<1>1. ConnectionInv /\ [Next]_vars => ConnectionInv'
  <2> SUFFICES ASSUME ConnectionInv, [Next]_vars PROVE ConnectionInv'
      OBVIOUS
  <2>1. LoopTypes /\ RequestInv /\ SlotInv /\ PlaceInv /\ QueueInv /\ NegotiationInv /\ CountInv
      BY DEF ConnectionInv
  <2>2. ASSUME NEW r \in Requests, RequestStep(r) PROVE Kept
      BY <2>1, <2>2, ReadStep, SendErrorStep, ExecuteStep, HandlerFailsStep, HandlerSucceedsStep, RespondStep,
         EnqueueStep, CommittedStep, UnflushedStep, ExitStep, SubscriptionStep, WriterStep DEF RequestStep
  <2>3. Kept
      BY <2>1, <2>2, LoopsStep, WriterStep DEF Next
  <2>4. CountInv'
      BY <2>1, <2>3, CountStep
  <2>. QED BY <2>3, <2>4 DEF ConnectionInv, Kept, SlotStep, PlaceStep
<1>. QED BY <1>1, InitConnection, PTL DEF Spec

\* The slots, the active IDs, the places of subscriptions and both maps of them are
\* accounted for, within their limits, whatever the order of requests, cancellations,
\* failed writes and shutdowns.
THEOREM PlacesAreAccounted == Spec => []PlacesAccounted
<1>1. ASSUME ConnectionInv PROVE PlacesAccounted
  <2>1. LoopTypes /\ RequestInv /\ SlotInv /\ PlaceInv /\ NegotiationInv /\ CountInv
      BY <1>1 DEF ConnectionInv
  <2>2. TypeOK
    <3>1. {up, closing, initialized, initializing, negotiated} \subseteq BOOLEAN
        BY <2>1 DEF LoopTypes, NegotiationInv
    <3>. QED BY <2>1, <3>1 DEF TypeOK, LoopTypes, RequestInv
  <2>3. RequestsAccounted
      BY <2>1 DEF RequestsAccounted, SlotInv, CountInv
  <2>4. \A r \in Requests : admission[r] = "open" => pc[r] \in {"running", "respond", "enqueue", "flushing"}
      BY <2>1, Here DEF Placed
  <2>5. AdmissionsAccounted
      BY <2>1, <2>4 DEF AdmissionsAccounted, PlaceInv, Admitted, CountInv
  <2>. QED BY <2>2, <2>3, <2>5 DEF PlacesAccounted
<1>. QED BY <1>1, ConnectionInvariant, PTL

\* No notification of a subscription is queued before its response is on the wire.
THEOREM ResponsesPrecedeStreams == Spec => []ResponseBeforeStream
<1>1. ConnectionInv => ResponseBeforeStream
    BY Here DEF ConnectionInv, ResponseBeforeStream, Placed
<1>. QED BY <1>1, ConnectionInvariant, PTL

\* At most one initialization is ever answered with success, and the connection keeps
\* what it negotiated for as long as it is open.
THEOREM NegotiationIsStable == Spec => []NegotiationStable
<1>1. ASSUME ConnectionInv PROVE NegotiationStable
  <2> DEFINE done == {r \in Requests : Kind[r] = "initialize" /\ reply[r] = "ok" /\ frame[r] = "written"}
  <2>1. RequestInv /\ NegotiationInv
      BY <1>1 DEF ConnectionInv
  <2>2. \A r \in done : r \in Requests /\ Engaged(r, pc[r], reply[r], frame[r])
      BY DEF Engaged
  <2>3. \A r \in done : pc[r] \in {"flushing", "exit", "done"}
      BY <2>1, Here DEF Placed
  <2>4. up /\ done # {} => initialized /\ negotiated
      BY <2>1, <2>2, <2>3 DEF NegotiationInv, Secured
  <2>5. Cardinality(done) <= 1
    <3>1. \A r, q \in done : r = q
        BY <2>1, <2>2 DEF NegotiationInv
    <3>2. CASE done = {}
        BY SMTT(30), <3>2, FS_EmptySet
    <3>3. ASSUME NEW r \in done PROVE Cardinality(done) <= 1
      <4>1. done = {r}
          BY <3>1
      <4> HIDE DEF done
      <4>2. Cardinality(done) = 1
          BY <4>1, FS_Singleton
      <4>. QED BY SMTT(30), <4>2
    <3>. QED BY <3>2, <3>3
  <2>. QED BY <2>4, <2>5 DEF NegotiationStable
<1>. QED BY <1>1, ConnectionInvariant, PTL
=============================================================================
