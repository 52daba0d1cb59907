--------------------------- MODULE MCConformance ---------------------------
(* The conformance runner over the committed matrix, against providers that *)
(* stay the same and providers that change between launches, and the pure    *)
(* functions of Negotiation and Wire over small inputs.                      *)
EXTENDS Conformance, Wire

(************************** the committed matrix ***************************)

Plain(kind) == [kind |-> kind, capability |-> None, class |-> None, when |-> FALSE, replay |-> FALSE, required |-> TRUE]
When(kind, name) == [Plain(kind) EXCEPT !.capability = name, !.when = TRUE]
Delivery(class) == [Plain("delivery_class") EXCEPT !.class = class, !.when = TRUE]

DefaultMatrix ==
    <<Plain("initialize_required"), Plain("optional_capabilities"), Plain("capability_mapping"), Plain("not_supported"),
      When("event_duplicate", "events.subscribe"), When("event_out_of_order", "events.subscribe"),
      [When("replay_gap", "events.subscribe") EXCEPT !.replay = TRUE],
      Plain("reconnect"), Plain("cancellation"), Plain("deadline"), When("backpressure", "terminal.subscribe"),
      Plain("oversized_frame"), Plain("crash_recovery"), Plain("redaction"),
      Delivery("provider_idempotent"), Delivery("state_reconciled"), Delivery("at_most_once")>>

\* A matrix that starts with what may not apply, one with a delivery case that is not
\* limited to providers with a target, one with optional cases, and one with the
\* conditional cases whose selectors the capability map overlooks.
OtherMatrices ==
    {<<When("event_duplicate", "events.subscribe"), Plain("reconnect"), Delivery("at_most_once")>>,
     <<[Plain("delivery_class") EXCEPT !.class = "state_reconciled"], When("oversized_frame", "provider.health")>>,
     <<[Plain("deadline") EXCEPT !.required = FALSE], When("crash_recovery", "provider.health"),
       When("redaction", "terminal.subscribe")>>,
     <<Plain("reconnect"), When("capability_mapping", "events.subscribe"),
       [Delivery("provider_idempotent") EXCEPT !.capability = "provider.health"]>>}

(******************************* servers ***********************************)

Basic == {"provider.initialize", "provider.capabilities"}
Core(names) == {c \in CapabilityCatalog : c.name \in names}
Extension(name, mutating) == [name |-> name, role |-> "provider", mutating |-> mutating,
                              class |-> IF mutating THEN "at_most_once" ELSE "none"]
SmallLimits == [envelope |-> 1, queue |-> 1, inflight |-> 1, entries |-> 1, bytes |-> 2, subscriptions |-> 1]
LargeLimits == [SmallLimits EXCEPT !.envelope = 3, !.bytes = 3]

Server(caps, ext) ==
    [manifest |-> [roles |-> {"session-runtime", "execution-environment", "agent-harness"}, caps |-> caps, platforms |-> {"this platform"}],
     native |-> "1", auth |-> <<"token", "none">>, features |-> <<"f", "marker">>, replay |-> TRUE, limits |-> LargeLimits,
     custom |-> None,
     handlers |-> [typed |-> {c.name : c \in caps} \cap (Catalog \ BuiltIn), ext |-> ext, faithful |-> TRUE]]
NoExt == [x \in {} |-> {}]
Ext(kinds) == [x \in {"acme.example/tool"} |-> kinds]

Minimal == Server(Core(Basic), NoExt)
Health == Server(Core(Basic \cup {"provider.health", "provider.shutdown"}), NoExt)
Events == Server(Core(Basic \cup {"events.subscribe", "terminal.subscribe"}), NoExt)
Runtime == Server(Core(Basic \cup {"runtime.stop_session", "runtime.create_session", "events.subscribe"}), NoExt)
Full == Server(Core(Catalog), NoExt)
Tool(mutating, kinds) == Server(Core(Basic) \cup {Extension("acme.example/tool", mutating)}, Ext(kinds))

SameName == Server(Core(Basic) \cup {Extension("example.conformance/unsupported", FALSE)},
                  [x \in {"example.conformance/unsupported"} |-> {"query"}])

\* A provider that describes one core command in its own way.
Misdescribed(d) ==
    [Runtime EXCEPT !.manifest.caps =
        {IF c.name = "runtime.stop_session" THEN [c EXCEPT !.class = d.class, !.role = d.role] ELSE c : c \in @}]

Selected == [version |-> "v1", manifest |-> Minimal.manifest, native |-> "1", message |-> 2, chunk |-> 1,
             replay |-> FALSE, auth |-> "none", features |-> <<"f">>]
Custom(r) == [Minimal EXCEPT !.custom = r, !.handlers.typed = {"provider.initialize"}]

MCServers ==
    {Minimal, Health, Events, Runtime, Full,
     [Minimal EXCEPT !.auth = <<"token">>], [Minimal EXCEPT !.auth = <<"none", "none">>],
     [Minimal EXCEPT !.manifest.platforms = {"another"}], [Minimal EXCEPT !.replay = FALSE, !.limits = SmallLimits],
     [Minimal EXCEPT !.handlers.typed = {"provider.health"}],
     [Health EXCEPT !.handlers.typed = {"provider.health"}],
     [Minimal EXCEPT !.handlers.typed = {"provider.capabilities"}, !.handlers.faithful = FALSE],
     Custom(Selected), Custom([Selected EXCEPT !.message = 3]), Custom([Selected EXCEPT !.auth = "other"]),
     Custom([Selected EXCEPT !.manifest = Health.manifest]), Custom([Selected EXCEPT !.features = <<"g">>]),
     [Custom([Selected EXCEPT !.message = 3]) EXCEPT !.limits = SmallLimits]}
    \cup {Tool(m, k) : m \in BOOLEAN, k \in SUBSET {"query", "mutation"}}
    \cup {Misdescribed([class |-> "at_most_once", role |-> "session-runtime"]),
          Misdescribed([class |-> "provider_idempotent", role |-> "provider"]),
          [Runtime EXCEPT !.manifest.roles = {"agent-harness"}]}

MCOffers ==
    [versions : {{"v1"}, {"v0"}, {"v0", "v1"}}, platform : {"this platform"},
     required : {<<>>, <<"provider.health">>, <<"provider.capabilities", "pane.list", "pane.get">>},
     message : 0..3, chunk : 1..2, replay : BOOLEAN, auth : {{"none"}, {"none", "token"}, {"other"}},
     features : {{}, {"f", "g"}}]

MCLimits == [envelope : 0..3, queue : 0..4, inflight : 0..4, entries : {1}, bytes : 0..4, subscriptions : {1}]
MCLimitBounds == [queue |-> 4, queueBytes |-> 5, inflight |-> 4, inflightBytes |-> 5, entries |-> 2, bytes |-> 4,
                  subscriptions |-> 2]

(****************************** scenarios **********************************)

Good(server, matrix) == [matrix |-> matrix, servers |-> {server}, good |-> TRUE]
Rough(servers, matrix) == [matrix |-> matrix, servers |-> servers, good |-> FALSE]
MCScenarios ==
    {Good(s, m) : s \in {Minimal, Health, Events, Runtime, Full, SameName, Tool(TRUE, {"mutation"}),
                         [Events EXCEPT !.replay = FALSE], [Health EXCEPT !.limits = SmallLimits],
                         [Full EXCEPT !.auth = <<"token">>], [Health EXCEPT !.manifest.platforms = {"another"}],
                         [Custom(Selected) EXCEPT !.auth = <<"token">>]},
                  m \in {DefaultMatrix} \cup OtherMatrices}
    \cup {Rough(S, m) : S \in {{Runtime}, {Health, [Health EXCEPT !.native = "2"]}, {Events, [Events EXCEPT !.replay = FALSE]},
                               {Minimal, Runtime}, {Minimal, [Minimal EXCEPT !.auth = <<"token">>]}},
                        m \in {DefaultMatrix} \cup OtherMatrices}

\* stderr in writes of bytes, the marker being m then k, and the buffer three bytes.
MCMarker == <<"m", "k">>
MCDiagnostics == {<<>>, <<<<"m">>, <<"k">>>>, <<<<"x", "x">>, <<"m", "k">>>>, <<<<"x", "m">>, <<"x">>, <<"k">>>>,
                  <<<<"x", "x", "x">>, <<"m", "k">>>>, <<<<"m", "m">>, <<"k">>>>, <<<<"x">>, <<"x", "x", "x">>>>}

(*************** properties of the pure functions **************************)

\* Negotiation and Wire have no state: what they promise is evaluated where a run of
\* the suite begins, once.
Beginning == index = 1 /\ pc = "next" /\ scenario = Good(Minimal, DefaultMatrix)

\* The catalogue, the supports and dispatch switches and the client's codecs name the
\* same capabilities, and dispatch calls each as what the catalogue says it is.
TablesAgree ==
    Beginning =>
        /\ DispatchQueries = CatalogQueries /\ DispatchMutations = CatalogMutations
        /\ SupportCases = Catalog /\ ClientCodecs = Catalog

\* Every call that the client lets through to a server that NewServer accepted runs a
\* handler of the kind the manifest declares, and a request for anything that is not
\* advertised is answered not_supported: no advertised capability lacks its handler.
AdvertisedServed ==
    Beginning =>
        \A s \in {x \in Servers : NewServer(x)} :
            \A name \in Catalog \cup UNION {DOMAIN x.handlers.ext : x \in Servers} : \A command \in BOOLEAN :
                /\ ClientSends(s.manifest, name, command) /\ name # "provider.initialize" /\ s.handlers.faithful
                      => Execute(s, name, command) = (IF command THEN "mutation" ELSE "query")
                /\ Execute(s, name, command) = "not_supported" <=> name \notin Names(s.manifest)

\* The command that a delivery case calls on a server that NewServer accepted is of the
\* delivery class that the case is about, and acts in a role that the provider has.
DeliveryTargetsRight ==
    Beginning =>
        \A s \in {x \in Servers : NewServer(x)}, class \in DeliveryClasses :
            LET target == DeliveryTarget(s.manifest, class)
            IN target # None => LET c == Descriptor(s.manifest, target)
                                IN c.class = class /\ c.role = "session-runtime" /\ c.role \in s.manifest.roles

\* initialize succeeds exactly when some selection would satisfy both the gateway's
\* offer and the server's configuration: no compatible pair is turned away (a
\* provider's own handler decides for itself).
NegotiationExact ==
    Beginning =>
        \A s \in {x \in Servers : NewServer(x) /\ x.custom = None}, request \in Offers :
            LET selections == [version : {"v1"}, manifest : {s.manifest}, native : {s.native}, message : 1..MaxMessageBytes,
                               chunk : 1..MaxTerminalChunkBytes, replay : BOOLEAN, auth : Range1(s.auth), features : {<<>>}]
            IN Succeeds(Initialize(s, request))
                  <=> \E r \in selections : NegotiationValid(request, r) /\ CustomCode(s, r) = "none"

\* What initialize selects is accepted by the client, the client never sends a frame
\* larger than the server reads, and the two limits are the same when the gateway
\* offers no more than its own client reads.
LimitsAgree ==
    Beginning =>
        \A s \in {x \in Servers : NewServer(x)}, request \in Offers, envelope \in ClientEnvelopes :
            LET result == Initialize(s, request)
            IN Succeeds(result) =>
                  /\ NegotiationValid(request, result)
                  /\ ClientMaximum(envelope, result) <= ServerMaximum(s, result)
                  /\ ServerMaximum(s, result) <= request.message
                  /\ request.message <= envelope => ClientMaximum(envelope, result) = ServerMaximum(s, result)

\* Limits that are accepted bound the bytes that the outbound queue and the requests
\* in flight can hold, although the check divides and rounds, and they leave the
\* idempotency ledger room for at least one envelope.
LimitsBound ==
    Beginning =>
        \A l \in {x \in Limits : LimitsValid(x)} :
            /\ l.queue * l.envelope <= LimitBounds.queueBytes
            /\ l.inflight * l.envelope <= LimitBounds.inflightBytes
            /\ l.bytes \div l.envelope > 0

Envelopes == {d \in BoundedSeq(Byte, MaxFrame + 1) : EnvelopeCode(d, MaxFrame) = "none"}

\* readFrame depends on the line and not on how the buffer cuts it: the first line is
\* a frame exactly when it is terminated, within the limit, not empty and free of CR,
\* and then reading continues right after it.
ReadsWholeLines ==
    Beginning =>
        \A stream \in Streams, maximum \in 1..MaxFrame :
            LET ends == {i \in DOMAIN stream : stream[i] = "NL"}
                cut == IF ends = {} THEN Len(stream) + 1 ELSE CHOOSE i \in ends : \A j \in ends : i <= j
                line == SubSeq(stream, 1, cut - 1)
                r == ReadFrame(stream, maximum)
            IN /\ r.error = "none" <=> ends # {} /\ EnvelopeCode(line, maximum) = "none"
               /\ r.error = "none" => r.frame = line /\ r.rest = SubSeq(stream, cut + 1, Len(stream))
               /\ r.error = "eof" <=> stream = <<>>
               /\ r.error = "message_too_large" <=> Len(line) > maximum

\* Envelopes that writeFrame accepts are read back one by one, whatever part of a
\* frame the writer takes at a time.
FramesRoundTrip ==
    Beginning =>
        \A one, two \in Envelopes, accepts \in 1..2 :
            ReadAll(WriteFrame(one, MaxFrame, accepts) \o WriteFrame(two, MaxFrame, accepts), MaxFrame)
                = <<one, two, "eof">>

\* The mock gateway without faults does not change what a client reads from a
\* provider, up to and including the error that ends the connection, and what it
\* writes to the provider does not depend on how the client's writes cut the bytes.
ProxyTransparent ==
    Beginning =>
        /\ \A stream \in Streams, maximum \in 1..MaxFrame : ReadAll(Pump(stream), maximum) = ReadAll(stream, maximum)
        /\ \A stream \in Streams : \A k \in 0..Len(stream) :
              LET one == GatewayWrite(<<>>, SubSeq(stream, 1, k))
                  two == GatewayWrite(one.buffer, SubSeq(stream, k + 1, Len(stream)))
                  whole == GatewayWrite(<<>>, stream)
              IN /\ whole.error <=> one.error \/ two.error
                 /\ ~whole.error => one.sent \o two.sent = whole.sent

\* Whatever error a handler returns, the error the server sends passes the client's
\* check, and the client's own normalisation leaves it as it is.
ErrorsSound ==
    Beginning =>
        LET codes == DOMAIN CanonicalErrorMessages \cup {"unheard_of"}
            messages == {"protocol value", "required", "event", "native text"}
            errors == {Structured(c, m, r, a) : c \in codes, m \in messages, r \in {"none", "pane.list", "vendor/op", "native"},
                                                a \in {<<>>, <<"pane.get", "vendor/op">>, <<"pane.get", "pane.get">>, <<"native">>}}
                      \cup {[kind |-> k] : k \in {"canceled", "deadline", "other"}}
        IN \A e \in errors : LET r == RpcErrorFrom(e) IN RpcErrorValid(r) /\ Normalize(r.data) = r.data

\* An extension value passes exactly when no object at any depth has a member whose
\* name is reserved for the platform.
AuthorityKept ==
    Beginning =>
        LET keys == ReservedKeys \cup {"other"}
            level0 == {Scalar, Array(<<>>), Object(<<>>)}
            Level(below) == {Array(<<x, y>>) : x, y \in below} \cup {Object([k \in K |-> x]) : K \in SUBSET keys, x \in below}
            level1 == level0 \cup Level(level0)
            Bad(v) == v.type = "object" /\ DOMAIN v.members \cap ReservedKeys # {}
        IN \A v \in level1 \cup Level(level1) :
              ExtensionCode(v) = "none" <=> ~\E x \in {v} \cup Children(v) \cup UNION {Children(c) : c \in Children(v)} : Bad(x)

\* The capability tables agree, every advertised capability is served, and a delivery
\* case calls a command of its class (HandlerSet against the catalogue and the client,
\* deliveryTargetCapability against ProviderManifest.Validate).
CapabilitiesServed == TablesAgree /\ AdvertisedServed /\ DeliveryTargetsRight

\* Negotiation is exact and leaves both ends with limits that agree and bound what
\* is held (initialize, Limits.Validate and the client's Initialize).
NegotiationSound == NegotiationExact /\ LimitsAgree /\ LimitsBound

\* What crosses the boundary: frames are read by the line, read back as written and
\* unchanged behind the gateway; errors pass the other end's check; extension values
\* carry no reserved name (readFrame, writeFrame, the gateway's pump, rpcErrorFrom,
\* validateExtensionAuthority).
WireExact == ReadsWholeLines /\ FramesRoundTrip /\ ProxyTransparent /\ ErrorsSound /\ AuthorityKept
=============================================================================
