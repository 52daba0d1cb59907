----------------------------- MODULE Negotiation -----------------------------
(* How a gateway and a provider built on the SDK agree on a connection: what *)
(* NewServer accepts, what initialize selects from an offer, what the client *)
(* accepts and keeps, and which handler a request reaches afterwards.  All   *)
(* of it is data in, data out; Conformance runs a provider made of it.       *)
EXTENDS Capabilities, Integers, Sequences, FiniteSets

CONSTANTS
    Servers,            \* server configurations with their handlers
    Offers,             \* initialization requests
    ClientEnvelopes,    \* envelope limits of clients
    Limits,             \* limit records
    MaxMessageBytes, MaxTerminalChunkBytes,
    LimitBounds,        \* the upper bounds of the other limits
    None

Range1(seq) == {seq[i] : i \in DOMAIN seq}
Distinct(seq) == Cardinality(Range1(seq)) = Len(seq)
Least(S) == CHOOSE x \in S : \A y \in S : x <= y
Refuse(code) == [error |-> code]
Succeeds(r) == "error" \notin DOMAIN r

(**************************** validation ***********************************)

Names(m) == {c.name : c \in m.caps}

\* CapabilityDescriptor.Validate.
DescriptorValid(c) == IF c.mutating THEN c.class \in DeliveryClasses ELSE c.class = "none"

\* ProviderManifest.Validate; the same rules hold for ProviderCapabilitiesResult.  A core
\* capability is described as in the catalogue (equalCapabilityDefinition).  The
\* descriptors are a set: their order and exact copies, which are refused, are left out.
ManifestValid(m) ==
    /\ m.roles # {} /\ "provider" \notin m.roles /\ m.caps # {} /\ m.platforms # {}
    /\ \A c \in m.caps : /\ DescriptorValid(c) /\ c.role \in m.roles \cup {"provider"}
                         /\ Known(c.name) => c \in CapabilityCatalog
    /\ Cardinality(Names(m)) = Cardinality(m.caps)

\* ProviderManifest.Supports and Capability.
Supports(m, name) == name \in Names(m)
Descriptor(m, name) == CHOOSE c \in m.caps : c.name = name

SizesValid(r) == /\ r.message \in 1..MaxMessageBytes
                 /\ r.chunk \in 1..MaxTerminalChunkBytes
                 /\ r.chunk <= r.message

\* ProviderInitializeRequest.Validate and ProviderInitializeResult.Validate.
RequestValid(r) == r.versions # {} /\ Distinct(r.required) /\ SizesValid(r) /\ r.auth # {}
ResultValid(r) == r.version = "v1" /\ ManifestValid(r.manifest) /\ SizesValid(r) /\ Distinct(r.features)

\* ValidateProviderNegotiation: the result is a selection from the offer.
NegotiationValid(request, result) ==
    /\ RequestValid(request) /\ ResultValid(result)
    /\ result.version \in request.versions
    /\ request.platform \in result.manifest.platforms
    /\ Range1(request.required) \subseteq Names(result.manifest)
    /\ result.message <= request.message /\ result.chunk <= request.chunk
    /\ result.replay => request.replay
    /\ result.auth \in request.auth
    /\ Range1(result.features) \subseteq request.features

\* ServerConfig.validate.
ConfigValid(s) == s.auth # <<>> /\ Distinct(s.auth) /\ ManifestValid(s.manifest) /\ Distinct(s.features)

\* Limits.Validate.  Each byte bound is checked by a division, so that a product
\* of two limits never overflows.
InRange(x, bound) == x > 0 /\ x <= bound
LimitsValid(l) ==
    /\ InRange(l.envelope, MaxMessageBytes)
    /\ InRange(l.queue, LimitBounds.queue) /\ l.queue <= LimitBounds.queueBytes \div l.envelope
    /\ InRange(l.inflight, LimitBounds.inflight) /\ l.inflight <= LimitBounds.inflightBytes \div l.envelope
    /\ InRange(l.entries, LimitBounds.entries)
    /\ l.bytes >= l.envelope /\ l.bytes <= LimitBounds.bytes
    /\ InRange(l.subscriptions, LimitBounds.subscriptions)

(**************************** handler sets *********************************)

BuiltIn == {"provider.initialize", "provider.capabilities", "command.get_result"}

\* HandlerSet.supports, populated and advertisedHandlers.  h.typed names the fields
\* that are set, h.ext the extension handlers.
HandlerSupports(h, name) ==
    \/ name \in BuiltIn
    \/ name \in SupportCases /\ name \in h.typed
    \/ name \notin SupportCases /\ ~Known(name) /\ name \in DOMAIN h.ext /\ h.ext[name] # {}
Populated(h, name) == IF name \in BuiltIn THEN name \in h.typed ELSE HandlerSupports(h, name)
AdvertisedHandlers(h) == {name \in Catalog : Populated(h, name)}
                         \cup {name \in DOMAIN h.ext : h.ext[name] # {}}

\* Mutant: an extension with any handler is accepted whatever its kind.
AcceptsAnyKind(s) ==
    /\ ConfigValid(s) /\ LimitsValid(s.limits)
    /\ \A name \in DOMAIN s.handlers.ext : ~Known(name)
    /\ \A c \in s.manifest.caps : HandlerSupports(s.handlers, c.name)
    /\ AdvertisedHandlers(s.handlers) \subseteq Names(s.manifest)
    /\ {"provider.initialize", "provider.capabilities"} \subseteq Names(s.manifest)

\* NewServer: what is advertised has a handler of its kind, and the other way round.
NewServer(s) ==
    /\ ConfigValid(s) /\ LimitsValid(s.limits)
    /\ \A name \in DOMAIN s.handlers.ext : ~Known(name)
    /\ \A c \in s.manifest.caps :
          /\ HandlerSupports(s.handlers, c.name)
          /\ ~Known(c.name) => (IF c.mutating THEN "mutation" ELSE "query") \in s.handlers.ext[c.name]
    /\ AdvertisedHandlers(s.handlers) \subseteq Names(s.manifest)
    /\ {"provider.initialize", "provider.capabilities"} \subseteq Names(s.manifest)

\* HandlerSet.dispatch with invokeQuery and invokeMutation: which handler runs.
DispatchTyped(h, name, meta) ==
    IF name \notin h.typed THEN "not_supported"
    ELSE IF name \in DispatchQueries THEN "query"
    ELSE IF meta THEN "mutation" ELSE "unavailable"
DispatchExtension(h, name, meta) ==
    LET kind == IF meta THEN "mutation" ELSE "query"
    IN IF name \in DOMAIN h.ext /\ kind \in h.ext[name] THEN kind ELSE "not_supported"
Dispatch(h, name, meta) ==
    IF name \in DispatchQueries \cup DispatchMutations THEN DispatchTyped(h, name, meta)
    ELSE DispatchExtension(h, name, meta)

\* execute, after initialization: built-in answers, commands and queries.  A handler
\* for provider.capabilities must repeat what the configuration advertises.
Execute(s, name, command) ==
    IF name \notin Names(s.manifest) THEN "not_supported"
    ELSE IF name = "provider.initialize" THEN "conflict"
    ELSE IF name = "provider.capabilities"
         THEN IF name \in s.handlers.typed /\ ~s.handlers.faithful THEN "conflict" ELSE "query"
    ELSE IF name = "command.get_result" /\ name \notin s.handlers.typed THEN "query"
    ELSE IF Descriptor(s.manifest, name).mutating
         THEN IF command THEN Dispatch(s.handlers, name, TRUE) ELSE "invalid_argument"
         ELSE Dispatch(s.handlers, name, FALSE)

\* Client.query and Client.Mutate let a call through when the manifest has it with
\* this kind and, for a core capability, the client has its codec.
ClientSends(m, name, command) ==
    /\ Supports(m, name)
    /\ Descriptor(m, name).mutating <=> command
    /\ Known(name) => name \in ClientCodecs

(***************************** negotiation *********************************)

\* validateCustomNegotiation: what a provider's own initialize handler may select.
CustomCode(s, result) ==
    IF result.manifest # s.manifest THEN "conflict"
    ELSE IF result.message > s.limits.envelope \/ result.chunk > MaxTerminalChunkBytes THEN "invalid_argument"
    ELSE IF result.auth \notin Range1(s.auth) THEN "unauthenticated"
    ELSE IF (result.replay /\ ~s.replay) \/ ~(Range1(result.features) \subseteq Range1(s.features))
         THEN "invalid_argument"
    ELSE "none"

\* Mutant: the chunk size is not limited by the message size that was selected.
SelectUnboundedChunk(s, request) ==
    [version |-> "v1", manifest |-> s.manifest, native |-> s.native,
     message |-> Least({request.message, s.limits.envelope}),
     chunk |-> Least({request.chunk, MaxTerminalChunkBytes}),
     replay |-> request.replay /\ s.replay,
     auth |-> s.auth[Least({i \in DOMAIN s.auth : s.auth[i] \in request.auth})],
     features |-> SelectSeq(s.features, LAMBDA f : f \in request.features)]

\* initialize without a handler of the provider's own: the first of the server's
\* modes that the gateway offers, its features that were offered, the least sizes.
Select(s, request) ==
    [version |-> "v1", manifest |-> s.manifest, native |-> s.native,
     message |-> Least({request.message, s.limits.envelope}),
     chunk |-> Least({request.chunk, MaxTerminalChunkBytes, request.message, s.limits.envelope}),
     replay |-> request.replay /\ s.replay,
     auth |-> s.auth[Least({i \in DOMAIN s.auth : s.auth[i] \in request.auth})],
     features |-> SelectSeq(s.features, LAMBDA f : f \in request.features)]

\* serverConnection.initialize.
Initialize(s, request) ==
    LET missing == SelectSeq(request.required, LAMBDA n : ~Supports(s.manifest, n))
    IN IF ~RequestValid(request) THEN Refuse("invalid_argument")
       ELSE IF "v1" \notin request.versions
            THEN [error |-> "not_supported", required |-> "provider.initialize", advertised |-> Names(s.manifest)]
       ELSE IF missing # <<>>
            THEN [error |-> "not_supported", required |-> missing[1], advertised |-> Names(s.manifest)]
       ELSE IF s.custom # None
            THEN IF ~NegotiationValid(request, s.custom) THEN Refuse("invalid_argument")
                 ELSE IF CustomCode(s, s.custom) # "none" THEN Refuse(CustomCode(s, s.custom))
                 ELSE s.custom
       ELSE IF Range1(s.auth) \cap request.auth = {} THEN Refuse("unauthenticated")
       ELSE IF NegotiationValid(request, Select(s, request)) THEN Select(s, request)
       ELSE Refuse("invalid_argument")

\* What the two ends enforce afterwards: execute's prepare and Client.Initialize.
ServerMaximum(s, result) == Least({s.limits.envelope, result.message})
ClientMaximum(envelope, result) == Least({envelope, result.message})
=============================================================================
