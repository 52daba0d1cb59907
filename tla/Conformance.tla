---------------------------- MODULE Conformance ----------------------------
(* The conformance runner: it takes the cases of a matrix in order, starts   *)
(* the provider under test as a process for each of them (twice for some),   *)
(* negotiates, probes, closes the session and reports.  The process answers  *)
(* as a server of the SDK does (Negotiation), and, where the scenario is not *)
(* a good one, it or its transport may fail at any step.                     *)
(*                                                                           *)
(* A report is kept as its last entry, whether a required case failed and    *)
(* how many entries there are.  The case's context ends at the step that     *)
(* observes it.  Provider.Close is taken to reap the process it kills within *)
(* the five seconds it waits.                                                *)
EXTENDS Negotiation, SequencesExt

CONSTANTS
    Scenarios,          \* records: matrix, servers a launch may run, good
    Diagnostics,        \* what a process may write to stderr, as writes of bytes
    Marker,             \* the redaction marker, as bytes
    StderrLimit,
    NegotiatedMaximum, SmallMaximum,   \* message sizes the runner offers
    MaxSequence         \* highest event sequence

VARIABLES scenario, index, pc, attempt, procs, session, first, seen, highest,
          discovered, last, requiredFailed
vars == <<scenario, index, pc, attempt, procs, session, first, seen, highest,
          discovered, last, requiredFailed>>

Current == scenario.matrix[index]
Kind == Current.kind

(************************** cases and matrix *******************************)

EventKinds == {"event_duplicate", "event_out_of_order", "replay_gap"}
CaseKinds == EventKinds \cup
    {"initialize_required", "optional_capabilities", "capability_mapping", "not_supported", "reconnect",
     "cancellation", "deadline", "backpressure", "oversized_frame", "crash_recovery", "redaction", "delivery_class"}

\* Case.Validate and Matrix.Validate.
CaseValid(c) ==
    /\ c.kind \in CaseKinds
    /\ c.class # None <=> c.kind = "delivery_class"
    /\ c.class # None => c.class \in DeliveryClasses
    /\ c.when => c.capability # None \/ c.class # None
    /\ c.replay => c.kind = "replay_gap"
MatrixValid(m) == m # <<>> /\ \A i \in DOMAIN m : CaseValid(m[i])

\* deliveryTargetCapability: the capability that a delivery case calls.
Preferred == [provider_idempotent |-> "runtime.stop_session", state_reconciled |-> "runtime.create_session",
              at_most_once |-> "runtime.terminate_session"]
DeliveryTarget(m, class) ==
    IF class # None /\ Supports(m, Preferred[class]) THEN Preferred[class] ELSE None

\* Mutant: a delivery case applies when any command of the provider could be called.
AppliesToAny(c, m) == c.capability # None /\ c.when => Supports(m, c.capability)

\* Case.appliesTo.
AppliesTo(c, m) == /\ c.capability # None /\ c.when => Supports(m, c.capability)
                   /\ c.class # None /\ c.when => DeliveryTarget(m, c.class) # None

\* Matrix.CapabilityCaseMap, by position in the matrix.
CapabilityCaseMap(matrix, m) ==
    [name \in Names(m) |-> {i \in DOMAIN matrix : \/ matrix[i].kind = "capability_mapping"
                                                  \/ matrix[i].capability = name
                                                  \/ DeliveryTarget(m, matrix[i].class) = name}]

\* commandTargetForDeadline: the first of these that is advertised.
DeadlineTarget(m) ==
    LET offered == SelectSeq(<<"runtime.create_session", "runtime.stop_session", "runtime.terminate_session",
                               "provider.shutdown">>, LAMBDA n : Supports(m, n))
    IN IF offered = <<>> THEN None ELSE offered[1]

ProbeNames == <<"example.conformance/unsupported", "example.conformance/unsupported-1">>

\* Mutant: the probe is not looked up in the manifest.
UnsupportedCapabilityFixed(m) == ProbeNames[1]

\* unsupportedCapability: the first probe name that is not advertised.
UnsupportedCapability(m) == SelectSeq(ProbeNames, LAMBDA n : ~Supports(m, n))[1]

(****************************** outcomes ***********************************)

\* What sameProviderContract compares of two initializations.
Contract(r) == [version |-> r.version, native |-> r.native, replay |-> r.replay,
                auth |-> r.auth, manifest |-> r.manifest]

Outcome(status, summary, initialized) == [status |-> status, summary |-> summary, initialized |-> initialized]
Passed(r) == Outcome("passed", "none", r)
Skipped(r, summary) == Outcome("skipped", summary, r)

\* failed with errorCode and errorSummary; an error without a code is unavailable.
ErrorSummary(code) ==
    CASE code = "invalid_argument" -> "invalid_protocol_result"
      [] code = "message_too_large" -> "message_too_large"
      [] code = "not_supported" -> "capability_not_supported"
      [] code = "sequence_conflict" -> "sequence_conflict"
      [] code = "deadline_exceeded" -> "case_deadline_exceeded"
      [] code = "cancelled" -> "case_cancelled"
      [] code = "resource_exhausted" -> "resource_exhausted"
      [] code = "outcome_unknown" -> "outcome_unknown"
      [] OTHER -> "provider_unavailable"
Failed(r, code) == Outcome("failed", ErrorSummary(code), r)
InvalidProtocol(r) == Outcome("failed", "invalid_protocol_result", r)

\* Mutant: what a later case negotiates is not compared with the first.
ReviewFirst(outcome) ==
    IF outcome.initialized # None /\ outcome.status # "failed" /\ ~AppliesTo(Current, outcome.initialized.manifest)
    THEN Skipped(outcome.initialized, "capability_not_advertised") ELSE outcome

\* Run, on what a case returns: the contract must be the one discovered first, and a
\* case that turns out not to apply is a skip.
Review(outcome) ==
    LET differs == /\ outcome.initialized # None /\ discovered # None
                   /\ Contract(outcome.initialized) # Contract(discovered)
        status == IF differs THEN "failed" ELSE outcome.status
    IN IF outcome.initialized # None /\ status # "failed" /\ ~AppliesTo(Current, outcome.initialized.manifest)
       THEN Skipped(outcome.initialized, "capability_not_advertised")
       ELSE IF differs THEN InvalidProtocol(outcome.initialized) ELSE outcome

\* The entry for the current case and the step to the next one.
Record(status, summary, contracts, leaked) ==
    /\ last' = [index |-> index, status |-> status, summary |-> summary, seen |-> contracts, leaked |-> leaked]
    /\ requiredFailed' = (requiredFailed \/ (Current.required /\ status = "failed"))
    /\ index' = index + 1 /\ pc' = "next" /\ attempt' = 0
    /\ session' = None /\ first' = None /\ seen' = {} /\ highest' = 0
    /\ UNCHANGED scenario

\* The case returns: its deferred Close has run, and Run reports it.
Conclude(outcome, contracts) ==
    LET reviewed == Review(outcome)
    IN /\ discovered' = IF discovered = None THEN outcome.initialized ELSE discovered
       /\ Record(reviewed.status, reviewed.summary, contracts, session # None /\ session.leaked)

(************************* the diagnostics buffer **************************)

\* boundedBuffer.Write: it keeps what fits and remembers that something did not.
BufferWrite(b, value) ==
    LET remaining == StderrLimit - Len(b.data)
    IN [data |-> b.data \o SubSeq(value, 1, Least({remaining, Len(value)})),
        overflow |-> b.overflow \/ Len(value) > remaining]

Buffered(writes) == FoldLeft(BufferWrite, [data |-> <<>>, overflow |-> FALSE], writes)
HasMarker(bytes) == \E i \in 1..(Len(bytes) - Len(Marker) + 1) : SubSeq(bytes, i, i + Len(Marker) - 1) = Marker

RedactionOutcome(r, stderr) ==
    IF stderr.overflow THEN Outcome("failed", "diagnostics_limit_exceeded", r)
    ELSE IF HasMarker(stderr.data) THEN Failed(r, "unavailable")
    ELSE Passed(r)

(******************************* sessions **********************************)

Init ==
    /\ scenario \in Scenarios /\ MatrixValid(scenario.matrix)
    /\ index = 1 /\ pc = "next" /\ attempt = 0 /\ procs = {} /\ session = None /\ first = None
    /\ seen = {} /\ highest = 0 /\ discovered = None /\ last = None /\ requiredFailed = FALSE

\* Run, for a case that the discovered manifest already rules out.
SkipCase ==
    /\ pc = "next" /\ index <= Len(scenario.matrix)
    /\ discovered # None /\ ~AppliesTo(Current, discovered.manifest)
    /\ Record("skipped", "capability_not_advertised", {}, FALSE)
    /\ UNCHANGED <<procs, discovered>>

BeginCase ==
    /\ pc = "next" /\ index <= Len(scenario.matrix)
    /\ discovered # None => AppliesTo(Current, discovered.manifest)
    /\ pc' = "start" /\ attempt' = 1
    /\ UNCHANGED <<scenario, index, procs, session, first, seen, highest, discovered, last, requiredFailed>>

Finish ==
    /\ pc = "next" /\ index > Len(scenario.matrix) /\ pc' = "done"
    /\ UNCHANGED <<scenario, index, attempt, procs, session, first, seen, highest, discovered, last, requiredFailed>>

\* startSession: the process is started, the gateway and the client over it.
StartSession ==
    /\ pc = "start" /\ pc' = "initialize"
    /\ procs' = procs \cup {attempt}
    /\ \E server \in scenario.servers,
          writes \in (IF Kind = "redaction" /\ ~scenario.good THEN Diagnostics ELSE {<<>>}) :
          session' = [server |-> server, stderr |-> Buffered(writes), leaked |-> HasMarker(FlattenSeq(writes))]
    /\ UNCHANGED <<scenario, index, attempt, first, seen, highest, discovered, last, requiredFailed>>

\* What an error at the start of a session returns: runReconnect forgets the first
\* initialization, the other cases with two sessions report it.
StartContract == IF Kind = "reconnect" THEN None ELSE first

StartFails ==
    /\ pc = "start" /\ ~scenario.good
    /\ Conclude(Failed(StartContract, "unavailable"), seen)
    /\ UNCHANGED procs

\* initializeRequest with what the case requires and offers.
Offer ==
    LET maximum == IF Kind = "oversized_frame" THEN SmallMaximum ELSE NegotiatedMaximum
        extra == IF Kind = "not_supported" /\ attempt = 2 THEN <<UnsupportedCapability(first.manifest)>> ELSE <<>>
    IN [versions |-> {"v1"}, platform |-> "this platform",
        required |-> <<"provider.initialize", "provider.capabilities">> \o extra,
        message |-> maximum, chunk |-> Least({maximum, MaxTerminalChunkBytes}), replay |-> TRUE, auth |-> {"none"},
        features |-> IF Kind = "redaction" THEN {"marker"} ELSE {}]

Faulty(codes) == IF scenario.good THEN {} ELSE {Refuse(c) : c \in codes}
InitializeAnswers == {Initialize(session.server, Offer)} \cup Faulty({"unavailable", "deadline_exceeded"})

\* processSession.Close: the client, the gateway and the process.
CloseSession == procs' = procs \ {attempt}

\* Mutant: a session that could not be initialized is not closed.
InitializeFailsOpen ==
    /\ pc = "initialize" /\ ~(Kind = "not_supported" /\ attempt = 2)
    /\ \E r \in InitializeAnswers : ~Succeeds(r) /\ Conclude(Failed(StartContract, r.error), seen)
    /\ UNCHANGED procs

\* startInitialized and runRedaction: the session is closed when negotiation fails.
InitializeFails ==
    /\ pc = "initialize" /\ ~(Kind = "not_supported" /\ attempt = 2)
    /\ \E r \in InitializeAnswers : ~Succeeds(r) /\ Conclude(Failed(StartContract, r.error), seen)
    /\ CloseSession

\* runNotSupported, second session: the refusal must name the capability that was
\* missing and list what the first session advertised.
RefusalProbed ==
    /\ pc = "initialize" /\ Kind = "not_supported" /\ attempt = 2
    /\ \E r \in InitializeAnswers :
          LET right == /\ ~Succeeds(r) /\ r.error = "not_supported"
                       /\ r.required = UnsupportedCapability(first.manifest)
                       /\ r.advertised = Names(first.manifest)
          IN Conclude(IF right THEN Passed(first) ELSE Failed(first, "unavailable"), seen)
    /\ CloseSession

\* The first of two sessions is negotiated and closed; the case starts the second.
FirstClosed ==
    /\ pc = "initialize" /\ attempt = 1 /\ Kind \in {"not_supported", "reconnect"}
    /\ \E r \in InitializeAnswers : Succeeds(r) /\ first' = r /\ seen' = {Contract(r)}
    /\ CloseSession /\ pc' = "start" /\ attempt' = 2 /\ session' = None
    /\ UNCHANGED <<scenario, index, highest, discovered, last, requiredFailed>>

\* runReconnect and runCrashRecovery: the second negotiation is compared with the first.
SecondCompared ==
    /\ pc = "initialize" /\ attempt = 2 /\ Kind \in {"reconnect", "crash_recovery"}
    /\ \E r \in InitializeAnswers :
          /\ Succeeds(r)
          /\ Conclude(IF Contract(r) = Contract(first) THEN Passed(first) ELSE InvalidProtocol(first),
                      seen \cup {Contract(r)})
    /\ CloseSession

\* runRedaction: the session is closed before its diagnostics are looked at.
RedactionProbed ==
    /\ pc = "initialize" /\ Kind = "redaction"
    /\ \E r \in InitializeAnswers :
          Succeeds(r) /\ Conclude(RedactionOutcome(r, session.stderr), {Contract(r)})
    /\ CloseSession

Initialized ==
    /\ pc = "initialize" /\ attempt = 1 /\ Kind \notin {"not_supported", "reconnect", "redaction"}
    /\ \E r \in InitializeAnswers : Succeeds(r) /\ first' = r /\ seen' = {Contract(r)}
    /\ pc' = IF Kind = "crash_recovery" THEN "crash" ELSE "probe"
    /\ UNCHANGED <<scenario, index, attempt, procs, session, highest, discovered, last, requiredFailed>>

(******************************** probes ***********************************)

\* What a call of the session's client returns: the handler's kind, or an error code.
CallAnswers(name, command) ==
    (IF ~Supports(first.manifest, name) THEN {"not_supported"}
     ELSE {Execute(session.server, name, command)})
    \cup (IF scenario.good THEN {} ELSE {"unavailable", "deadline_exceeded", "cancelled", "outcome_unknown"})
Answered(a) == a \in {"query", "mutation"}
CapabilityAnswers ==
    CallAnswers("provider.capabilities", FALSE) \cup (IF scenario.good THEN {} ELSE {"mismatch"})

\* runCase stops before the probe when the manifest rules the case out;
\* runOversized and runCrashRecovery leave that to Run.
Probing(kind) == /\ pc = "probe" /\ Kind = kind
                 /\ kind # "oversized_frame" => AppliesTo(Current, first.manifest)
Probed(outcome) == Conclude(outcome, seen) /\ CloseSession

ProbeNotApplicable ==
    /\ pc = "probe" /\ Kind # "oversized_frame" /\ ~AppliesTo(Current, first.manifest)
    /\ Probed(Skipped(first, "capability_not_advertised"))

\* initialize_required has nothing to add; runCancellation calls with a context that
\* has ended, which the client refuses by itself.
ProbeLocal == \E kind \in {"initialize_required", "cancellation"} : Probing(kind) /\ Probed(Passed(first))

\* runOptionalCapability.
ProbeOptional ==
    /\ Probing("optional_capabilities")
    /\ \E a \in CallAnswers("provider.health", FALSE) :
          Probed(IF Supports(first.manifest, "provider.health")
                 THEN IF Answered(a) THEN Passed(first) ELSE Failed(first, a)
                 ELSE IF a = "not_supported" THEN Passed(first) ELSE Failed(first, "unavailable"))

\* runCapabilityMapping.
ProbeMapping ==
    /\ Probing("capability_mapping")
    /\ \E a \in CapabilityAnswers :
          Probed(IF Answered(a) THEN Passed(first) ELSE Failed(first, a))

\* runDeadline: a command whose deadline has passed is refused by the server.
ProbeDeadline ==
    /\ Probing("deadline")
    /\ IF DeadlineTarget(first.manifest) = None THEN Probed(Skipped(first, "no_supported_deadline_target"))
       ELSE \E a \in {"deadline_exceeded"} \cup (IF scenario.good THEN {} ELSE {"unavailable", "mutation"}) :
               Probed(IF a = "deadline_exceeded" THEN Passed(first) ELSE Failed(first, "unavailable"))

\* runDeliveryClass: the same command twice; the retry must return the same bytes.
ProbeDelivery ==
    /\ Probing("delivery_class")
    /\ LET target == DeliveryTarget(first.manifest, Current.class)
       IN IF target = None THEN Probed(Skipped(first, "no_safe_delivery_target"))
          ELSE \E a, b \in CallAnswers(target, TRUE), same \in (IF scenario.good THEN {TRUE} ELSE BOOLEAN) :
                  Probed(IF ~Answered(a) THEN Failed(first, a)
                         ELSE IF ~Answered(b) THEN Failed(first, b)
                         ELSE IF same THEN Passed(first) ELSE Failed(first, "unavailable"))

\* runOversized: the answer fits, or is refused without ending the client.
ProbeOversized ==
    /\ Probing("oversized_frame")
    /\ \E a \in CapabilityAnswers \cup {"message_too_large"}, open \in (IF scenario.good THEN {TRUE} ELSE BOOLEAN) :
          Probed(IF Answered(a) \/ a = "mismatch" \/ (a = "message_too_large" /\ open) THEN Passed(first)
                 ELSE Failed(first, IF a = "message_too_large" THEN "unavailable" ELSE a))

\* runCrashRecovery: the process is killed, and the client must notice.
Crash ==
    /\ pc = "crash" /\ procs' = procs \ {attempt} /\ pc' = "crashed"
    /\ UNCHANGED <<scenario, index, attempt, session, first, seen, highest, discovered, last, requiredFailed>>
CrashProbed ==
    /\ pc = "crashed" /\ CloseSession
    /\ \/ /\ pc' = "start" /\ attempt' = 2 /\ session' = None
          /\ UNCHANGED <<scenario, index, first, seen, highest, discovered, last, requiredFailed>>
       \/ ~scenario.good /\ Conclude(Failed(first, "unavailable"), seen)

\* runEventSequence and runBackpressure subscribe, and then wait for notifications.
Subscription == IF Kind \in EventKinds THEN "events.subscribe" ELSE "terminal.subscribe"
Subscribe ==
    /\ \E kind \in EventKinds \cup {"backpressure"} : Probing(kind)
    /\ IF Current.replay /\ ~first.replay THEN Probed(Skipped(first, "replay_not_supported"))
       ELSE \E a \in CallAnswers(Subscription, FALSE) :
               \/ ~Answered(a) /\ Probed(Failed(first, a))
               \/ /\ Answered(a) /\ pc' = "observe"
                  /\ UNCHANGED <<scenario, index, attempt, procs, session, first, seen, highest, discovered,
                                 last, requiredFailed>>

\* An event, with what the sequence tracker says of it.
ObserveEvent ==
    /\ pc = "observe" /\ Kind \in EventKinds
    /\ \E sequence \in 1..MaxSequence,
          tracked \in {"accepted", "duplicate", "gap"} \cup (IF scenario.good THEN {} ELSE {"sequence_conflict"}) :
          LET observed == \/ Kind = "event_duplicate" /\ tracked = "duplicate"
                          \/ Kind = "replay_gap" /\ tracked = "gap"
                          \/ Kind = "event_out_of_order" /\ highest # 0 /\ sequence < highest
          IN IF tracked = "sequence_conflict" THEN Probed(Failed(first, tracked))
             ELSE IF observed THEN Probed(Passed(first))
             ELSE /\ highest' = IF sequence > highest THEN sequence ELSE highest
                  /\ UNCHANGED <<scenario, index, pc, attempt, procs, session, first, seen, discovered,
                                 last, requiredFailed>>

\* A terminal chunk within the window, whose credit is then returned, or not.
ObserveChunk ==
    /\ pc = "observe" /\ Kind = "backpressure"
    /\ \E right \in (IF scenario.good THEN {TRUE} ELSE BOOLEAN) :
          Probed(IF right THEN Passed(first) ELSE Failed(first, "unavailable"))

ObserveClosed ==
    /\ pc = "observe" /\ ~scenario.good
    /\ Probed(Failed(first, "unavailable"))

\* Mutant: the wait for events does not look at the case's context.
WaitEndsTerminal ==
    /\ pc = "observe" /\ Kind = "backpressure"
    /\ Probed(Skipped(first, "terminal_output_not_observed"))

\* The case's context ends while it waits.
WaitEnds ==
    /\ pc = "observe"
    /\ Probed(Skipped(first, IF Kind \in EventKinds THEN "event_pattern_not_observed"
                             ELSE "terminal_output_not_observed"))

Probe ==
    \/ ProbeNotApplicable \/ ProbeLocal \/ ProbeOptional \/ ProbeMapping \/ ProbeDeadline
    \/ ProbeDelivery \/ ProbeOversized \/ Crash \/ CrashProbed \/ Subscribe
Runner ==
    \/ SkipCase \/ BeginCase \/ Finish \/ StartSession \/ StartFails
    \/ InitializeFails \/ RefusalProbed \/ FirstClosed \/ SecondCompared \/ RedactionProbed \/ Initialized
    \/ Probe \/ WaitEnds
Notified == ObserveEvent \/ ObserveChunk \/ ObserveClosed
Next == Runner \/ Notified

\* The runner is one goroutine that always takes its next step, and a case's context
\* ends by itself: every call of the client returns by then, and so does the wait for
\* notifications, which need never come.
Spec == Init /\ [][Next]_vars /\ WF_vars(Runner)

(****************************** properties *********************************)

Pcs == {"next", "start", "initialize", "probe", "crash", "crashed", "observe", "done"}

\* The runner's state stays within its types.
TypeOK ==
    /\ index \in 1..(Len(scenario.matrix) + 1) /\ pc \in Pcs /\ attempt \in 0..2 /\ procs \subseteq 1..2
    /\ session # None <=> pc \in {"initialize", "probe", "crash", "crashed", "observe"}
    /\ highest \in 0..MaxSequence /\ requiredFailed \in BOOLEAN
    /\ last # None => last.status \in {"passed", "failed", "skipped"} /\ last.index = index - 1
    /\ last # None /\ last.status # "failed" => discovered # None

\* Every process the runner starts is closed before it starts another one and before
\* it reports the case, on the error paths as well.
NoProcessLeft == pc \in {"next", "start", "done"} => procs = {}

\* A case that is not reported as failed negotiated nothing but the contract that was
\* discovered first, however many sessions it opened: a provider that changes between
\* launches cannot pass.
OneContract ==
    last # None /\ last.status # "failed" =>
        \A c \in last.seen : /\ c.version = discovered.version /\ c.native = discovered.native
                             /\ c.replay = discovered.replay /\ c.auth = discovered.auth
                             /\ c.manifest = discovered.manifest

\* A case is reported as not advertised exactly when the discovered manifest lacks
\* what it needs, whether that was known before the case, inside it or after it.
SkipsRight ==
    last # None /\ last.status # "failed" =>
        LET c == scenario.matrix[last.index]
        IN last.summary = "capability_not_advertised" <=>
              \/ c.when /\ c.capability # None /\ c.capability \notin Names(discovered.manifest)
              \/ c.when /\ c.class # None /\ Preferred[c.class] \notin Names(discovered.manifest)

\* The report's capability map lists, for an advertised capability, only cases that
\* apply: none of them is reported as skipped because a capability is not advertised.
\* CapabilityCaseMap does not look at the selectors of a capability_mapping case, nor at
\* the other selector of a case that has two; conditional cases of these kinds, which no
\* committed matrix has, are listed although they were skipped.
MappedCasesRan ==
    last # None /\ last.summary = "capability_not_advertised" =>
        LET c == scenario.matrix[last.index]
            listed == {name \in Names(discovered.manifest) :
                           last.index \in CapabilityCaseMap(scenario.matrix, discovered.manifest)[name]}
        IN listed # {} => c.when /\ (c.kind = "capability_mapping" \/ (c.capability # None /\ c.class # None))

\* A provider that NewServer accepts, whose handlers answer and whose process and
\* transport do not fail, fails no case, whatever it advertises, if it takes the
\* authentication "none" and lists this platform, the only ones initializeRequest offers,
\* and leaves the selection to the SDK.  One that does not take them fails every case.
GoodPasses ==
    scenario.good =>
        \A s \in scenario.servers :
            LET offered == "none" \in Range1(s.auth) /\ "this platform" \in s.manifest.platforms
            IN /\ offered /\ s.custom = None => ~requiredFailed /\ (last # None => last.status # "failed")
               /\ ~offered => (last # None => last.status = "failed")

\* A provider that wrote the marker does not pass the redaction case, however it cuts
\* its writes and however much else it writes.
RedactionSound ==
    last # None /\ last.status = "passed" /\ scenario.matrix[last.index].kind = "redaction" => ~last.leaked

\* Every run reports each case of its matrix and finishes.
Completes == <>(pc = "done" /\ last.index = Len(scenario.matrix))

\* The runner's state has its types, and no step leaves a process behind (Run,
\* startInitialized and processSession.Close).
SessionsClosed == TypeOK /\ NoProcessLeft

\* What a pass means: one contract in all sessions of the case, and for the
\* redaction case no marker in what was written (sameProviderContract, runRedaction).
PassMeans == OneContract /\ RedactionSound

\* Skips are right, and right in the report's capability map (appliesTo against
\* CapabilityCaseMap).
SkipsReported == SkipsRight /\ MappedCasesRan
=============================================================================
