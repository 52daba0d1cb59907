--------------------------------- MODULE Wire ---------------------------------
(* What crosses the byte boundary between a gateway and a provider: frames of *)
(* newline-terminated bytes read through a fixed buffer, the same frames read *)
(* behind the mock gateway, structured errors, and extension values.  Bytes   *)
(* are the three that framing tells apart.  Pure functions, each compared     *)
(* with what it is meant to compute over every small input.                   *)
EXTENDS Capabilities, Integers, Sequences, SequencesExt

CONSTANTS
    BufferSize,      \* of the bufio.Reader, in bytes
    MaxFrame,        \* protocol.MaxMessageBytes
    MaxStream,       \* longest byte stream that is checked
    ReservedKeys,    \* member names that carry platform authority
    ExtensionNames   \* names of the form that extensions have

Byte == {"a", "NL", "CR"}
Streams == BoundedSeq(Byte, MaxStream)
Has(s, b) == \E i \in DOMAIN s : s[i] = b

(******************************* frames ************************************)

\* bufio.Reader.ReadSlice up to the newline: a whole line, a full buffer, or the end.
ReadSlice(stream) ==
    LET window == SubSeq(stream, 1, IF Len(stream) < BufferSize THEN Len(stream) ELSE BufferSize)
        ends == {i \in DOMAIN window : window[i] = "NL"}
        taken == IF ends = {} THEN Len(window) ELSE CHOOSE i \in ends : \A j \in ends : i <= j
    IN [payload |-> SubSeq(stream, 1, IF ends = {} THEN taken ELSE taken - 1),
        rest |-> SubSeq(stream, taken + 1, Len(stream)),
        end |-> IF ends # {} THEN "line" ELSE IF Len(window) = BufferSize THEN "full" ELSE "eof"]

Frame(f, rest) == [frame |-> f, error |-> "none", rest |-> rest]
Broken(code, rest) == [frame |-> <<>>, error |-> code, rest |-> rest]

\* Mutant: the limit is applied to each fragment and not to the frame.
RECURSIVE ReadLoopFragment(_, _, _)
ReadLoopFragment(stream, frame, maximum) ==
    LET s == ReadSlice(stream)
        f == frame \o s.payload
    IN IF Len(s.payload) > maximum THEN Broken("message_too_large", s.rest)
       ELSE IF s.end = "full" THEN ReadLoopFragment(s.rest, f, maximum)
       ELSE IF s.end = "line" /\ f # <<>> /\ ~Has(f, "CR") THEN Frame(f, s.rest)
       ELSE Broken(IF s.end = "eof" /\ f = <<>> THEN "eof" ELSE "invalid_argument", s.rest)

\* readFrame: collect fragments until the line ends.
RECURSIVE ReadLoop(_, _, _)
ReadLoop(stream, frame, maximum) ==
    LET s == ReadSlice(stream)
        f == frame \o s.payload
    IN IF Len(f) > maximum THEN Broken("message_too_large", s.rest)
       ELSE IF s.end = "full" THEN ReadLoop(s.rest, f, maximum)
       ELSE IF s.end = "line" /\ f # <<>> /\ ~Has(f, "CR") THEN Frame(f, s.rest)
       ELSE Broken(IF s.end = "eof" /\ f = <<>> THEN "eof" ELSE "invalid_argument", s.rest)
ReadFrame(stream, maximum) == ReadLoop(stream, <<>>, maximum)

\* A reader's loop: the frames up to the first error, which ends the connection.
RECURSIVE ReadAll(_, _)
ReadAll(stream, maximum) ==
    LET r == ReadFrame(stream, maximum)
    IN IF r.error # "none" THEN <<r.error>> ELSE <<r.frame>> \o ReadAll(r.rest, maximum)

\* validateEnvelope.
EnvelopeCode(data, maximum) ==
    IF data = <<>> THEN "invalid_argument"
    ELSE IF Len(data) > maximum THEN "message_too_large"
    ELSE IF Has(data, "NL") \/ Has(data, "CR") THEN "invalid_argument"
    ELSE "none"

\* writeFrame and writeAll: the newline is added and the writer takes what it can.
RECURSIVE WriteAll(_, _)
WriteAll(bytes, accepts) ==
    IF bytes = <<>> THEN <<>>
    ELSE LET n == IF Len(bytes) < accepts THEN Len(bytes) ELSE accepts
         IN SubSeq(bytes, 1, n) \o WriteAll(SubSeq(bytes, n + 1, Len(bytes)), accepts)
WriteFrame(data, maximum, accepts) ==
    IF EnvelopeCode(data, maximum) = "none" THEN WriteAll(data \o <<"NL">>, accepts) ELSE <<>>

(*************************** the mock gateway ******************************)

\* readBoundaryFrame keeps one byte more than the limit, so a reader still sees a
\* frame that is too large.
BoundaryMaximum == MaxFrame + 1

\* readBoundaryFrame's loop over the fragments.
RECURSIVE BoundaryLoop(_, _)
BoundaryLoop(stream, frame) ==
    LET s == ReadSlice(stream)
        f == frame \o s.payload
    IN IF Len(f) > BoundaryMaximum
       THEN [frame |-> SubSeq(f, 1, BoundaryMaximum), terminated |-> TRUE, error |-> TRUE, rest |-> s.rest]
       ELSE IF s.end = "full" THEN BoundaryLoop(s.rest, f)
       ELSE [frame |-> f, terminated |-> s.end = "line", error |-> s.end = "eof", rest |-> s.rest]

\* pump without faults: complete frames are forwarded with their newline, an
\* unterminated rest is forwarded as it is, then the boundary is closed.
RECURSIVE Pump(_)
Pump(stream) ==
    LET r == BoundaryLoop(stream, <<>>)
        out == IF r.terminated THEN r.frame \o <<"NL">> ELSE r.frame
    IN IF r.error THEN out ELSE out \o Pump(r.rest)

\* Gateway.Write: whole frames go to the provider, the rest waits for the next write.
RECURSIVE GatewayWrite(_, _)
GatewayWrite(buffer, data) ==
    LET ends == {i \in DOMAIN data : data[i] = "NL"}
        cut == CHOOSE i \in ends : \A j \in ends : i <= j
        rest == GatewayWrite(<<>>, SubSeq(data, cut + 1, Len(data)))
    IN IF data = <<>> THEN [sent |-> <<>>, buffer |-> buffer, error |-> FALSE]
       ELSE IF ends = {} THEN IF Len(data) > MaxFrame - Len(buffer)
                              THEN [sent |-> <<>>, buffer |-> <<>>, error |-> TRUE]
                              ELSE [sent |-> <<>>, buffer |-> buffer \o data, error |-> FALSE]
       ELSE IF cut - 1 > MaxFrame - Len(buffer) THEN [sent |-> <<>>, buffer |-> <<>>, error |-> TRUE]
       ELSE [rest EXCEPT !.sent = buffer \o SubSeq(data, 1, cut) \o @]

(******************************* errors ************************************)

Structured(code, message, required, advertised) ==
    [kind |-> "structured", code |-> code, message |-> message, required |-> required, advertised |-> advertised]

\* protocol's canonicalErrorMessages and the provider package's own copy of it, each
\* message by a word of it.
CanonicalErrorMessages ==
    [invalid_argument |-> "protocol value", message_too_large |-> "protocol message", not_supported |-> "required",
     sequence_conflict |-> "event", replay |-> "one-use", expired |-> "authorization", unauthenticated |-> "identity",
     permission_denied |-> "not authorized", conflict |-> "operation conflicts", deadline_exceeded |-> "deadline",
     cancelled |-> "cancelled", resource_exhausted |-> "resource", unavailable |-> "provider",
     outcome_unknown |-> "outcome"]
CanonicalProtocolMessage ==
    [invalid_argument |-> "protocol value", message_too_large |-> "protocol message", not_supported |-> "required",
     sequence_conflict |-> "event", replay |-> "one-use", expired |-> "authorization", unauthenticated |-> "identity",
     permission_denied |-> "not authorized", conflict |-> "operation conflicts", deadline_exceeded |-> "deadline",
     cancelled |-> "cancelled", resource_exhausted |-> "resource", unavailable |-> "provider",
     outcome_unknown |-> "outcome"]

\* validCapabilityName.
ValidCapabilityName(name) == Known(name) \/ name \in ExtensionNames

\* Error.Validate.
ErrorValid(e) ==
    /\ e.code \in DOMAIN CanonicalErrorMessages
    /\ e.message = CanonicalErrorMessages[e.code]
    /\ IF e.code = "not_supported"
       THEN ValidCapabilityName(e.required) /\ IsInjective(e.advertised)
            /\ \A i \in DOMAIN e.advertised : ValidCapabilityName(e.advertised[i])
       ELSE e.required = "none" /\ e.advertised = <<>>

\* newProtocolError.
NewProtocolError(code) ==
    LET c == IF code \in DOMAIN CanonicalProtocolMessage \ {"not_supported"} THEN code ELSE "invalid_argument"
    IN Structured(c, CanonicalProtocolMessage[c], "none", <<>>)

\* normalizeProtocolError with errorCode.
Normalize(e) ==
    CASE e.kind = "canceled" -> NewProtocolError("cancelled")
      [] e.kind = "deadline" -> NewProtocolError("deadline_exceeded")
      [] e.kind = "other" -> NewProtocolError("unavailable")
      [] e.kind = "structured" ->
            IF ErrorValid(e) /\ (e.code = "not_supported" => e.advertised # <<>>) THEN e
            ELSE NewProtocolError("invalid_argument")

\* rpcErrorFrom, and the check the client makes of what it receives.
RpcCode(code) == IF code \in {"invalid_argument", "message_too_large"} THEN "invalid_params"
                 ELSE IF code = "not_supported" THEN "method_not_found" ELSE "server_error"
RpcErrorFrom(e) == LET v == Normalize(e) IN [code |-> RpcCode(v.code), message |-> v.message, data |-> v]
RpcErrorValid(r) ==
    /\ ErrorValid(r.data) /\ r.message = r.data.message
    /\ r.code = CASE r.data.code = "invalid_argument" -> "invalid_params"
                  [] r.data.code = "message_too_large" -> "invalid_params"
                  [] r.data.code = "not_supported" -> "method_not_found"
                  [] OTHER -> "server_error"

(*************************** extension values ******************************)

\* A JSON value: a scalar, an object (members by name) or an array.
Scalar == [type |-> "scalar"]
Object(members) == [type |-> "object", members |-> members]
Array(items) == [type |-> "array", items |-> items]
Children(v) == CASE v.type = "object" -> {v.members[k] : k \in DOMAIN v.members}
                 [] v.type = "array" -> {v.items[i] : i \in DOMAIN v.items}
                 [] OTHER -> {}

\* validateExtensionAuthority: a work list of the values still to be looked at.
RECURSIVE Walk(_)
Walk(stack) ==
    IF stack = {} THEN "none"
    ELSE LET v == CHOOSE x \in stack : TRUE
         IN IF v.type = "object" /\ DOMAIN v.members \cap ReservedKeys # {} THEN "permission_denied"
            ELSE Walk((stack \ {v}) \cup Children(v))
ExtensionCode(v) == Walk({v})
=============================================================================
