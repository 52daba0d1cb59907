------------------------------- MODULE Faults -------------------------------
(***************************************************************************)
(* The scripted fault plan of the mock boundaries (mock/faults.go): what   *)
(* one call of Apply does to the frame it is given and to the frames that  *)
(* an out_of_order fault holds back at the same point.                     *)
(*                                                                         *)
(* A frame is a payload with the form the faults have given it.  A script  *)
(* is a sequence of actions; occurrence counting decides which of them     *)
(* fire at a call, so a caller chooses any set of steps not used before.   *)
(***************************************************************************)
EXTENDS Integers, Sequences

CONSTANTS
    Copies,                 \* copies made by a duplicate fault
    MaxFaultOutputFrames    \* most frames a call may deliver

ASSUME CopiesAssumption == Copies \in Nat \ {0, 1} /\ MaxFaultOutputFrames \in Nat \ {0}

FaultActions == {"disconnect", "crash", "delay", "duplicate", "out_of_order",
                 "replay_gap", "backpressure", "oversize", "redact"}

Plain(payload) == [payload |-> payload, form |-> "plain"]
WithForm(frames, form) == [i \in DOMAIN frames |-> [frames[i] EXCEPT !.form = form]]
Duplicated(frames) == [i \in 1..(Copies * Len(frames)) |-> frames[1 + ((i - 1) \div Copies)]]

\* "oversize" stands for one that exceeds the message limit and "redact" for one
\* that finds its match: padding below the limit and a redaction without a match
\* leave what a frame decodes to alone.
\*
\* One step of the script on what Apply holds: the frames to deliver, the frames
\* held back, and whether an earlier step failed, which ends the call.
ApplyStep(state, action) ==
    IF state.failed THEN state
    ELSE CASE action = "duplicate" ->
                IF Len(state.frames) > MaxFaultOutputFrames \div Copies
                THEN [state EXCEPT !.failed = TRUE, !.frames = <<>>]
                ELSE [state EXCEPT !.frames = Duplicated(@)]
           [] action = "out_of_order" ->
                [state EXCEPT !.held = @ \o state.frames, !.frames = <<>>]
           [] action = "replay_gap" -> [state EXCEPT !.frames = <<>>]
           [] action = "oversize" -> [state EXCEPT !.frames = WithForm(@, "oversized")]
           [] action = "redact" -> [state EXCEPT !.frames = WithForm(@, "redacted")]
           [] action \in {"disconnect", "crash", "cancelled"} ->
                [state EXCEPT !.failed = TRUE, !.frames = <<>>]
           [] action \in {"delay", "backpressure"} -> state

\* Apply: the frame and then the held ones, through the steps of the script that fire,
\* in declaration order.  A delay or a closed gate is abandoned when the caller's
\* context ends.
Apply(frame, held, script, chosen, cancelled) ==
    LET Taken(i) == IF cancelled /\ script[i] \in {"delay", "backpressure"} THEN "cancelled" ELSE script[i]
        state[i \in 0..Len(script)] ==
            IF i = 0 THEN [frames |-> <<frame>> \o held, held |-> <<>>, failed |-> FALSE]
            ELSE IF i \in chosen THEN ApplyStep(state[i - 1], Taken(i)) ELSE state[i - 1]
    IN state[Len(script)]
=============================================================================
