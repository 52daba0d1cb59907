-------------------------- MODULE ClientRPCProofs --------------------------
(***************************************************************************)
(* Proofs about the calls of the Go provider client, for any set of calls, *)
(* any limits and any number of duplicated answers.                        *)
(*                                                                         *)
(* The inductive invariant follows a request and its outcome.  A request   *)
(* frame is queued, written and on the wire at most once and in this       *)
(* order, and the writer's report says where it ended (Tracked).  The      *)
(* right to send a call's outcome is a token: it lies in the pending       *)
(* table, with the reader or with fail, and is gone once it was used       *)
(* (Placed).  A response that came in time is the outcome the call finds   *)
(* (Kept).                                                                 *)
(***************************************************************************)
EXTENDS ClientRPC, TLAPS, FiniteSetTheorems

Frames == [type : {"request", "cancel"}, call : Calls]
Messages == [call : Calls, what : Responses]

Labels == {"idle", "queue", "written", "unwritten", "await", "remove", "tail", "done"}
Results == {"none", "ok", "error", "failed", "refused"}
Outcomes == {"none", "failed", "ok", "error"}

\* The variables' types.
CallTypes ==
    /\ pc \in [Calls -> Labels] /\ result \in [Calls -> Results]
    /\ initialized \in BOOLEAN
TableTypes ==
    /\ ctxDone \subseteq Calls /\ intime \subseteq Calls
    /\ pending \subseteq Calls /\ failing \subseteq Calls /\ closed \in BOOLEAN
OutcomeTypes == outcome \in [Calls -> Outcomes] /\ sends \in [Calls -> Nat]
FrameTypes ==
    /\ ack \in [Calls -> {"none", "ok", "error"}]
    /\ writes \in Seq(Frames) /\ wire \in Seq(Frames) /\ frame \subseteq Frames
MessageTypes == got \subseteq Messages /\ answers \subseteq Messages
Types == CallTypes /\ TableTypes /\ OutcomeTypes /\ FrameTypes /\ MessageTypes

\* The limits.
Bounded ==
    /\ IsFiniteSet(pending) /\ Cardinality(pending) <= MaxInFlightRequests
    /\ Len(writes) <= MaxOutboundQueue

Queued(f) == \E i \in DOMAIN writes : writes[i] = f
OnWire(f) == \E i \in DOMAIN wire : wire[i] = f
Delivering(c) == \E m \in got : m.call = c

\* A call that has not begun, or is not made at all.
Unborn(c) == pc[c] = "idle" \/ (pc[c] = "done" /\ result[c] = "none")

\* Where a request frame is, what the writer has reported of it, and that neither
\* a cancellation nor an answer runs ahead of it.
FrameTracked(c) ==
    /\ Queued(Request(c)) => Request(c) \notin frame /\ ack[c] = "none"
    /\ Request(c) \in frame => ack[c] = "none"
    /\ OnWire(Request(c)) <=> ack[c] = "ok"
    /\ Queued(Cancel(c)) \/ Cancel(c) \in frame => ack[c] = "ok"
CallTracked(c) ==
    /\ Unborn(c) \/ pc[c] = "queue" =>
            ~Queued(Request(c)) /\ Request(c) \notin frame /\ ack[c] = "none"
    /\ pc[c] = "await" => ack[c] = "ok"
    /\ pc[c] \in {"remove", "tail"} => result[c] # "none"
Distinct == \A i, j \in DOMAIN writes : writes[i] = writes[j] /\ writes[i].type = "request" => i = j
Answerable == \A m \in answers \cup got : ack[m.call] = "ok"
Tracked ==
    /\ \A c \in Calls : FrameTracked(c) /\ CallTracked(c)
    /\ Distinct /\ Answerable /\ CancelFollowsRequest

\* The right to send the outcome of a call lies in one place, and is used once.
Waiting == {"queue", "written", "unwritten", "await", "remove"}
Token(c) ==
    /\ c \in pending => c \notin failing /\ ~Delivering(c) /\ sends[c] = 0 /\ pc[c] \in Waiting
    /\ c \in failing => ~Delivering(c) /\ sends[c] = 0
    /\ Delivering(c) => sends[c] = 0
    /\ c \in failing \/ Delivering(c) \/ sends[c] # 0 => ~Unborn(c)
    /\ outcome[c] = "none" <=> sends[c] = 0
    /\ sends[c] <= 1
Placed ==
    /\ \A c \in Calls : Token(c)
    /\ closed => pending = {}
    /\ failing # {} => closed

\* What is known of a call whose frame could not be written, of one that failed,
\* and of one that was answered in time.
Lost(c) == pc[c] = "unwritten" \/ (pc[c] \in {"remove", "tail", "done"} /\ result[c] = "failed")
Answered(c) ==
    /\ outcome[c] = "failed" => closed
    /\ c \in intime => outcome[c] \in Responses
    /\ pc[c] = "remove" => result[c] = "failed"
    /\ Lost(c) => c \in ctxDone \/ ack[c] = "error" \/ closed
    /\ c \in intime /\ pc[c] \in {"remove", "tail", "done"} =>
            c \in ctxDone \/ result[c] \in {"ok", "error", "refused"}
Kept == \A c \in Calls : Answered(c)

Won(c) == Kind[c] = "initialize" /\ pc[c] = "done" /\ result[c] = "ok"
\* Who negotiated first is the only one who did.
Negotiated ==
    /\ \A c \in Calls : Won(c) => initialized
    /\ \A c, d \in Calls : Won(c) /\ Won(d) => c = d

IInv == Types /\ Bounded /\ Tracked /\ Placed /\ Kept /\ Negotiated

-----------------------------------------------------------------------------
(* Types and limits *)

USE Zenon

LEMMA InitTypes == Init => Types
<1> SUFFICES ASSUME Init PROVE Types
  OBVIOUS
<1>1. CallTypes
  BY DEF Init, CallTypes, Labels, Results
<1>2. TableTypes /\ MessageTypes
  BY DEF Init, TableTypes, MessageTypes
<1>3. OutcomeTypes
  BY DEF Init, OutcomeTypes, Outcomes
<1>4. FrameTypes
  BY SMTT(30) DEF Init, FrameTypes
<1> QED  BY <1>1, <1>2, <1>3, <1>4 DEF Types

\* How a step moves one call.
Moves(c, label, what) ==
    pc' = [pc EXCEPT ![c] = label] /\ result' = [result EXCEPT ![c] = what]

\* What fail does to the table.
Fails == closed' = TRUE /\ failing' = pending /\ pending' = {}
Stays == UNCHANGED <<closed, failing, pending>>

LEMMA FailOrStay == Fail <=> (closed /\ Stays) \/ (~closed /\ Fails)
BY DEF Fail, Fails, Stays, ending

\* The moves that the control flow of callValidated and its callers allows.
Legal(c, label, what) ==
    \/ /\ pc[c] = "idle" /\ label = "queue" /\ what = result[c]
    \/ /\ pc[c] = "idle" /\ label \in {"tail", "done"} /\ what \in {"failed", "refused"}
       /\ what = "failed" => c \in ctxDone \/ closed
    \/ /\ pc[c] = "queue" /\ label = "written" /\ what = result[c]
    \/ /\ pc[c] \in {"queue", "written"} /\ label = "unwritten" /\ what = result[c]
       /\ ack[c] = "error" \/ closed \/ c \in ctxDone
    \/ /\ pc[c] = "written" /\ ack[c] = "ok" /\ label = "await" /\ what = result[c]
    \/ /\ pc[c] = "unwritten" /\ outcome[c] \notin Responses /\ label = "remove" /\ what = "failed"
    \/ /\ pc[c] = "await" /\ outcome[c] = "none" /\ label = "remove" /\ what = "failed"
       /\ closed \/ c \in ctxDone
    \/ /\ pc[c] \in {"unwritten", "await"} /\ outcome[c] # "none" /\ label = "tail"
       /\ what = outcome[c] \/ (outcome[c] = "ok" /\ what = "error")
    \/ /\ pc[c] = "remove" /\ label = "tail" /\ what = result[c]
    \/ /\ pc[c] = "tail" /\ label = "done" /\ what \in {result[c], "refused"}

\* A step that moves a call.
CallMoves(c) == \E label \in Labels, what \in Results : Moves(c, label, what) /\ Legal(c, label, what)

LEMMA CallActionsMove ==
    ASSUME CallTypes, OutcomeTypes, NEW c \in Calls, Reserve(c) \/ CallStep(c)
    PROVE  CallMoves(c)
<1>1. ASSUME NEW label \in Labels, NEW what \in Results, Moves(c, label, what), Legal(c, label, what)
      PROVE  CallMoves(c)
  BY <1>1 DEF CallMoves
<1>2. ASSUME NEW label, Goto(c, label), UNCHANGED result PROVE Moves(c, label, result[c])
  BY <1>2 DEF Goto, Moves, CallTypes
<1>3. ASSUME NEW label, NEW what, Return(c, what, label) PROVE Moves(c, label, what)
  BY <1>3 DEF Goto, Return, Moves
<1>4. /\ result[c] \in Results /\ {"failed", "refused", "ok", "error"} \subseteq Results
      /\ {"queue", "written", "unwritten", "await", "remove", "tail", "done"} \subseteq Labels
      /\ outcome[c] \in Outcomes
  BY DEF CallTypes, OutcomeTypes, Results, Labels
<1>5. CASE Reserve(c)
  BY <1>1, <1>2, <1>3, <1>4, <1>5 DEF Reserve, Legal
<1>6. CASE QueueWrite(c)
  BY <1>1, <1>2, <1>4, <1>6 DEF QueueWrite, Legal
<1>7. CASE WriteReturns(c)
  BY <1>1, <1>2, <1>4, <1>7 DEF WriteReturns, Legal
<1>8. ASSUME Take(c), outcome[c] # "none", pc[c] \in {"unwritten", "await"} PROVE CallMoves(c)
  <2>1. PICK what : (what = outcome[c] \/ (outcome[c] = "ok" /\ what = "error")) /\ Return(c, what, "tail")
    BY <1>8 DEF Take
  <2>2. what \in Results
    BY <1>4, <1>8, <2>1 DEF Outcomes, Results
  <2> QED  BY <1>1, <1>3, <1>4, <1>8, <2>1, <2>2 DEF Legal
<1>9. CASE WriteFailed(c)
  BY <1>1, <1>3, <1>4, <1>8, <1>9 DEF WriteFailed, Legal, Responses
<1>10. CASE RemovePending(c)
  BY <1>1, <1>2, <1>4, <1>10 DEF RemovePending, Legal
<1>11. CASE Outcome(c)
  BY <1>8, <1>11 DEF Outcome
<1>12. CASE GiveUp(c) \/ Closed(c)
  BY <1>1, <1>3, <1>4, <1>12 DEF GiveUp, Closed, Legal
<1>13. CASE Conclude(c)
  <2>1. CASE UNCHANGED result
    BY <1>1, <1>2, <1>4, <1>13, <2>1 DEF Conclude, Legal
  <2>2. CASE /\ Kind[c] = "initialize" /\ result[c] = "ok"
             /\ result' = [result EXCEPT ![c] = IF initialized THEN "refused" ELSE "ok"]
    <3> DEFINE what == IF initialized THEN "refused" ELSE "ok"
    <3>1. Moves(c, "done", what) /\ what \in Results /\ what \in {result[c], "refused"}
      BY <1>4, <1>13, <2>2 DEF Conclude, Goto, Moves
    <3> HIDE DEF what
    <3> QED  BY <1>1, <1>4, <1>13, <3>1 DEF Conclude, Legal
  <2> QED  BY <1>13, <2>1, <2>2 DEF Conclude
<1> QED
  BY <1>5, <1>6, <1>7, <1>9, <1>10, <1>11, <1>12, <1>13 DEF CallStep

LEMMA OthersStay ==
    /\ \A c \in Calls : ContextEnds(c) \/ NotifyFailed(c) \/ Answer(c) => UNCHANGED <<pc, result>>
    /\ \A m \in answers : ReadResponse(m) => UNCHANGED <<pc, result>>
    /\ WriterTake \/ WriterDone \/ WriterEnds \/ Deliver \/ ReaderEnds \/ Close
        => UNCHANGED <<pc, result>>
    /\ UNCHANGED vars => UNCHANGED <<pc, result>>
BY DEF ContextEnds, NotifyFailed, Answer, ReadResponse, WriterTake, WriterDone, WriterEnds, Deliver,
       ReaderEnds, Close, callVars, vars

LEMMA CallTypesStep == CallTypes /\ OutcomeTypes /\ [Next]_vars => CallTypes'
<1> SUFFICES ASSUME CallTypes, OutcomeTypes, [Next]_vars PROVE CallTypes'
  OBVIOUS
<1>1. ASSUME NEW c \in Calls, CallMoves(c)
      PROVE  pc' \in [Calls -> Labels] /\ result' \in [Calls -> Results]
  BY <1>1 DEF CallTypes, CallMoves, Moves
<1>2. UNCHANGED <<pc, result>> => pc' \in [Calls -> Labels] /\ result' \in [Calls -> Results]
  BY DEF CallTypes
<1>3. pc' \in [Calls -> Labels] /\ result' \in [Calls -> Results]
  BY <1>1, <1>2, CallActionsMove, OthersStay DEF Next
<1>4. ASSUME NEW c \in Calls, Conclude(c) PROVE initialized' \in BOOLEAN
  BY <1>4 DEF CallTypes, Conclude
<1>5. ASSUME NEW c \in Calls, \/ QueueWrite(c) \/ WriteReturns(c) \/ WriteFailed(c)
                              \/ RemovePending(c) \/ Outcome(c) \/ GiveUp(c) \/ Closed(c)
      PROVE  UNCHANGED initialized
  BY <1>5 DEF QueueWrite, WriteReturns, WriteFailed, RemovePending, Outcome, GiveUp, Closed
<1>6. ASSUME NEW c \in Calls, Reserve(c) \/ ContextEnds(c) \/ NotifyFailed(c) \/ Answer(c)
      PROVE  UNCHANGED initialized
  BY <1>6 DEF Reserve, ContextEnds, NotifyFailed, Answer
<1>7. ASSUME NEW m \in answers, ReadResponse(m) PROVE UNCHANGED initialized
  BY <1>7 DEF ReadResponse
<1>8. ASSUME WriterTake \/ WriterDone \/ WriterEnds \/ Deliver \/ ReaderEnds \/ Close
      PROVE  UNCHANGED initialized
  BY <1>8 DEF WriterTake, WriterDone, WriterEnds, Deliver, ReaderEnds, Close
<1>9. initialized' \in BOOLEAN
  BY <1>4, <1>5, <1>6, <1>7, <1>8 DEF Next, CallStep, vars, CallTypes
<1> QED  BY <1>3, <1>9 DEF CallTypes

LEMMA TableTypesStep == TableTypes /\ MessageTypes /\ [Next]_vars => TableTypes'
<1> SUFFICES ASSUME TableTypes, MessageTypes, [Next]_vars PROVE TableTypes'
  OBVIOUS
<1>1. ASSUME Fail \/ Stays, UNCHANGED <<ctxDone, intime>> PROVE TableTypes'
  BY <1>1, FailOrStay DEF TableTypes, Fails, Stays
<1>2. ASSUME NEW c \in Calls, Reserve(c) \/ ContextEnds(c) \/ NotifyFailed(c) \/ RemovePending(c)
      PROVE  TableTypes'
  BY <1>2 DEF TableTypes, Reserve, ContextEnds, NotifyFailed, RemovePending, Return, table, ending,
              callVars
<1>3. ASSUME NEW c \in Calls, QueueWrite(c) \/ WriteFailed(c) \/ Outcome(c) \/ Closed(c) \/ Answer(c)
      PROVE  Stays /\ UNCHANGED <<ctxDone, intime>>
  BY <1>3 DEF Stays, QueueWrite, WriteFailed, Outcome, Closed, Answer, table, ending, callVars
<1>4. ASSUME NEW c \in Calls, WriteReturns(c) \/ GiveUp(c) \/ Conclude(c)
      PROVE  (Fail \/ Stays) /\ UNCHANGED <<ctxDone, intime>>
  BY <1>4 DEF Stays, WriteReturns, GiveUp, Conclude, ending
<1>5. ASSUME NEW m \in answers, ReadResponse(m) PROVE TableTypes'
  BY <1>5 DEF TableTypes, ReadResponse, ending, callVars
<1>6. CASE WriterTake \/ WriterDone \/ WriterEnds \/ ReaderEnds \/ Close
  BY <1>1, <1>6 DEF Stays, WriterTake, WriterDone, WriterEnds, ReaderEnds, Close, table, ending,
                    callVars
<1>7. CASE Deliver
  BY <1>7 DEF TableTypes, MessageTypes, Messages, Deliver, ending, callVars
<1>8. CASE UNCHANGED vars
  BY <1>8 DEF TableTypes, vars, callVars, table, ending
<1> QED
  BY <1>1, <1>2, <1>3, <1>4, <1>5, <1>6, <1>7, <1>8 DEF Next, CallStep

LEMMA OutcomeTypesStep == OutcomeTypes /\ MessageTypes /\ [Next]_vars => OutcomeTypes'
<1> SUFFICES ASSUME OutcomeTypes, MessageTypes, [Next]_vars PROVE OutcomeTypes'
  OBVIOUS
<1>1. ASSUME NEW c \in Calls, NotifyFailed(c) PROVE OutcomeTypes'
  BY SMTT(30), <1>1 DEF OutcomeTypes, Outcomes, NotifyFailed
<1>2. CASE Deliver
  BY SMTT(30), <1>2 DEF OutcomeTypes, Outcomes, MessageTypes, Messages, Responses, Deliver
<1>3. CASE UNCHANGED <<outcome, sends>>
  BY <1>3 DEF OutcomeTypes
<1>4. ASSUME NEW c \in Calls, Reserve(c) \/ ContextEnds(c) \/ Answer(c) \/ CallStep(c)
      PROVE  UNCHANGED <<outcome, sends>>
  BY <1>4 DEF Reserve, ContextEnds, Answer, CallStep, QueueWrite, WriteReturns, WriteFailed,
              RemovePending, Outcome, GiveUp, Closed, Conclude, table
<1>5. ASSUME NEW m \in answers, ReadResponse(m) PROVE UNCHANGED <<outcome, sends>>
  BY <1>5 DEF ReadResponse
<1>6. ASSUME WriterTake \/ WriterDone \/ WriterEnds \/ ReaderEnds \/ Close
      PROVE  UNCHANGED <<outcome, sends>>
  BY <1>6 DEF WriterTake, WriterDone, WriterEnds, ReaderEnds, Close, table
<1> QED
  BY <1>1, <1>2, <1>3, <1>4, <1>5, <1>6 DEF Next, vars, table

LEMMA FrameTypesStep == FrameTypes /\ [Next]_vars => FrameTypes'
<1> SUFFICES ASSUME FrameTypes, [Next]_vars PROVE FrameTypes'
  OBVIOUS
<1>1. ASSUME NEW f \in Frames, writes' = Append(writes, f) \/ UNCHANGED writes,
             UNCHANGED <<ack, frame, wire>>
      PROVE  FrameTypes'
  BY SMTT(30), <1>1 DEF FrameTypes
<1>2. ASSUME NEW c \in Calls PROVE Request(c) \in Frames /\ Cancel(c) \in Frames
  BY DEF Request, Cancel, Frames
<1>3. ASSUME NEW c \in Calls, QueueWrite(c) \/ GiveUp(c) PROVE FrameTypes'
  BY <1>1, <1>2, <1>3 DEF QueueWrite, GiveUp
<1>4. CASE WriterTake
  <2>1. Head(writes) \in Frames /\ writes' \in Seq(Frames)
    BY SMTT(30), <1>4 DEF WriterTake, FrameTypes
  <2>2. Head(writes).call \in Calls
    BY <2>1 DEF Frames
  <2>3. ack' \in [Calls -> {"none", "ok", "error"}] /\ frame' \subseteq Frames
    BY <1>4, <2>1, <2>2 DEF WriterTake, FrameTypes
  <2> QED  BY <1>4, <2>1, <2>3 DEF WriterTake, FrameTypes
<1>5. CASE WriterDone
  <2>1. PICK f \in frame : \/ wire' = Append(wire, f) /\ Report(f, "ok")
                           \/ Report(f, "error") /\ UNCHANGED wire
    BY <1>5 DEF WriterDone
  <2>2. wire' \in Seq(Frames)
    BY SMTT(30), <2>1 DEF FrameTypes
  <2>3. ack' \in [Calls -> {"none", "ok", "error"}]
    BY <2>1 DEF FrameTypes, Report, Frames
  <2> QED  BY <1>5, <2>2, <2>3 DEF WriterDone, FrameTypes
<1>6. CASE UNCHANGED <<ack, writes, frame, wire>>
  BY <1>6 DEF FrameTypes
<1>7. ASSUME NEW c \in Calls, \/ Reserve(c) \/ ContextEnds(c) \/ NotifyFailed(c) \/ Answer(c)
                              \/ WriteReturns(c) \/ WriteFailed(c) \/ RemovePending(c)
                              \/ Outcome(c) \/ Closed(c) \/ Conclude(c)
      PROVE  UNCHANGED <<ack, writes, frame, wire>>
  BY <1>7 DEF Reserve, ContextEnds, NotifyFailed, Answer, WriteReturns, WriteFailed, RemovePending,
              Outcome, Closed, Conclude, sending
<1>8. ASSUME NEW m \in answers, ReadResponse(m) PROVE UNCHANGED <<ack, writes, frame, wire>>
  BY <1>8 DEF ReadResponse, sending
<1>9. ASSUME WriterEnds \/ Deliver \/ ReaderEnds \/ Close
      PROVE  UNCHANGED <<ack, writes, frame, wire>>
  BY <1>9 DEF WriterEnds, Deliver, ReaderEnds, Close, sending
<1> QED
  BY <1>3, <1>4, <1>5, <1>6, <1>7, <1>8, <1>9 DEF Next, CallStep, vars, sending

LEMMA MessageTypesStep == MessageTypes /\ [Next]_vars => MessageTypes'
<1> SUFFICES ASSUME MessageTypes, [Next]_vars PROVE MessageTypes'
  OBVIOUS
<1>1. ASSUME NEW c \in Calls, Answer(c) PROVE MessageTypes'
  BY SMTT(30), <1>1 DEF MessageTypes, Messages, Answer, reading
<1>2. ASSUME NEW m \in answers, ReadResponse(m) PROVE MessageTypes'
  BY <1>2 DEF MessageTypes, ReadResponse, reading
<1>3. CASE Deliver
  BY <1>3 DEF MessageTypes, Deliver, peer
<1>4. CASE UNCHANGED <<got, answers>>
  BY <1>4 DEF MessageTypes
<1>5. ASSUME NEW c \in Calls, Reserve(c) \/ ContextEnds(c) \/ NotifyFailed(c) \/ CallStep(c)
      PROVE  UNCHANGED <<got, answers>>
  BY <1>5 DEF Reserve, ContextEnds, NotifyFailed, CallStep, QueueWrite, WriteReturns, WriteFailed,
              RemovePending, Outcome, GiveUp, Closed, Conclude, reading, peer
<1>6. ASSUME WriterTake \/ WriterDone \/ WriterEnds \/ ReaderEnds \/ Close
      PROVE  UNCHANGED <<got, answers>>
  BY <1>6 DEF WriterTake, WriterDone, WriterEnds, ReaderEnds, Close, reading, peer
<1> QED
  BY <1>1, <1>2, <1>3, <1>4, <1>5, <1>6 DEF Next, vars, reading, peer

LEMMA TypesStep == Types /\ [Next]_vars => Types'
BY CallTypesStep, TableTypesStep, OutcomeTypesStep, FrameTypesStep, MessageTypesStep DEF Types

\* The pending table and the writer's queue stay within their limits: callValidated
\* looks before it registers, write and enqueueNotification before they queue.
LEMMA BoundedStep == Types /\ Bounded /\ [Next]_vars => Bounded'
<1> SUFFICES ASSUME Types, Bounded, [Next]_vars PROVE Bounded'
  OBVIOUS
<1> DEFINE Few(S) == IsFiniteSet(S) /\ Cardinality(S) <= MaxInFlightRequests
<1>0. MaxInFlightRequests \in Nat \ {0} /\ MaxOutboundQueue \in Nat \ {0}
  BY ClientAssumption
<1>1. ASSUME NEW S \in SUBSET pending PROVE Few(S)
  BY SMTT(30), <1>0, <1>1, FS_Subset, FS_CardinalityType DEF Bounded
<1>2. Few({})
  BY <1>1
<1>3. ASSUME pending' \subseteq pending, Len(writes') <= MaxOutboundQueue PROVE Bounded'
  BY <1>1, <1>3 DEF Bounded
<1>4. Fail \/ Stays => pending' \subseteq pending
  BY FailOrStay DEF Fails, Stays
<1>5. ASSUME NEW c \in Calls, Reserve(c) PROVE Bounded'
  <2>1. CASE UNCHANGED pending
    BY <1>5, <2>1 DEF Reserve, Bounded, sending
  <2>2. CASE Cardinality(pending) < MaxInFlightRequests /\ pending' = pending \cup {c}
    <3>1. IsFiniteSet(pending)
      BY DEF Bounded
    <3>2. /\ IsFiniteSet(pending \cup {c})
          /\ Cardinality(pending \cup {c}) \in {Cardinality(pending), Cardinality(pending) + 1}
      BY <3>1, FS_AddElement
    <3>3. Cardinality(pending) \in Nat
      BY <3>1, FS_CardinalityType
    <3>4. Cardinality(pending \cup {c}) <= MaxInFlightRequests
      BY SMTT(30), <1>0, <2>2, <3>2, <3>3
    <3> QED  BY <1>5, <2>2, <3>2, <3>4 DEF Reserve, Bounded, sending
  <2>3. Cardinality(pending) \in Nat
    BY FS_CardinalityType DEF Bounded
  <2> QED  BY SMTT(30), <1>0, <1>5, <2>1, <2>2, <2>3 DEF Reserve
<1>6. ASSUME NEW f, Len(writes) < MaxOutboundQueue, writes' = Append(writes, f)
      PROVE  Len(writes') <= MaxOutboundQueue
  BY SMTT(30), <1>0, <1>6 DEF Types, FrameTypes
<1>7. ASSUME NEW c \in Calls, QueueWrite(c) \/ GiveUp(c) PROVE Bounded'
  <2>1. Len(writes') <= MaxOutboundQueue
    BY <1>6, <1>7 DEF QueueWrite, GiveUp, Bounded
  <2>2. Fail \/ Stays
    BY <1>7 DEF QueueWrite, GiveUp, Stays, table, ending
  <2> QED  BY <1>3, <1>4, <2>1, <2>2
<1>8. CASE WriterTake
  <2>1. Len(writes') <= MaxOutboundQueue
    BY SMTT(30), <1>0, <1>8 DEF WriterTake, Types, FrameTypes, Bounded
  <2> QED  BY <1>3, <1>8, <2>1 DEF WriterTake, table
<1>9. ASSUME NEW c \in Calls, \/ ContextEnds(c) \/ NotifyFailed(c) \/ Answer(c)
                              \/ WriteReturns(c) \/ WriteFailed(c) \/ RemovePending(c)
                              \/ Outcome(c) \/ Closed(c) \/ Conclude(c)
      PROVE  UNCHANGED writes /\ pending' \subseteq pending
  BY <1>4, <1>9 DEF ContextEnds, NotifyFailed, Answer, WriteReturns, WriteFailed, RemovePending,
                    Outcome, Closed, Conclude, sending, table
<1>10. ASSUME NEW m \in answers, ReadResponse(m) PROVE UNCHANGED writes /\ pending' \subseteq pending
  BY <1>10 DEF ReadResponse, sending
<1>11. ASSUME WriterDone \/ WriterEnds \/ Deliver \/ ReaderEnds \/ Close
       PROVE  UNCHANGED writes /\ pending' \subseteq pending
  BY <1>4, <1>11 DEF WriterDone, WriterEnds, Deliver, ReaderEnds, Close, sending, table
<1>12. CASE UNCHANGED writes /\ pending' \subseteq pending
  BY <1>3, <1>12 DEF Bounded
<1>13. UNCHANGED vars => UNCHANGED writes /\ pending' \subseteq pending
  BY DEF vars, table, sending
<1> QED
  BY <1>5, <1>7, <1>8, <1>9, <1>10, <1>11, <1>12, <1>13 DEF Next, CallStep

-----------------------------------------------------------------------------
(* Frames *)

LEMMA FrameForms ==
    /\ \A c, d : Request(c) # Cancel(d) /\ (Request(c) = Request(d) => c = d)
    /\ \A c, d : Cancel(c) = Cancel(d) => c = d
    /\ \A c : /\ Request(c).type = "request" /\ Request(c).call = c
              /\ Cancel(c).type = "cancel" /\ Cancel(c).call = c
    /\ \A f \in Frames : \/ f = Request(f.call) /\ f.type = "request" /\ f.call \in Calls
                         \/ f = Cancel(f.call) /\ f.type = "cancel" /\ f.call \in Calls
BY SMTT(30) DEF Request, Cancel, Frames

LEMMA QueuedAppend ==
    ASSUME FrameTypes, NEW f \in Frames, writes' = Append(writes, f), NEW g
    PROVE  Queued(g)' <=> Queued(g) \/ g = f
<1>1. /\ DOMAIN writes = 1..Len(writes) /\ Len(writes) \in Nat
      /\ DOMAIN writes' = 1..(Len(writes) + 1)
      /\ writes'[Len(writes) + 1] = f
      /\ \A i \in 1..Len(writes) : writes'[i] = writes[i]
  BY SMTT(30) DEF FrameTypes
<1>2. ASSUME NEW i \in DOMAIN writes' PROVE i \in DOMAIN writes \/ i = Len(writes) + 1
  BY SMTT(30), <1>1
<1>3. Len(writes) + 1 \in DOMAIN writes' /\ \A i \in DOMAIN writes : i \in DOMAIN writes'
  BY SMTT(30), <1>1
<1> QED  BY <1>1, <1>2, <1>3 DEF Queued

LEMMA OnWireAppend ==
    ASSUME FrameTypes, NEW f \in Frames, wire' = Append(wire, f), NEW g
    PROVE  OnWire(g)' <=> OnWire(g) \/ g = f
<1>1. /\ DOMAIN wire = 1..Len(wire) /\ Len(wire) \in Nat
      /\ DOMAIN wire' = 1..(Len(wire) + 1)
      /\ wire'[Len(wire) + 1] = f
      /\ \A i \in 1..Len(wire) : wire'[i] = wire[i]
  BY SMTT(30) DEF FrameTypes
<1>2. ASSUME NEW i \in DOMAIN wire' PROVE i \in DOMAIN wire \/ i = Len(wire) + 1
  BY SMTT(30), <1>1
<1>3. Len(wire) + 1 \in DOMAIN wire' /\ \A i \in DOMAIN wire : i \in DOMAIN wire'
  BY SMTT(30), <1>1
<1> QED  BY <1>1, <1>2, <1>3 DEF OnWire

LEMMA DistinctAppend ==
    ASSUME FrameTypes, Distinct, NEW f \in Frames, writes' = Append(writes, f),
           f.type = "request" => ~Queued(f)
    PROVE  Distinct'
<1>1. /\ DOMAIN writes = 1..Len(writes) /\ Len(writes) \in Nat
      /\ DOMAIN writes' = 1..(Len(writes) + 1)
      /\ writes'[Len(writes) + 1] = f
      /\ \A i \in 1..Len(writes) : writes'[i] = writes[i]
  BY SMTT(30) DEF FrameTypes
<1>2. ASSUME NEW i \in DOMAIN writes' PROVE i \in DOMAIN writes \/ i = Len(writes) + 1
  BY SMTT(30), <1>1
<1>3. \A i \in DOMAIN writes : writes'[i] = writes[i]
  BY <1>1
<1>4. ASSUME NEW i \in DOMAIN writes', NEW j \in DOMAIN writes', writes'[i] = writes'[j],
             writes'[i].type = "request"
      PROVE  i = j
  <2>1. CASE i \in DOMAIN writes /\ j \in DOMAIN writes
    BY <1>3, <1>4, <2>1 DEF Distinct
  <2>2. CASE i = Len(writes) + 1 /\ j \in DOMAIN writes
    BY <1>1, <1>3, <1>4, <2>2 DEF Queued
  <2>3. CASE j = Len(writes) + 1 /\ i \in DOMAIN writes
    BY <1>1, <1>3, <1>4, <2>3 DEF Queued
  <2> QED  BY <1>2, <2>1, <2>2, <2>3
<1> QED  BY <1>4 DEF Distinct

\* The writer takes the first frame: nothing else leaves the queue, and a request
\* that was its head is not in it any more.
LEMMA QueuedTail ==
    ASSUME FrameTypes, Distinct, writes # <<>>, writes' = Tail(writes), NEW head, head = Head(writes)
    PROVE  /\ Distinct'
           /\ head \in Frames /\ Queued(head)
           /\ \A g : Queued(g)' => Queued(g)
           /\ head.type = "request" => ~Queued(head)'
<1>1. /\ DOMAIN writes = 1..Len(writes) /\ Len(writes) \in Nat /\ Len(writes) >= 1
      /\ DOMAIN writes' = 1..(Len(writes) - 1)
      /\ head = writes[1] /\ head \in Frames
      /\ \A i \in 1..(Len(writes) - 1) : writes'[i] = writes[i + 1]
  BY SMTT(30) DEF FrameTypes
<1>2. ASSUME NEW i \in DOMAIN writes'
      PROVE  /\ i \in Nat /\ i >= 1 /\ i + 1 \in DOMAIN writes /\ 1 \in DOMAIN writes
             /\ writes'[i] = writes[i + 1]
  BY SMTT(30), <1>1
<1>3. Distinct'
  <2>1. ASSUME NEW i \in DOMAIN writes', NEW j \in DOMAIN writes', writes'[i] = writes'[j],
               writes'[i].type = "request"
        PROVE  i = j
    <3>1. i + 1 = j + 1
      BY <1>2, <2>1 DEF Distinct
    <3> QED  BY SMTT(30), <1>2, <3>1
  <2> QED  BY <2>1 DEF Distinct
<1>4. Queued(head)
  BY SMTT(30), <1>1 DEF Queued
<1>5. \A g : Queued(g)' => Queued(g)
  BY <1>2 DEF Queued
<1>6. ASSUME head.type = "request", Queued(head)' PROVE FALSE
  <2>1. PICK i \in DOMAIN writes' : writes'[i] = head
    BY <1>6 DEF Queued
  <2>2. i + 1 = 1
    BY <1>1, <1>2, <1>6, <2>1 DEF Distinct
  <2> QED  BY SMTT(30), <1>2, <2>2
<1> QED  BY <1>1, <1>3, <1>4, <1>5, <1>6

LEMMA CancelAppend ==
    ASSUME FrameTypes, CancelFollowsRequest, NEW f \in Frames, wire' = Append(wire, f),
           f.type = "cancel" => OnWire(Request(f.call))
    PROVE  CancelFollowsRequest'
<1>1. /\ DOMAIN wire = 1..Len(wire) /\ Len(wire) \in Nat
      /\ DOMAIN wire' = 1..(Len(wire) + 1)
      /\ wire'[Len(wire) + 1] = f
      /\ \A i \in 1..Len(wire) : wire'[i] = wire[i]
  BY SMTT(30) DEF FrameTypes
<1>2. ASSUME NEW j \in DOMAIN wire', wire'[j].type = "cancel"
      PROVE  \E i \in 1..(j - 1) : wire'[i] = Request(wire'[j].call)
  <2>1. CASE j \in 1..Len(wire)
    <3>1. wire'[j] = wire[j]
      BY <1>1, <2>1
    <3>2. PICK i \in 1..(j - 1) : wire[i] = Request(wire[j].call)
      BY <1>1, <1>2, <2>1, <3>1 DEF CancelFollowsRequest
    <3>3. wire'[i] = wire[i]
      BY SMTT(30), <1>1, <2>1
    <3> QED  BY <3>1, <3>2, <3>3
  <2>2. CASE j = Len(wire) + 1
    <3>1. PICK i \in DOMAIN wire : wire[i] = Request(f.call)
      BY <1>1, <1>2, <2>2 DEF OnWire
    <3>2. i \in 1..(j - 1) /\ wire'[i] = wire[i] /\ wire'[j] = f
      BY SMTT(30), <1>1, <2>2
    <3> QED  BY <3>1, <3>2
  <2> QED  BY SMTT(30), <1>1, <2>1, <2>2
<1> QED  BY <1>2 DEF CancelFollowsRequest

\* A step that leaves the frames, the answers and the writer's reports alone.
Quiet == UNCHANGED <<ack, writes, frame, wire>>
Still == UNCHANGED <<got, answers>>

LEMMA QuietFrames ==
    ASSUME Tracked, Quiet
    PROVE  /\ Distinct' /\ CancelFollowsRequest'
           /\ \A c \in Calls : FrameTracked(c)'
           /\ \A f : (Queued(f)' <=> Queued(f)) /\ (OnWire(f)' <=> OnWire(f))
<1>1. Distinct' /\ CancelFollowsRequest'
  BY DEF Tracked, Quiet, Distinct, CancelFollowsRequest
<1>2. \A f : (Queued(f)' <=> Queued(f)) /\ (OnWire(f)' <=> OnWire(f))
  BY DEF Quiet, Queued, OnWire
<1>3. \A c \in Calls : FrameTracked(c)'
  BY <1>2 DEF Tracked, Quiet, FrameTracked
<1> QED  BY <1>1, <1>2, <1>3

\* A call that moves while the frames stay.
LEMMA MoveTracked ==
    ASSUME Types, Tracked, NEW c \in Calls, CallMoves(c), Quiet, Still
    PROVE  Tracked'
<1>1. PICK label \in Labels, what \in Results : Moves(c, label, what) /\ Legal(c, label, what)
  BY DEF CallMoves
<1>2. /\ pc'[c] = label /\ result'[c] = what
      /\ \A d \in Calls : d # c => pc'[d] = pc[d] /\ result'[d] = result[d]
  BY <1>1 DEF Moves, Types, CallTypes
<1>3. CallTracked(c)
  BY DEF Tracked
<1>4. \A f : Queued(f)' <=> Queued(f)
  BY QuietFrames
<1>5. UNCHANGED <<ack, frame>>
  BY DEF Quiet
<1>6. CallTracked(c)'
  <2>1. label = "queue" => Unborn(c)
    BY <1>1 DEF Legal, Unborn
  <2>2. label # "idle" /\ (label \in {"remove", "tail", "done"} => what # "none")
    BY <1>1, <1>3 DEF Legal, CallTracked, Responses
  <2>3. label = "await" => ack[c] = "ok"
    BY <1>1 DEF Legal
  <2>4. ~Unborn(c)'
    BY <1>2, <2>2 DEF Unborn
  <2> QED  BY <1>2, <1>3, <1>4, <1>5, <2>1, <2>2, <2>3, <2>4 DEF CallTracked
<1>7. ASSUME NEW d \in Calls, d # c PROVE CallTracked(d)'
  <2>1. CallTracked(d)
    BY DEF Tracked
  <2> QED  BY <1>2, <1>4, <1>5, <1>7, <2>1 DEF CallTracked, Unborn
<1>8. Answerable'
  BY DEF Tracked, Answerable, Quiet, Still
<1> QED  BY <1>6, <1>7, <1>8, QuietFrames DEF Tracked

\* A call that moves while it queues a frame: its request, or the cancellation of
\* a request that is on the wire.
LEMMA QueueTracked ==
    ASSUME Types, Tracked, NEW c \in Calls, NEW f, writes' = Append(writes, f),
           UNCHANGED <<ack, frame, wire>>, Still,
           \/ f = Request(c) /\ pc[c] = "queue" /\ Moves(c, "written", result[c])
           \/ f = Cancel(c) /\ pc[c] = "await" /\ Moves(c, "remove", "failed")
    PROVE  Tracked'
<1>1. f \in Frames
  BY SMTT(30) DEF Request, Cancel, Frames
<1>2. \A g : Queued(g)' <=> Queued(g) \/ g = f
  BY <1>1, QueuedAppend DEF Types
<1>3. \A d \in Calls : CallTracked(d) /\ FrameTracked(d)
  BY DEF Tracked
<1>4. Distinct'
  BY <1>1, <1>3, DistinctAppend, FrameForms DEF Types, Tracked, CallTracked
<1>5. CancelFollowsRequest' /\ Answerable' /\ \A g : OnWire(g)' <=> OnWire(g)
  BY DEF Tracked, CancelFollowsRequest, Answerable, Still, OnWire
<1>6. /\ pc'[c] \in {"written", "remove"} /\ (pc'[c] = "remove" => result'[c] = "failed")
      /\ \A d \in Calls : d # c => pc'[d] = pc[d] /\ result'[d] = result[d]
  BY DEF Moves, Types, CallTypes
<1>7. CallTracked(c)'
  BY <1>6 DEF CallTracked, Unborn
<1>8. ASSUME NEW d \in Calls, d # c PROVE CallTracked(d)'
  <2>1. Queued(Request(d))' <=> Queued(Request(d))
    BY <1>2, <1>8, FrameForms
  <2> QED  BY <1>3, <1>6, <1>8, <2>1 DEF CallTracked, Unborn
<1>9. ASSUME NEW d \in Calls, d # c PROVE FrameTracked(d)'
  <2>1. (Queued(Request(d))' <=> Queued(Request(d))) /\ (Queued(Cancel(d))' <=> Queued(Cancel(d)))
    BY SMTT(30), <1>2, <1>9, FrameForms
  <2> QED  BY <1>3, <1>5, <2>1 DEF FrameTracked
<1>10. FrameTracked(c)'
  <2>1. CASE f = Request(c) /\ pc[c] = "queue"
    <3>1. Queued(Cancel(c))' <=> Queued(Cancel(c))
      BY <1>2, <2>1, FrameForms
    <3>2. Request(c) \notin frame /\ ack[c] = "none"
      BY <1>3, <2>1 DEF CallTracked
    <3> QED  BY <1>3, <1>5, <3>1, <3>2 DEF FrameTracked
  <2>2. CASE f = Cancel(c) /\ pc[c] = "await"
    <3>1. Queued(Request(c))' <=> Queued(Request(c))
      BY <1>2, <2>2, FrameForms
    <3>2. ack[c] = "ok"
      BY <1>3, <2>2 DEF CallTracked
    <3> QED  BY <1>3, <1>5, <3>1, <3>2 DEF FrameTracked
  <2> QED  BY <2>1, <2>2
<1> QED  BY <1>4, <1>5, <1>7, <1>8, <1>9, <1>10 DEF Tracked

\* The writer: a report changes what is known of one call only, and only of a
\* request that it took from the queue.
LEMMA TakeTracked == Types /\ Tracked /\ WriterTake => Tracked'
<1> SUFFICES ASSUME Types, Tracked, WriterTake PROVE Tracked'
  OBVIOUS
<1>1. PICK f : f = Head(writes)
  OBVIOUS
<1>2. /\ Distinct' /\ f \in Frames /\ Queued(f) /\ (\A g : Queued(g)' => Queued(g))
      /\ f.type = "request" => ~Queued(f)'
  BY <1>1, QueuedTail DEF WriterTake, Types, Tracked
<1>3. \A d \in Calls : CallTracked(d) /\ FrameTracked(d)
  BY DEF Tracked
<1>4. UNCHANGED <<pc, result, wire, got, answers>>
  BY DEF WriterTake, callVars, reading, peer
<1>5. CancelFollowsRequest' /\ \A g : OnWire(g)' <=> OnWire(g)
  BY <1>4 DEF Tracked, CancelFollowsRequest, OnWire
<1>6. CASE f.type = "request" /\ ack' = [ack EXCEPT ![f.call] = "error"] /\ frame' = frame
  <2>1. f = Request(f.call) /\ f.call \in Calls
    BY <1>2, <1>6, FrameForms
  <2>2. ack[f.call] = "none" /\ Request(f.call) \notin frame
    BY <1>2, <1>3, <2>1 DEF FrameTracked
  <2>3. ack'[f.call] = "error" /\ \A d \in Calls : d # f.call => ack'[d] = ack[d]
    BY <1>6, <2>1 DEF Types, FrameTypes
  <2>4. ASSUME NEW d \in Calls PROVE CallTracked(d)' /\ FrameTracked(d)'
    <3>1. CASE d = f.call
      <4>1. ~Queued(Request(d))' /\ Queued(Request(d)) /\ ~OnWire(Request(d))
        BY <1>2, <1>3, <1>6, <2>1, <2>2, <3>1 DEF FrameTracked
      <4>2. ~Queued(Cancel(d)) /\ Cancel(d) \notin frame
        BY <1>3, <2>2, <3>1 DEF FrameTracked
      <4>3. ~Unborn(d) /\ pc[d] # "queue" /\ pc[d] # "await"
        BY <1>3, <2>2, <3>1, <4>1 DEF CallTracked
      <4>4. ~Unborn(d)'
        BY <1>4, <4>3 DEF Unborn
      <4>5. CallTracked(d)'
        BY <1>3, <1>4, <4>3, <4>4 DEF CallTracked
      <4>6. FrameTracked(d)'
        BY <1>2, <1>5, <1>6, <2>2, <2>3, <3>1, <4>1, <4>2 DEF FrameTracked
      <4> QED  BY <4>5, <4>6
    <3>2. CASE d # f.call
      BY <1>2, <1>3, <1>4, <1>5, <1>6, <2>3, <3>2 DEF CallTracked, FrameTracked, Unborn
    <3> QED  BY <3>1, <3>2
  <2>5. Answerable'
    BY <1>4, <2>2, <2>3 DEF Tracked, Answerable, Types, MessageTypes, Messages
  <2> QED  BY <1>2, <1>5, <2>4, <2>5 DEF Tracked
<1>7. CASE frame' = {f} /\ ack' = ack
  <2>1. ASSUME NEW d \in Calls PROVE CallTracked(d)' /\ FrameTracked(d)'
    <3>1. CASE f = Request(d) /\ f.type = "request"
      <4>1. ack[d] = "none" /\ ~Unborn(d) /\ pc[d] # "queue" /\ ~Queued(Request(d))'
        BY <1>2, <1>3, <3>1 DEF CallTracked, FrameTracked
      <4>2. Cancel(d) \notin frame'
        BY <1>7, <3>1, FrameForms
      <4> QED  BY <1>2, <1>3, <1>4, <1>5, <1>7, <4>1, <4>2 DEF CallTracked, FrameTracked, Unborn
    <3>2. CASE f # Request(d)
      <4>1. Cancel(d) \in frame' => Queued(Cancel(d))
        BY <1>2, <1>7
      <4> QED  BY <1>2, <1>3, <1>4, <1>5, <1>7, <3>2, <4>1 DEF CallTracked, FrameTracked, Unborn
    <3> QED  BY <3>1, <3>2, FrameForms
  <2>2. Answerable'
    BY <1>4, <1>7 DEF Tracked, Answerable
  <2> QED  BY <1>2, <1>5, <2>1, <2>2 DEF Tracked
<1> QED  BY <1>1, <1>6, <1>7 DEF WriterTake

LEMMA DoneTracked == Types /\ Tracked /\ WriterDone => Tracked'
<1> SUFFICES ASSUME Types, Tracked, WriterDone PROVE Tracked'
  OBVIOUS
<1>1. PICK f \in frame : \/ wire' = Append(wire, f) /\ Report(f, "ok")
                         \/ Report(f, "error") /\ UNCHANGED wire
  BY DEF WriterDone
<1>2. f \in Frames
  BY DEF Types, FrameTypes
<1>3. \A d \in Calls : CallTracked(d) /\ FrameTracked(d)
  BY DEF Tracked
<1>4. UNCHANGED <<pc, result, writes, got, answers>> /\ frame' = {}
  BY DEF WriterDone, callVars, reading, peer
<1>5. Distinct' /\ \A g : Queued(g)' <=> Queued(g)
  BY <1>4 DEF Tracked, Distinct, Queued
<1>6. CASE f.type = "cancel"
  <2>1. f = Cancel(f.call) /\ f.call \in Calls /\ UNCHANGED ack
    BY <1>1, <1>2, <1>6, FrameForms DEF Report
  <2>2. OnWire(Request(f.call))
    BY <1>3, <2>1 DEF FrameTracked
  <2>3. CancelFollowsRequest' /\ \A d \in Calls : OnWire(Request(d))' <=> OnWire(Request(d))
    <3>1. CASE wire' = Append(wire, f)
      BY <1>2, <2>1, <2>2, <3>1, CancelAppend, OnWireAppend, FrameForms DEF Types, Tracked
    <3>2. CASE UNCHANGED wire
      BY <3>2 DEF Tracked, CancelFollowsRequest, OnWire
    <3> QED  BY <1>1, <3>1, <3>2
  <2>4. \A d \in Calls : CallTracked(d)' /\ FrameTracked(d)'
    BY <1>3, <1>4, <1>5, <2>1, <2>3 DEF CallTracked, FrameTracked, Unborn
  <2>5. Answerable'
    BY <1>4, <2>1 DEF Tracked, Answerable
  <2> QED  BY <1>5, <2>3, <2>4, <2>5 DEF Tracked
<1>7. CASE f.type = "request"
  <2>1. f = Request(f.call) /\ f.call \in Calls
    BY <1>2, <1>7, FrameForms
  <2>2. /\ ack[f.call] = "none" /\ ~Queued(f) /\ ~OnWire(f)
        /\ ~Queued(Cancel(f.call))
        /\ ~Unborn(f.call) /\ pc[f.call] \notin {"queue", "await"}
    BY <1>1, <1>3, <2>1 DEF FrameTracked, CallTracked
  <2>3. \/ ack'[f.call] = "ok" /\ wire' = Append(wire, f)
        \/ ack'[f.call] = "error" /\ UNCHANGED wire
    BY <1>1, <1>7, <2>1 DEF Report, Types, FrameTypes
  <2>4. \A d \in Calls : d # f.call => ack'[d] = ack[d]
    BY <1>1, <1>7, <2>1 DEF Report, Types, FrameTypes
  <2>5. /\ CancelFollowsRequest' /\ (OnWire(f)' <=> ack'[f.call] = "ok")
        /\ \A d \in Calls : d # f.call => (OnWire(Request(d))' <=> OnWire(Request(d)))
    <3>1. CASE ack'[f.call] = "ok" /\ wire' = Append(wire, f)
      BY <1>2, <1>7, <2>1, <3>1, CancelAppend, OnWireAppend, FrameForms DEF Types, Tracked
    <3>2. CASE ack'[f.call] = "error" /\ UNCHANGED wire
      BY <2>2, <3>2 DEF Tracked, CancelFollowsRequest, OnWire
    <3> QED  BY <2>3, <3>1, <3>2
  <2>6. CallTracked(f.call)' /\ FrameTracked(f.call)'
    <3>1. ~Unborn(f.call)' /\ pc'[f.call] \notin {"queue", "await"}
      BY <1>4, <2>2 DEF Unborn
    <3>2. CallTracked(f.call)
      BY <1>3, <2>1
    <3>3. CallTracked(f.call)'
      BY <1>4, <3>1, <3>2 DEF CallTracked
    <3> QED  BY <1>4, <1>5, <2>1, <2>2, <2>5, <3>3 DEF FrameTracked
  <2>7. ASSUME NEW d \in Calls, d # f.call PROVE CallTracked(d)' /\ FrameTracked(d)'
    BY <1>3, <1>4, <1>5, <2>4, <2>5, <2>7 DEF CallTracked, FrameTracked, Unborn
  <2>8. Answerable'
    BY <1>4, <2>2, <2>4 DEF Tracked, Answerable, Types, MessageTypes, Messages
  <2> QED  BY <1>5, <2>5, <2>6, <2>7, <2>8 DEF Tracked
<1> QED  BY <1>2, <1>6, <1>7, FrameForms

\* A request is answered only once it is on the wire.
LEMMA AnswersTracked ==
    ASSUME Types, Tracked, UNCHANGED <<pc, result>>, Quiet, Answerable'
    PROVE  Tracked'
<1>1. \A c \in Calls : CallTracked(c)'
  BY QuietFrames DEF Tracked, CallTracked, Unborn, Quiet
<1> QED  BY <1>1, QuietFrames DEF Tracked

LEMMA TrackedStep == Types /\ Tracked /\ [Next]_vars => Tracked'
<1> SUFFICES ASSUME Types, Tracked, [Next]_vars PROVE Tracked'
  OBVIOUS
<1>1. ASSUME NEW c \in Calls, Reserve(c) \/ CallStep(c) PROVE CallMoves(c)
  BY <1>1, CallActionsMove DEF Types
<1>2. ASSUME NEW c \in Calls, \/ Reserve(c) \/ WriteReturns(c) \/ WriteFailed(c) \/ RemovePending(c)
                              \/ Outcome(c) \/ Closed(c) \/ Conclude(c)
      PROVE  Tracked'
  <2>1. Quiet /\ Still
    BY <1>2 DEF Quiet, Still, Reserve, WriteReturns, WriteFailed, RemovePending, Outcome, Closed,
                Conclude, sending, reading, peer
  <2> QED  BY <1>1, <1>2, <2>1, MoveTracked DEF CallStep
<1>3. ASSUME NEW c \in Calls, QueueWrite(c) PROVE Tracked'
  <2>1. CASE UNCHANGED writes
    <3>1. Quiet /\ Still
      BY <1>3, <2>1 DEF Quiet, Still, QueueWrite, reading, peer
    <3> QED  BY <1>1, <1>3, <3>1, MoveTracked DEF CallStep
  <2>2. CASE writes' = Append(writes, Request(c)) /\ Goto(c, "written")
    <3>1. Moves(c, "written", result[c])
      BY <1>3, <2>2 DEF QueueWrite, Goto, Moves, Types, CallTypes
    <3>2. pc[c] = "queue" /\ UNCHANGED <<ack, frame, wire>> /\ Still
      BY <1>3 DEF Still, QueueWrite, reading, peer
    <3> QED  BY <2>2, <3>1, <3>2, QueueTracked
  <2> QED  BY <1>3, <2>1, <2>2 DEF QueueWrite
<1>4. ASSUME NEW c \in Calls, GiveUp(c) PROVE Tracked'
  <2>1. CASE UNCHANGED writes
    <3>1. Quiet /\ Still
      BY <1>4, <2>1 DEF Quiet, Still, GiveUp, reading, peer
    <3> QED  BY <1>1, <1>4, <3>1, MoveTracked DEF CallStep
  <2>2. CASE writes' = Append(writes, Cancel(c))
    <3>1. Moves(c, "remove", "failed")
      BY <1>4 DEF GiveUp, Return, Goto, Moves
    <3>2. pc[c] = "await" /\ UNCHANGED <<ack, frame, wire>> /\ Still
      BY <1>4 DEF Still, GiveUp, reading, peer
    <3> QED  BY <2>2, <3>1, <3>2, QueueTracked
  <2> QED  BY <1>4, <2>1, <2>2 DEF GiveUp
<1>5. ASSUME NEW c \in Calls, Answer(c) PROVE Tracked'
  <2>1. ack[c] = "ok"
    BY <1>5 DEF Answer, OnWire, Tracked, FrameTracked
  <2>2. Answerable'
    BY SMTT(30), <1>5, <2>1 DEF Answer, Answerable, Tracked, reading, sending
  <2> QED  BY <1>5, <2>2, AnswersTracked DEF Answer, Quiet, sending, callVars
<1>6. ASSUME NEW m \in answers, ReadResponse(m) PROVE Tracked'
  <2>1. Answerable'
    BY <1>6 DEF ReadResponse, Answerable, Tracked, reading, sending
  <2> QED  BY <1>6, <2>1, AnswersTracked DEF ReadResponse, Quiet, sending, callVars
<1>7. CASE Deliver
  <2>1. Answerable'
    BY <1>7 DEF Deliver, Answerable, Tracked, peer, sending
  <2> QED  BY <1>7, <2>1, AnswersTracked DEF Deliver, Quiet, sending, callVars
<1>8. CASE UNCHANGED <<pc, result>> /\ Quiet /\ Still
  <2>1. Answerable'
    BY <1>8 DEF Answerable, Tracked, Quiet, Still
  <2> QED  BY <1>8, <2>1, AnswersTracked
<1>9. ASSUME NEW c \in Calls, ContextEnds(c) \/ NotifyFailed(c) PROVE Quiet /\ Still
  BY <1>9 DEF ContextEnds, NotifyFailed, Quiet, Still, sending, reading, peer
<1>10. ASSUME WriterEnds \/ ReaderEnds \/ Close PROVE Quiet /\ Still
  BY <1>10 DEF WriterEnds, ReaderEnds, Close, Quiet, Still, sending, reading, peer
<1>11. UNCHANGED vars => Quiet /\ Still
  BY DEF vars, Quiet, Still, sending, reading, peer
<1> QED
  BY <1>2, <1>3, <1>4, <1>5, <1>6, <1>7, <1>8, <1>9, <1>10, <1>11, OthersStay, TakeTracked,
     DoneTracked DEF Next, CallStep

-----------------------------------------------------------------------------
(* Outcomes *)

LEMMA MovedCall ==
    ASSUME Types, Tracked, NEW c \in Calls, NEW label \in Labels, NEW what \in Results,
           Moves(c, label, what), Legal(c, label, what)
    PROVE  /\ pc'[c] = label /\ result'[c] = what
           /\ \A d \in Calls : d # c => pc'[d] = pc[d] /\ result'[d] = result[d]
           /\ \A d \in Calls : d # c => (Unborn(d)' <=> Unborn(d))
           /\ ~Unborn(c)'
<1>1. /\ pc'[c] = label /\ result'[c] = what
      /\ \A d \in Calls : d # c => pc'[d] = pc[d] /\ result'[d] = result[d]
  BY DEF Moves, Types, CallTypes
<1>2. CallTracked(c)
  BY DEF Tracked
<1>3. label # "idle" /\ (label = "done" => what # "none")
  BY <1>2 DEF Legal, CallTracked
<1> QED  BY <1>1, <1>3 DEF Unborn

\* A call moves and the table stays, is taken over by fail, or loses or gains
\* the call's own entry.
LEMMA MovePlaced ==
    ASSUME Types, Tracked, Placed, NEW c \in Calls, CallMoves(c), UNCHANGED <<outcome, sends, got>>,
           \/ pc[c] # "remove" /\ Stays
           \/ ~closed /\ Fails
           \/ UNCHANGED <<closed, failing>> /\ pending' = pending \ {c}
           \/ /\ ~closed /\ pc[c] = "idle" /\ pc'[c] = "queue"
              /\ UNCHANGED <<closed, failing>> /\ pending' = pending \cup {c}
    PROVE  Placed'
<1>1. PICK label \in Labels, what \in Results : Moves(c, label, what) /\ Legal(c, label, what)
  BY DEF CallMoves
<1>2. /\ pc'[c] = label /\ ~Unborn(c)'
      /\ \A d \in Calls : d # c => pc'[d] = pc[d] /\ (Unborn(d)' <=> Unborn(d))
  BY <1>1, MovedCall
<1>3. \A d \in Calls : Token(d)
  BY DEF Placed
<1>4. \A d \in Calls : Delivering(d)' <=> Delivering(d)
  BY DEF Delivering
<1>5. ASSUME c \in pending, pc[c] # "remove" PROVE label \in Waiting
  <2>1. sends[c] = 0 /\ pc[c] \in Waiting /\ outcome[c] = "none"
    BY <1>3, <1>5 DEF Token
  <2> QED  BY <1>1, <1>5, <2>1 DEF Legal, Waiting
<1>6. closed' => pending' = {}
  BY DEF Placed, Stays, Fails
<1>7. failing' # {} => closed'
  BY DEF Placed, Stays, Fails
<1>8. ASSUME NEW d \in Calls, d \in pending' PROVE d \in pending \/ (d = c /\ pc[c] = "idle")
  BY SMTT(30), <1>8 DEF Stays, Fails
<1>9. ASSUME NEW d \in Calls, d \in failing' PROVE d \in failing \/ (d \in pending /\ pending' = {})
  BY <1>9 DEF Stays, Fails
<1>10. ASSUME NEW d \in Calls, d \in pending' PROVE pc'[d] \in Waiting
  <2>1. CASE d # c
    BY <1>2, <1>3, <1>8, <1>10, <2>1 DEF Token
  <2>2. CASE d = c
    BY <1>2, <1>5, <1>10, <2>2 DEF Stays, Fails, Waiting
  <2> QED  BY <2>1, <2>2
<1>11. ASSUME NEW d \in Calls, d \in pending' PROVE d \notin failing'
  BY <1>3, <1>8, <1>9, <1>11 DEF Token, Unborn
<1>12. ASSUME NEW d \in Calls PROVE Token(d)'
  <2>1. Token(d) /\ (pc[d] \in Waiting => ~Unborn(d)) /\ (pc[d] = "idle" => Unborn(d))
    BY <1>3 DEF Unborn, Waiting
  <2>2. d \in pending' => ~Delivering(d) /\ sends[d] = 0
    BY <1>8, <2>1 DEF Token
  <2>3. d \in failing' => ~Delivering(d) /\ sends[d] = 0 /\ ~Unborn(d)
    BY <1>9, <2>1 DEF Token
  <2>4. Unborn(d)' => Unborn(d)
    BY <1>2
  <2> QED  BY <1>4, <1>10, <1>11, <2>1, <2>2, <2>3, <2>4 DEF Token
<1> QED  BY <1>6, <1>7, <1>12 DEF Placed

\* fail, while no call moves.
LEMMA FailPlaced ==
    ASSUME Placed, UNCHANGED <<pc, result, outcome, sends, got>>, Fail \/ Stays
    PROVE  Placed'
<1>1. closed' => pending' = {}
  BY FailOrStay DEF Placed, Stays, Fails
<1>2. failing' # {} => closed'
  BY FailOrStay DEF Placed, Stays, Fails
<1>3. ASSUME NEW d \in Calls PROVE Token(d)'
  <2>1. Token(d) /\ (pc[d] \in Waiting => ~Unborn(d)) /\ (Unborn(d)' <=> Unborn(d))
    BY DEF Placed, Unborn, Waiting
  <2>2. Delivering(d)' <=> Delivering(d)
    BY DEF Delivering
  <2>3. /\ d \in pending' => d \in pending /\ d \notin failing'
        /\ d \in failing' => d \in failing \/ d \in pending
    BY <2>1, FailOrStay DEF Token, Stays, Fails
  <2> QED  BY <2>1, <2>2, <2>3 DEF Token
<1> QED  BY <1>1, <1>2, <1>3 DEF Placed

LEMMA PlacedStep == Types /\ Tracked /\ Placed /\ [Next]_vars => Placed'
<1> SUFFICES ASSUME Types, Tracked, Placed, [Next]_vars PROVE Placed'
  OBVIOUS
<1>1. ASSUME NEW c \in Calls, Reserve(c) \/ CallStep(c) PROVE CallMoves(c)
  BY <1>1, CallActionsMove DEF Types
<1>2. ASSUME NEW c \in Calls, Reserve(c) PROVE Placed'
  <2>1. UNCHANGED <<outcome, sends, got, closed, failing>> /\ pc[c] = "idle"
    BY <1>2 DEF Reserve, reading, ending
  <2>2. CASE UNCHANGED pending
    BY <1>1, <1>2, <2>1, <2>2, MovePlaced DEF Stays
  <2>3. CASE ~closed /\ pending' = pending \cup {c} /\ Goto(c, "queue")
    <3>1. pc'[c] = "queue"
      BY <2>3 DEF Goto, Types, CallTypes
    <3> QED  BY <1>1, <1>2, <2>1, <2>3, <3>1, MovePlaced
  <2> QED  BY <1>2, <2>2, <2>3 DEF Reserve
<1>3. ASSUME NEW c \in Calls, \/ QueueWrite(c) \/ WriteReturns(c) \/ WriteFailed(c) \/ Outcome(c)
                              \/ GiveUp(c) \/ Closed(c) \/ Conclude(c)
      PROVE  Placed'
  <2>1. UNCHANGED <<outcome, sends, got>> /\ pc[c] # "remove"
    BY <1>3 DEF QueueWrite, WriteReturns, WriteFailed, Outcome, GiveUp, Closed, Conclude, table,
                reading
  <2>2. Fail \/ Stays
    BY <1>3 DEF QueueWrite, WriteReturns, WriteFailed, Outcome, GiveUp, Closed, Conclude, table,
                ending, Stays
  <2> QED  BY <1>1, <1>3, <2>1, <2>2, FailOrStay, MovePlaced DEF CallStep
<1>4. ASSUME NEW c \in Calls, RemovePending(c) PROVE Placed'
  <2>1. /\ UNCHANGED <<outcome, sends, got, closed, failing>>
        /\ pending' = pending \ {c}
    BY <1>4 DEF RemovePending, reading, ending
  <2> QED  BY <1>1, <1>4, <2>1, MovePlaced DEF CallStep
<1>5. ASSUME NEW c \in Calls, NotifyFailed(c) PROVE Placed'
  <2>1. /\ c \in failing /\ failing' = failing \ {c} /\ UNCHANGED <<pc, result, pending, got, closed>>
        /\ outcome'[c] = "failed" /\ sends'[c] = sends[c] + 1
        /\ \A d \in Calls : d # c => outcome'[d] = outcome[d] /\ sends'[d] = sends[d]
    BY <1>5 DEF NotifyFailed, callVars, reading, Types, OutcomeTypes
  <2>2. Token(c) /\ sends'[c] = 1
    BY SMTT(30), <2>1 DEF Placed, Token
  <2>3. ASSUME NEW d \in Calls PROVE Token(d)'
    <3>1. (Delivering(d)' <=> Delivering(d)) /\ (Unborn(d)' <=> Unborn(d)) /\ Token(d)
      BY <2>1 DEF Delivering, Unborn, Placed
    <3>2. CASE d # c
      BY <2>1, <3>1, <3>2 DEF Token
    <3>3. CASE d = c
      BY SMTT(30), <2>1, <2>2, <3>1, <3>3 DEF Token
    <3> QED  BY <3>2, <3>3
  <2> QED  BY <2>1, <2>3 DEF Placed
<1>6. ASSUME NEW m \in answers, ReadResponse(m) PROVE Placed'
  <2>1. UNCHANGED <<pc, result, outcome, sends, closed, failing>> /\ pending' = pending \ {m.call}
    BY <1>6 DEF ReadResponse, callVars, ending
  <2>2. ASSUME NEW d \in Calls, Delivering(d)' PROVE Delivering(d) \/ (d = m.call /\ d \in pending)
    BY <1>6, <2>2 DEF ReadResponse, Delivering, reading
  <2>3. ASSUME NEW d \in Calls PROVE Token(d)'
    <3>1. Token(d) /\ (Unborn(d)' <=> Unborn(d)) /\ (pc[d] \in Waiting => ~Unborn(d))
      BY <2>1 DEF Unborn, Placed, Waiting
    <3>2. d \in pending' => d \in pending /\ d # m.call
      BY <2>1
    <3> QED  BY <2>1, <2>2, <3>1, <3>2 DEF Token
  <2> QED  BY <2>1, <2>3 DEF Placed
<1>7. CASE Deliver
  <2>1. PICK m \in got : /\ outcome' = [outcome EXCEPT ![m.call] = m.what]
                         /\ sends' = [sends EXCEPT ![m.call] = @ + 1]
    BY <1>7 DEF Deliver
  <2>2. m.call \in Calls /\ m.what \in Responses /\ Delivering(m.call)
    BY DEF Types, MessageTypes, Messages, Delivering
  <2>3. Token(m.call) /\ sends[m.call] = 0
    BY <2>2 DEF Placed, Token
  <2>4. /\ outcome'[m.call] \in Responses /\ sends'[m.call] = 1
        /\ \A d \in Calls : d # m.call => outcome'[d] = outcome[d] /\ sends'[d] = sends[d]
    BY SMTT(30), <2>1, <2>2, <2>3 DEF Types, OutcomeTypes
  <2>5. UNCHANGED <<pc, result, pending, closed, failing>> /\ got' = {}
    BY <1>7 DEF Deliver, callVars, ending
  <2>6. ASSUME NEW d \in Calls PROVE Token(d)'
    <3>1. ~Delivering(d)' /\ (Unborn(d)' <=> Unborn(d)) /\ Token(d)
      BY <2>5 DEF Delivering, Unborn, Placed
    <3>2. CASE d # m.call
      BY <2>4, <2>5, <3>1, <3>2 DEF Token
    <3>3. CASE d = m.call
      BY SMTT(30), <2>2, <2>3, <2>4, <2>5, <3>1, <3>3 DEF Token, Responses
    <3> QED  BY <3>2, <3>3
  <2> QED  BY <2>5, <2>6 DEF Placed
<1>8. ASSUME WriterEnds \/ ReaderEnds \/ Close PROVE Placed'
  <2>1. UNCHANGED <<pc, result, outcome, sends, got>>
    BY <1>8 DEF WriterEnds, ReaderEnds, Close, callVars, reading
  <2>2. Fail \/ Stays
    BY <1>8 DEF WriterEnds, ReaderEnds, Close, Stays, ending
  <2> QED  BY <2>1, <2>2, FailPlaced
<1>9. ASSUME NEW c \in Calls, ContextEnds(c) \/ Answer(c)
      PROVE  UNCHANGED <<pc, result, outcome, sends, got>> /\ Stays
  BY <1>9 DEF ContextEnds, Answer, callVars, table, reading, ending, Stays
<1>10. ASSUME WriterTake \/ WriterDone
       PROVE  UNCHANGED <<pc, result, outcome, sends, got>> /\ Stays
  BY <1>10 DEF WriterTake, WriterDone, callVars, table, reading, ending, Stays
<1>11. UNCHANGED vars => UNCHANGED <<pc, result, outcome, sends, got>> /\ Stays
  BY DEF vars, callVars, table, reading, ending, Stays
<1> QED
  BY <1>2, <1>3, <1>4, <1>5, <1>6, <1>7, <1>8, <1>9, <1>10, <1>11, FailPlaced DEF Next, CallStep

\* The writer reports once: a frame that was reported lost stays lost.
LEMMA LostReportStays ==
    ASSUME Types, Tracked, [Next]_vars, NEW c \in Calls, ack[c] = "error"
    PROVE  ack'[c] = "error"
<1>1. \A d \in Calls : FrameTracked(d)
  BY DEF Tracked
<1>2. CASE WriterTake
  <2>1. PICK f : f = Head(writes)
    OBVIOUS
  <2>2. f \in Frames /\ Queued(f)
    BY <1>2, <2>1, QueuedTail DEF WriterTake, Types, Tracked
  <2>3. f.type = "request" => ack[f.call] = "none" /\ f.call \in Calls
    BY <1>1, <2>2, FrameForms DEF FrameTracked
  <2> QED  BY <1>2, <2>1, <2>3 DEF WriterTake, Types, FrameTypes
<1>3. CASE WriterDone
  <2>1. PICK f \in frame : Report(f, "ok") \/ Report(f, "error")
    BY <1>3 DEF WriterDone
  <2>2. f.type = "request" => ack[f.call] = "none" /\ f.call \in Calls
    BY <1>1, FrameForms DEF FrameTracked, Types, FrameTypes
  <2> QED  BY <2>1, <2>2 DEF Report, Types, FrameTypes
<1>4. ASSUME NEW d \in Calls, \/ Reserve(d) \/ ContextEnds(d) \/ NotifyFailed(d) \/ Answer(d)
                              \/ CallStep(d)
      PROVE  UNCHANGED ack
  BY <1>4 DEF Reserve, ContextEnds, NotifyFailed, Answer, CallStep, QueueWrite, WriteReturns,
              WriteFailed, RemovePending, Outcome, GiveUp, Closed, Conclude, sending
<1>5. ASSUME NEW m \in answers, ReadResponse(m) PROVE UNCHANGED ack
  BY <1>5 DEF ReadResponse, sending
<1>6. ASSUME WriterEnds \/ Deliver \/ ReaderEnds \/ Close PROVE UNCHANGED ack
  BY <1>6 DEF WriterEnds, Deliver, ReaderEnds, Close, sending
<1>7. UNCHANGED vars => UNCHANGED ack
  BY DEF vars, sending
<1> QED
  BY <1>2, <1>3, <1>4, <1>5, <1>6, <1>7 DEF Next

\* A client that has ended stays so, and so does a context.
LEMMA EndStays == [Next]_vars => (closed => closed') /\ ctxDone \subseteq ctxDone'
<1> SUFFICES ASSUME [Next]_vars PROVE (closed => closed') /\ ctxDone \subseteq ctxDone'
  OBVIOUS
<1>1. Fail \/ Stays => (closed => closed')
  BY FailOrStay DEF Fails, Stays
<1>2. ASSUME NEW c \in Calls, \/ Reserve(c) \/ ContextEnds(c) \/ NotifyFailed(c) \/ Answer(c)
                              \/ RemovePending(c)
      PROVE  UNCHANGED closed /\ ctxDone \subseteq ctxDone'
  BY <1>2 DEF Reserve, ContextEnds, NotifyFailed, Answer, RemovePending, callVars, ending
<1>3. ASSUME NEW c \in Calls, \/ QueueWrite(c) \/ WriteReturns(c) \/ WriteFailed(c) \/ Outcome(c)
                              \/ GiveUp(c) \/ Closed(c) \/ Conclude(c)
      PROVE  (Fail \/ Stays) /\ UNCHANGED ctxDone
  BY <1>3 DEF QueueWrite, WriteReturns, WriteFailed, Outcome, GiveUp, Closed, Conclude, table, ending,
              Stays
<1>4. ASSUME NEW m \in answers, ReadResponse(m) PROVE UNCHANGED <<closed, ctxDone>>
  BY <1>4 DEF ReadResponse, ending, callVars
<1>5. ASSUME WriterEnds \/ ReaderEnds \/ Close PROVE (Fail \/ Stays) /\ UNCHANGED ctxDone
  BY <1>5 DEF WriterEnds, ReaderEnds, Close, callVars, Stays, ending
<1>6. ASSUME WriterTake \/ WriterDone \/ Deliver PROVE UNCHANGED <<closed, ctxDone>>
  BY <1>6 DEF WriterTake, WriterDone, Deliver, callVars, ending
<1>7. UNCHANGED vars => UNCHANGED <<closed, ctxDone>>
  BY DEF vars, callVars, ending
<1> QED
  BY SMTT(30), <1>1, <1>2, <1>3, <1>4, <1>5, <1>6, <1>7 DEF Next, CallStep

\* While outcomes stay, what is known of the calls survives the moves of one.
LEMMA AnsweredMoves ==
    ASSUME Types, Tracked, Placed, Kept, [Next]_vars, UNCHANGED <<outcome, intime>>,
           \/ UNCHANGED <<pc, result>>
           \/ \E c \in Calls : CallMoves(c)
    PROVE  Kept'
<1> SUFFICES ASSUME NEW d \in Calls PROVE Answered(d)'
  BY DEF Kept
<1>1. /\ Answered(d) /\ (closed => closed') /\ (d \in ctxDone => d \in ctxDone')
      /\ ack[d] = "error" => ack'[d] = "error"
  BY EndStays, LostReportStays DEF Kept
<1>2. CASE pc'[d] = pc[d] /\ result'[d] = result[d]
  BY <1>1, <1>2 DEF Answered, Lost
<1>3. CASE ~(pc'[d] = pc[d] /\ result'[d] = result[d])
  <2>1. PICK c \in Calls, label \in Labels, what \in Results :
            Moves(c, label, what) /\ Legal(c, label, what)
    BY <1>3 DEF CallMoves
  <2>2. pc'[d] = label /\ result'[d] = what /\ c = d
    BY <1>3, <2>1, MovedCall
  <2>3. d \in intime => outcome[d] \in Responses /\ ~Unborn(d)
    BY <1>1 DEF Answered, Placed, Token, Responses
  <2>4. label = "remove" => what = "failed"
    BY <2>1 DEF Legal
  <2>5. label = "unwritten" => ack[d] = "error" \/ closed \/ d \in ctxDone
    BY <2>1, <2>2 DEF Legal
  <2>6. ASSUME label \in {"remove", "tail", "done"}, what = "failed"
        PROVE  d \in ctxDone \/ ack[d] = "error" \/ closed
    BY <1>1, <2>1, <2>2, <2>6 DEF Legal, Answered, Lost
  <2>7. ASSUME label \in {"remove", "tail", "done"}, d \in intime
        PROVE  d \in ctxDone \/ what \in {"ok", "error", "refused"}
    BY <1>1, <2>1, <2>2, <2>3, <2>7 DEF Legal, Answered, Responses, Unborn
  <2> QED  BY <1>1, <2>2, <2>4, <2>5, <2>6, <2>7 DEF Answered, Lost
<1> QED  BY <1>2, <1>3

LEMMA KeptStep == Types /\ Tracked /\ Placed /\ Kept /\ [Next]_vars => Kept'
<1> SUFFICES ASSUME Types, Tracked, Placed, Kept, [Next]_vars PROVE Kept'
  OBVIOUS
<1>1. \A d \in Calls : Answered(d) /\ Token(d) /\ CallTracked(d)
  BY DEF Kept, Placed, Tracked
<1>2. ASSUME NEW c \in Calls, NotifyFailed(c) PROVE Kept'
  <2>1. /\ c \in failing /\ UNCHANGED <<pc, result, ctxDone, intime, ack, closed>>
        /\ outcome'[c] = "failed" /\ \A d \in Calls : d # c => outcome'[d] = outcome[d]
    BY <1>2 DEF NotifyFailed, callVars, sending, Types, OutcomeTypes
  <2>2. closed /\ outcome[c] = "none"
    BY <1>1, <2>1 DEF Placed, Token
  <2>3. c \notin intime
    BY <1>1, <2>2 DEF Answered, Responses
  <2>4. ASSUME NEW d \in Calls PROVE Answered(d)'
    BY <1>1, <2>1, <2>2, <2>3 DEF Answered, Lost
  <2> QED  BY <2>4 DEF Kept
<1>3. CASE Deliver
  <2>1. PICK m \in got : /\ outcome' = [outcome EXCEPT ![m.call] = m.what]
                         /\ intime' = IF closed THEN intime ELSE intime \cup {m.call}
    BY <1>3 DEF Deliver
  <2>2. m.call \in Calls /\ m.what \in Responses /\ Delivering(m.call) /\ ack[m.call] = "ok"
    BY DEF Types, MessageTypes, Messages, Delivering, Tracked, Answerable
  <2>3. ~Unborn(m.call)
    BY <1>1, <2>2 DEF Token
  <2>4. /\ outcome'[m.call] \in Responses
        /\ \A d \in Calls : d # m.call => outcome'[d] = outcome[d]
    BY <2>1, <2>2 DEF Types, OutcomeTypes
  <2>5. UNCHANGED <<pc, result, ctxDone, ack, closed>>
    BY <1>3 DEF Deliver, callVars, ending, sending
  <2>6. ASSUME NEW d \in Calls, d # m.call PROVE Answered(d)'
    <3>1. d \in intime' <=> d \in intime
      BY <2>1, <2>6
    <3> QED  BY <1>1, <2>4, <2>5, <2>6, <3>1 DEF Answered, Lost
  <2>7. Answered(m.call)'
    <3>1. CASE closed
      <4>1. m.call \in intime' <=> m.call \in intime
        BY <2>1, <3>1
      <4> QED  BY <1>1, <2>2, <2>4, <2>5, <3>1, <4>1 DEF Answered, Lost, Responses
    <3>2. CASE ~closed
      <4>1. Answered(m.call) /\ CallTracked(m.call)
        BY <1>1, <2>2
      <4>2. ASSUME pc[m.call] \in {"remove", "tail", "done"}, m.call \notin ctxDone
            PROVE  result[m.call] \in {"ok", "error", "refused"}
        <5>1. result[m.call] \in Results
          BY <2>2 DEF Types, CallTypes
        <5>2. result[m.call] # "none"
          BY <2>3, <4>1, <4>2 DEF CallTracked, Unborn
        <5>3. result[m.call] # "failed"
          BY <2>2, <3>2, <4>1, <4>2 DEF Answered, Lost
        <5> QED  BY <5>1, <5>2, <5>3 DEF Results
      <4> QED  BY <2>2, <2>4, <2>5, <4>1, <4>2 DEF Answered, Lost, Responses
    <3> QED  BY <3>1, <3>2
  <2> QED  BY <2>6, <2>7 DEF Kept
<1>4. ASSUME NEW c \in Calls, Reserve(c) \/ CallStep(c) PROVE Kept'
  <2>1. UNCHANGED <<outcome, intime>>
    BY <1>4 DEF Reserve, CallStep, QueueWrite, WriteReturns, WriteFailed, RemovePending, Outcome,
                GiveUp, Closed, Conclude, table
  <2>2. CallMoves(c)
    BY <1>4, CallActionsMove DEF Types
  <2> QED  BY <2>1, <2>2, AnsweredMoves
<1>5. CASE UNCHANGED <<pc, result, outcome, intime>>
  BY <1>5, AnsweredMoves
<1>6. ASSUME NEW c \in Calls, ContextEnds(c) \/ Answer(c) PROVE UNCHANGED <<outcome, intime>>
  BY <1>6 DEF ContextEnds, Answer, table
<1>7. ASSUME NEW m \in answers, ReadResponse(m) PROVE UNCHANGED <<outcome, intime>>
  BY <1>7 DEF ReadResponse
<1>8. ASSUME WriterTake \/ WriterDone \/ WriterEnds \/ ReaderEnds \/ Close
      PROVE  UNCHANGED <<outcome, intime>>
  BY <1>8 DEF WriterTake, WriterDone, WriterEnds, ReaderEnds, Close, table
<1>9. UNCHANGED vars => UNCHANGED <<outcome, intime>>
  BY DEF vars, table
<1> QED
  BY <1>2, <1>3, <1>4, <1>5, <1>6, <1>7, <1>8, <1>9, OthersStay DEF Next

\* Initialize stores its result under the lock, and only if it is the first.
LEMMA NegotiatedStep == Types /\ Tracked /\ Negotiated /\ [Next]_vars => Negotiated'
<1> SUFFICES ASSUME Types, Tracked, Negotiated, [Next]_vars PROVE Negotiated'
  OBVIOUS
<1>1. ASSUME \A c \in Calls : Won(c)' => Won(c), initialized => initialized' PROVE Negotiated'
  BY <1>1 DEF Negotiated
<1>2. ASSUME NEW c \in Calls, Conclude(c) PROVE Negotiated'
  <2>1. \A d \in Calls : d # c => (Won(d)' <=> Won(d))
    BY <1>2 DEF Conclude, Goto, Won, Types, CallTypes
  <2>2. CASE Won(c)'
    <3>1. Kind[c] = "initialize" /\ result'[c] = "ok"
      BY <2>2 DEF Won
    <3>2. ~initialized /\ initialized'
      BY <1>2, <3>1 DEF Conclude, Types, CallTypes
    <3> QED  BY <2>1, <3>2 DEF Negotiated
  <2>3. CASE ~Won(c)'
    <3>1. initialized => initialized'
      BY <1>2 DEF Conclude
    <3> QED  BY <1>1, <2>1, <2>3, <3>1
  <2> QED  BY <2>2, <2>3
<1>3. ASSUME NEW c \in Calls, \/ Reserve(c) \/ QueueWrite(c) \/ WriteReturns(c) \/ WriteFailed(c)
                              \/ RemovePending(c) \/ Outcome(c) \/ GiveUp(c) \/ Closed(c)
      PROVE  Negotiated'
  <2>1. pc[c] # "tail" /\ UNCHANGED initialized
    BY <1>3 DEF Reserve, QueueWrite, WriteReturns, WriteFailed, RemovePending, Outcome, GiveUp, Closed
  <2>2. PICK label \in Labels, what \in Results : Moves(c, label, what) /\ Legal(c, label, what)
    BY <1>3, CallActionsMove DEF CallStep, Types, CallMoves
  <2>3. label = "done" => what # "ok"
    BY <2>1, <2>2 DEF Legal
  <2>4. \A d \in Calls : Won(d)' => Won(d)
    BY <2>2, <2>3, MovedCall DEF Won
  <2> QED  BY <1>1, <2>1, <2>4
<1>4. ASSUME UNCHANGED <<pc, result, initialized>> PROVE Negotiated'
  BY <1>1, <1>4 DEF Won
<1>5. ASSUME NEW c \in Calls, ContextEnds(c) \/ NotifyFailed(c) \/ Answer(c) PROVE UNCHANGED initialized
  BY <1>5 DEF ContextEnds, NotifyFailed, Answer
<1>6. ASSUME NEW m \in answers, ReadResponse(m) PROVE UNCHANGED initialized
  BY <1>6 DEF ReadResponse
<1>7. ASSUME WriterTake \/ WriterDone \/ WriterEnds \/ Deliver \/ ReaderEnds \/ Close
      PROVE  UNCHANGED initialized
  BY <1>7 DEF WriterTake, WriterDone, WriterEnds, Deliver, ReaderEnds, Close
<1>8. UNCHANGED vars => UNCHANGED initialized
  BY DEF vars
<1> QED
  BY <1>2, <1>3, <1>4, <1>5, <1>6, <1>7, <1>8, OthersStay DEF Next, CallStep

-----------------------------------------------------------------------------
(* The theorems *)

LEMMA InitIInv == Init => IInv
<1> SUFFICES ASSUME Init PROVE IInv
  OBVIOUS
<1>1. Types
  BY InitTypes
<1>2. Bounded
  BY SMTT(30), ClientAssumption, FS_EmptySet DEF Init, Bounded
<1>3. Tracked
  <2>1. /\ \A f : ~Queued(f) /\ ~OnWire(f)
        /\ \A c \in Calls : ack[c] = "none" /\ pc[c] \in {"idle", "done"}
    BY SMTT(30) DEF Init, Queued, OnWire
  <2>2. \A c \in Calls : FrameTracked(c) /\ CallTracked(c)
    BY <2>1 DEF Init, FrameTracked, CallTracked
  <2>3. Distinct /\ Answerable /\ CancelFollowsRequest
    BY SMTT(30) DEF Init, Distinct, Answerable, CancelFollowsRequest
  <2> QED  BY <2>2, <2>3 DEF Tracked
<1>4. Placed
  BY SMTT(30) DEF Init, Placed, Token, Delivering
<1>5. Kept
  BY DEF Init, Kept, Answered, Lost
<1>6. Negotiated
  BY DEF Init, Negotiated, Won
<1> QED  BY <1>1, <1>2, <1>3, <1>4, <1>5, <1>6 DEF IInv

LEMMA NextIInv == IInv /\ [Next]_vars => IInv'
BY TypesStep, BoundedStep, TrackedStep, PlacedStep, KeptStep, NegotiatedStep DEF IInv

LEMMA SpecIInv == Spec => []IInv
BY InitIInv, NextIInv, PTL DEF Spec

LEMMA IInvCallsSound == IInv => CallsSound
<1> SUFFICES ASSUME IInv PROVE CallsSound
  OBVIOUS
<1>1. TypeOK
  BY DEF IInv, Types, CallTypes, TableTypes, OutcomeTypes, Bounded, TypeOK, Labels, Results, Outcomes,
         Responses
<1>2. PendingOwned
  BY DEF IInv, Types, TableTypes, Placed, Token, Waiting, PendingOwned
<1>3. OutcomeOnce
  BY DEF IInv, Placed, Token, OutcomeOnce
<1>4. CancelFollowsRequest
  BY DEF IInv, Tracked
<1> QED  BY <1>1, <1>2, <1>3, <1>4 DEF CallsSound

\* The pending table and the wire are sound: never more than MaxInFlightRequests
\* places and MaxOutboundQueue frames, a place only for a call in progress and none
\* in a closed client, one outcome for each call, and $mc/cancel only behind its
\* request, however callValidated, writeLoop, readLoop and fail interleave.
THEOREM CallsAreSound == Spec => []CallsSound
BY SpecIInv, IInvCallsSound, PTL

LEMMA IInvCompletedKept == IInv => CompletedKept
BY DEF IInv, Types, TableTypes, Kept, Answered, CompletedKept

\* A response that was delivered before the client ended is what its call returns,
\* unless the call's own context ended: callValidated looks at the outcome again
\* after a failed write and after the end of the client.
THEOREM CompletedIsKept == Spec => []CompletedKept
BY SpecIInv, IInvCompletedKept, PTL

LEMMA IInvNegotiatedOnce == IInv => NegotiatedOnce
<1> SUFFICES ASSUME IInv PROVE NegotiatedOnce
  OBVIOUS
<1> DEFINE S == {c \in Calls : Kind[c] = "initialize" /\ pc[c] = "done" /\ result[c] = "ok"}
<1>1. \A c, d \in S : c = d
  BY DEF IInv, Negotiated, Won
<1>2. CASE S = {}
  BY SMTT(30), <1>2, FS_EmptySet DEF NegotiatedOnce
<1>3. CASE S # {}
  <2>1. PICK c : S = {c}
    BY <1>1, <1>3
  <2>2. Cardinality(S) = 1
    BY <2>1, FS_Singleton
  <2> QED  BY SMTT(30), <2>2 DEF NegotiatedOnce
<1> QED  BY <1>2, <1>3

\* However many calls of Initialize run concurrently, at most one returns a
\* negotiated result (the second look at `initialized' under the lock).
THEOREM InitializeNegotiatesOnce == Spec => []NegotiatedOnce
BY SpecIInv, IInvNegotiatedOnce, PTL
=============================================================================
