---------------------------- MODULE EventJournal ----------------------------
(***************************************************************************)
(* The canonical-event boundary: protocol.SequenceTracker                  *)
(* (protocol/event.go) and the mock control plane (mock/controlplane.go)   *)
(* that journals what the tracker accepts, both behind scripted faults     *)
(* (mock/faults.go).                                                       *)
(*                                                                         *)
(* Calls of Ingest are serialised by ingestMu and calls of Replay by       *)
(* replayMu; the two run concurrently, and each delivery of an Ingest is   *)
(* committed on its own.                                                   *)
(***************************************************************************)
EXTENDS Faults, FiniteSets

CONSTANTS
    Events,        \* provider events: [stream, id, sequence, digest]
    Altered,       \* the digest of an event whose content was redacted
    Width,         \* bits of a sequence number (64 in the code)
    Scripts,       \* fault plans
    MaxIngests,    \* bound: calls of Ingest
    MaxReplays     \* bound: calls of Replay

Largest == 2^Width - 1

\* The bounds are natural numbers, and an event is a record of four fields.
ASSUME EventAssumption ==
    /\ Width \in Nat \ {0} /\ 2^Width \in Nat \ {0}
    /\ \A e \in Events : /\ e = [stream |-> e.stream, id |-> e.id, sequence |-> e.sequence, digest |-> e.digest]
                         /\ e.sequence \in 1..Largest
    /\ Scripts \subseteq Seq(FaultActions)
    /\ MaxIngests \in Nat /\ MaxReplays \in Nat

VARIABLES
    script,        \* the fault plan of this control plane
    seen,          \* cursors the tracker has recorded
    highest,       \* stream -> highest sequence recorded
    records,       \* the journal: event and JournalSequence
    used,          \* steps of the script that have fired
    held,          \* point -> frames held back by out_of_order
    ingest,        \* the running Ingest: deliveries left; or idle
    outcomes,      \* what Observe answered: event, outcome, and what was seen before
    replay,        \* the running Replay: after, snapshot, the next index, result; or idle
    ingests, replays

ingestVars == <<seen, highest, records, ingest, outcomes, ingests>>
replayVars == <<replay, replays>>
vars == <<script, ingestVars, replayVars, used, held>>

Streams == {e.stream : e \in Events}
Points == {"ingest", "replay"}
IdleReplay == [state |-> "idle", after |-> 0, snapshot |-> <<>>, next |-> 1, result |-> <<>>,
               faults |-> {}]

Init ==
    /\ script \in Scripts
    /\ seen = {} /\ highest = [s \in Streams |-> 0]
    /\ records = <<>> /\ used = {} /\ held = [p \in Points |-> <<>>]
    /\ ingest = [busy |-> FALSE, left |-> <<>>] /\ outcomes = {}
    /\ replay = IdleReplay /\ ingests = 0 /\ replays = 0

\* The steps of the script that may fire at a call of Apply.
Unused == DOMAIN script \ used

-----------------------------------------------------------------------------
(* SequenceTracker.Observe *)

SameID(e) == {c \in seen : c.stream = e.stream /\ c.id = e.id}
SameSequence(e) == {c \in seen : c.stream = e.stream /\ c.sequence = e.sequence}

\* Mutant: the next number is taken for a gap.
OutcomeOffByOne(e) ==
    CASE e \in SameID(e) -> "duplicate"
      [] SameID(e) # {} /\ e \notin SameID(e) -> "conflict"
      [] SameID(e) = {} /\ SameSequence(e) # {} -> "conflict"
      [] OTHER -> IF highest[e.stream] # 0 /\ e.sequence > highest[e.stream]
                  THEN "gap" ELSE "accepted"

\* Observe: an ID binds its content, a sequence number binds its event, and a
\* number beyond the next one is a gap.  The sum wraps at the width of uint64.
Outcome(e) ==
    CASE e \in SameID(e) -> "duplicate"
      [] SameID(e) # {} /\ e \notin SameID(e) -> "conflict"
      [] SameID(e) = {} /\ SameSequence(e) # {} -> "conflict"
      [] OTHER -> IF highest[e.stream] # 0 /\ e.sequence > (highest[e.stream] + 1) % 2^Width
                  THEN "gap" ELSE "accepted"

-----------------------------------------------------------------------------
(* Ingest *)

\* Ingest takes its lock and sends the event through the fault plan.
BeginIngest(e) ==
    /\ ~ingest.busy /\ ingests < MaxIngests
    /\ \E chosen \in SUBSET Unused, cancelled \in BOOLEAN :
        LET applied == Apply(Plain(e), held["ingest"], script, chosen, cancelled) IN
            /\ used' = used \cup chosen
            /\ held' = [held EXCEPT !["ingest"] = applied.held]
            /\ ingest' = [busy |-> ~applied.failed, left |-> applied.frames]
    /\ ingests' = ingests + 1
    /\ UNCHANGED <<script, seen, highest, records, outcomes, replayVars>>

\* What a delivered frame decodes to; an oversized one does not.
Decoded(frame) ==
    IF frame.form = "redacted" THEN [frame.payload EXCEPT !.digest = Altered] ELSE frame.payload

\* Mutant: a duplicate is journaled as well.
CommitAll(e, outcome) ==
    records' = Append(records, [event |-> e, sequence |-> Len(records) + 1])

\* Only what the tracker has not seen before is journaled.
Commit(e, outcome) ==
    records' = IF outcome = "duplicate" THEN records
               ELSE Append(records, [event |-> e, sequence |-> Len(records) + 1])

\* The highest number of a stream after n was recorded.
Raised(old, n) == IF n > old THEN n ELSE old

\* One delivery of the running Ingest: decode, observe, commit.  An error ends
\* the call; the deliveries before it stay committed.
Deliver ==
    /\ ingest.busy /\ ingest.left # <<>>
    /\ LET frame == Head(ingest.left)
           e == Decoded(frame)
           outcome == Outcome(e)
           broken == frame.form = "oversized" \/ outcome = "conflict"
       IN IF broken
          THEN /\ ingest' = [busy |-> FALSE, left |-> <<>>]
               /\ UNCHANGED <<script, seen, highest, records, outcomes>>
          ELSE /\ ingest' = [ingest EXCEPT !.left = Tail(@)]
               /\ outcomes' = IF outcome = "duplicate" THEN outcomes
                              ELSE outcomes \cup {[event |-> e, outcome |-> outcome, before |-> seen]}
               /\ seen' = IF outcome = "duplicate" THEN seen ELSE seen \cup {e}
               /\ highest' = IF outcome = "duplicate" THEN highest
                             ELSE [highest EXCEPT ![e.stream] = Raised(@, e.sequence)]
               /\ Commit(e, outcome)
    /\ UNCHANGED <<script, used, held, ingests, replayVars>>

EndIngest ==
    /\ ingest.busy /\ ingest.left = <<>>
    /\ ingest' = [ingest EXCEPT !.busy = FALSE]
    /\ UNCHANGED <<script, seen, highest, records, outcomes, ingests, replayVars, used, held>>

-----------------------------------------------------------------------------
(* Replay *)

\* Replay takes a snapshot of the journal and goes through it.
BeginReplay(after) ==
    /\ replay.state # "running" /\ replays < MaxReplays
    /\ replay' = [IdleReplay EXCEPT !.state = "running", !.after = after, !.snapshot = records]
    /\ replays' = replays + 1
    /\ UNCHANGED <<script, ingestVars, used, held>>

Records(frames) == [i \in DOMAIN frames |->
    IF frames[i].form = "redacted" THEN [frames[i].payload EXCEPT !.event.digest = Altered]
    ELSE frames[i].payload]
Undecodable(frames) == \E i \in DOMAIN frames : frames[i].form = "oversized"

Remaining == replay.state = "running" /\ replay.next <= Len(replay.snapshot)
Current == replay.snapshot[replay.next]

\* A record the caller has already is passed over.
SkipRecord ==
    /\ Remaining /\ Current.sequence <= replay.after
    /\ replay' = [replay EXCEPT !.next = @ + 1]
    /\ UNCHANGED <<script, ingestVars, replays, used, held>>

\* Any other goes through the fault plan; an error ends the call.
ReplayRecord ==
    /\ Remaining /\ Current.sequence > replay.after
    /\ \E chosen \in SUBSET Unused, cancelled \in BOOLEAN :
        LET applied == Apply(Plain(Current), held["replay"], script, chosen, cancelled)
        IN /\ used' = used \cup chosen
           /\ held' = [held EXCEPT !["replay"] = applied.held]
           /\ replay' = IF applied.failed \/ Undecodable(applied.frames)
                        THEN [IdleReplay EXCEPT !.state = "failed"]
                        ELSE [replay EXCEPT !.next = @ + 1,
                                  !.result = @ \o Records(applied.frames),
                                  !.faults = @ \cup {script[i] : i \in chosen}]
    /\ UNCHANGED <<script, ingestVars, replays>>

\* Mutant: what is held back is not released at the end.
NoFlush ==
    /\ replay.state = "running" /\ ~Remaining
    /\ replay' = [replay EXCEPT !.state = "returned"]
    /\ UNCHANGED <<script, ingestVars, replays, used, held>>

\* Flush: the frames still held back come last.
FlushReplay ==
    /\ replay.state = "running" /\ ~Remaining
    /\ replay' = IF Undecodable(held["replay"]) THEN [IdleReplay EXCEPT !.state = "failed"]
                 ELSE [replay EXCEPT !.state = "returned", !.result = @ \o Records(held["replay"])]
    /\ held' = [held EXCEPT !["replay"] = <<>>]
    /\ UNCHANGED <<script, ingestVars, replays, used>>

Next ==
    \/ \E e \in Events : BeginIngest(e)
    \/ Deliver \/ EndIngest
    \/ \E after \in 0..Len(records) : BeginReplay(after)
    \/ SkipRecord \/ ReplayRecord \/ FlushReplay
Spec == Init /\ [][Next]_vars

-----------------------------------------------------------------------------
(* Properties *)

Entries == {records[i].event : i \in DOMAIN records}

\* The variables have their types.
TypeOK ==
    /\ \A c \in seen : c.sequence \in 1..Largest
    /\ highest \in [Streams -> 0..Largest] /\ used \subseteq DOMAIN script
    /\ ingests \in 0..MaxIngests /\ replays \in 0..MaxReplays
    /\ replay.state \in {"idle", "running", "returned", "failed"}

\* However deliveries are duplicated, reordered, altered or cut short, the journal
\* numbers its records without a hole, holds exactly what the tracker has seen,
\* and binds an event ID and a sequence number of a stream to one content
\* (Observe's two maps and the commit in Ingest).
JournalExact ==
    /\ \A i \in DOMAIN records : records[i].sequence = i
    /\ Entries = seen
    /\ Cardinality(Entries) = Len(records)
    /\ \A c, d \in seen : c.stream = d.stream /\ (c.id = d.id \/ c.sequence = d.sequence) => c = d

\* A gap is reported exactly when the event jumps over a number of its stream
\* that is still missing, so that what was lost can be asked for again, or when the
\* stream has reached the largest number, where the sum in Observe wraps and every
\* new event is taken for a gap.  The first event of a stream starts it anywhere.
GapMeansHole == \A o \in outcomes :
    LET before == {c.sequence : c \in {d \in o.before : d.stream = o.event.stream}} IN
    o.outcome = "gap" <=>
        \/ Largest \in before
        \/ before # {} /\ \E n \in 1..(o.event.sequence - 1) : n \notin before /\ \A k \in before : k < n

\* Without a fault that drops, alters or fails, a Replay returns every record of
\* its snapshot that lies after the sequence it was given, however reordered.
ReplayComplete ==
    replay.state = "returned" /\ replay.faults \cap {"replay_gap", "redact"} = {} =>
        \A i \in DOMAIN replay.snapshot : replay.snapshot[i].sequence > replay.after =>
            \E j \in DOMAIN replay.result : replay.result[j] = replay.snapshot[i]

\* Types, and a journal that is exactly what the tracker has seen (Ingest).
JournalSound == TypeOK /\ JournalExact
=============================================================================
