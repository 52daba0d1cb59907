--------------------------- MODULE MCEventJournal ---------------------------
(* EventJournal with one stream and a sequence number of three bits. *)
EXTENDS EventJournal

Event(id, n) == [stream |-> "s", id |-> id, sequence |-> n, digest |-> "x"]

\* A stream with a hole that reaches the largest sequence number, and an event
\* that reuses the ID of one event and the number of another.
MCEvents == {Event("a", 1), Event("b", 2), Event("d", 7), Event("a", 2)}

MCScripts == {<<"duplicate", "out_of_order", "redact", "crash">>,
              <<"out_of_order", "replay_gap", "oversize", "backpressure">>}
=============================================================================
